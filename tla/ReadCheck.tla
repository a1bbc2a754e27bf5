------------------------------- MODULE ReadCheck -------------------------------
(***************************************************************************)
(* The Mac read rules: before it advertises a ref, the helper decides from *)
(* the advertised refs, the remote's refspecs and the local refs whether   *)
(* anything git may then write or prune locally would meet a second ref    *)
(* that the file system takes for the same file (internal/repo/            *)
(* readcheck.go, cmd/git-remote-proton/main.go: readLocalState,            *)
(* macFetchCheck, macPushCheck; internal/gitcmd/local.go).                 *)
(*                                                                         *)
(* What the rules are for is a local ref store in which every name keeps   *)
(* its own value.  The store is modelled twice: ideal, what git means it   *)
(* to hold, keyed by exact names; and loose and packed, what is in the     *)
(* files, where a loose ref is found by its file.  git is external: having *)
(* been advertised the refs it may write or prune any of those that its    *)
(* configuration gives it, in any order, and stop at any point.            *)
(*                                                                         *)
(* A wildcard stands for whole components here, and file names are read    *)
(* back as they were stored (core.precomposeunicode off).                  *)
(***************************************************************************)
EXTENDS RefNames, FiniteSetsExt

CONSTANTS
    FileKey,    \* FileKey[c]: what the file system makes of component c
    Cases,      \* the repositories and remotes a behaviour begins with
    Newcomers   \* names another git process may create meanwhile

Folders(n) == {SubSeq(n, 1, i) : i \in 1..Len(n)}

\* The file of each name, and of each folder above it.
FileKeys == [n \in UNION {Folders(m) : m \in Names} |-> Keys(FileKey, n)]

Entry == [name : Names, val : Names, sym : BOOLEAN]

\* A refspec with a wildcard, or a literal one; one with no destination writes
\* nothing and a negative one excludes.
Kinds == {"map", "nodst", "negative"}

\* A folder or file has one name.
FilesApart(store) ==
    \A x, y \in store : \A p \in Folders(x.name), q \in Folders(y.name) :
        FileKeys[p] = FileKeys[q] => p = q

(***************************************************************************)
(* A case: cmd is what git is about to do; adv are the refs the remote     *)
(* holds, each with a value of its own, named like it; specs and urls are  *)
(* the configured refspecs and whether the remote has a URL at all.        *)
(***************************************************************************)
IsCase(c) ==
    /\ c.cmd \in {"fetch", "push"}
    /\ c.adv \subseteq Names
    /\ \A sp \in c.specs : sp.kind \in Kinds /\ sp.star \in BOOLEAN
    /\ {c.urls, c.prune, c.reftable} \subseteq BOOLEAN
    /\ c.loose \subseteq Entry /\ c.packed \subseteq Entry
    /\ \A x, y \in c.loose : x.name = y.name => x = y
    /\ \A x, y \in c.packed : x.name = y.name => x = y
    /\ \A e \in c.packed : ~e.sym
    /\ c.reftable \/ FilesApart(c.loose)

\* Names that share a file, or a folder, share a key of the rule.
SameFileSameKey ==
    \A a, b \in DOMAIN FileKeys : FileKeys[a] = FileKeys[b] => SameKey(a, b)

ASSUME ReadConstants ==
    /\ \A c \in Cases : IsCase(c)
    /\ SameFileSameKey
    /\ Newcomers \subseteq Names
    /\ <<>> \notin Names

VARIABLES
    case,       \* what this behaviour is about
    stage,      \* "list", "git" once refs are advertised, or "refused"
    hidden,     \* symbolic refs whose target does not exist when git lists them
    touched,    \* names the check took git to write
    uncompared, \* names it did not compare with one another
    written,    \* names git may come to write
    ideal,      \* the refs as git means them
    loose,      \* loose refs, under the names their files have
    packed,     \* refs in packed-refs
    left,       \* writes git has not done: entries to store
    prunable,   \* names git may still prune
    late        \* refs another process created since the check

vars ==
    <<case, stage, hidden, touched, uncompared, written, ideal, loose, packed, left, prunable, late>>

TypeOK ==
    /\ IsCase(case)
    /\ stage \in {"list", "git", "refused"}
    /\ {hidden, touched, uncompared, written} \subseteq SUBSET Names
    /\ ideal \subseteq Entry /\ loose \subseteq Entry /\ packed \subseteq Entry
    /\ left \subseteq Entry /\ prunable \subseteq Names
    /\ late \subseteq Newcomers

NamesOf(store) == {e.name : e \in store}

-----------------------------------------------------------------------------
\* The store in files.  In a reftable repository every name is on its own.
FileOf(n) == IF case.reftable THEN n ELSE FileKeys[n]

SameFile(n) == {e \in loose : FileOf(e.name) = FileOf(n)}

\* What a reader of name n finds: the loose ref in its file, else the packed one.
Found(n) == IF SameFile(n) # {} THEN SameFile(n) ELSE {e \in packed : e.name = n}

\* The names there are.
Listed == NamesOf(loose) \cup NamesOf(packed)

\* git follows a symbolic ref to what it names; two levels here.
Target(found) == (CHOOSE e \in found : e.sym).val
OnceBy(find(_), n) == IF \E e \in find(n) : e.sym THEN Target(find(n)) ELSE n
FollowBy(find(_), n) == OnceBy(find, OnceBy(find, n))

Meant(n) == {e \in ideal : e.name = n}

\* A symbolic ref whose target does not exist is not listed, and nothing warns.
Dangling == {n \in NamesOf({e \in loose : e.sym}) : Found(FollowBy(Found, n)) = {}}

LocalRefs == Listed \ Dangling

Symrefs == {e \in ideal : e.sym /\ e.name \in LocalRefs}

-----------------------------------------------------------------------------
\* Refspecs (refspecMatch, refspecExpand, mapRef).
Matches(star, pattern, n) == IF star THEN IsStrictPrefix(pattern, n) ELSE n = pattern

Expand(sp, n) == IF sp.star THEN sp.dst \o SubSeq(n, Len(sp.src) + 1, Len(n)) ELSE sp.dst

Maps(specs) == {sp \in specs : sp.kind = "map"}

PushTrackingRefs(specs, n) ==
    {Expand(sp, n) : sp \in {sp \in Maps(specs) : Matches(sp.star, sp.src, n)}}

Excluded(specs, n) ==
    \E sp \in specs : sp.kind = "negative" /\ Matches(sp.star, sp.src, n)

MapRef(specs, n) == IF Excluded(specs, n) THEN {} ELSE PushTrackingRefs(specs, n)

\* (Mutant) The tracking HEAD is forgotten.
TrackingHeadsNone(specs) == {}

\* The tracking HEAD that a clone, or followRemoteHEAD, writes.
TrackingHeads(specs) ==
    {sp.dst \o <<"HEAD">> : sp \in {sp \in Maps(specs) : sp.star /\ sp.src = <<"heads">>}}

Tags(adv) == {n \in adv : n[1] = "tags"}

FetchDestinations(adv, specs) ==
    (UNION {MapRef(specs, n) : n \in adv}) \cup Tags(adv) \cup TrackingHeads(specs)

\* With the targets of symbolic destinations, and theirs, until none is new.
ExpandSymrefs(ds, symrefs) ==
    LET targets == {e.val : e \in symrefs}
        closed == {ts \in SUBSET targets :
                     \A e \in symrefs : e.name \in ds \cup ts => e.val \in ts}
    IN ds \cup {n \in targets : \A ts \in closed : n \in ts}

PruneCandidates(specs, ds, local) ==
    {n \in local \ ds : \E sp \in Maps(specs) : Matches(sp.star, sp.dst, n)}

UpToDateTracking(adv, specs, local) == UNION {PushTrackingRefs(specs, n) : n \in adv \cap local}

\* DestinationConflicts and LocalConflicts report anything.
DestinationsCollide(ds, local) == \E d \in ds : ConflictsIn(local \cup ds, d) # {}

LocalsCollide(ds, local) == \E d \in ds : ConflictsIn(local \ ds, d) # {}

AdvertisedPairs(adv) == {ab \in adv \X adv : ab \in VariantPairs}

-----------------------------------------------------------------------------
RefFormat == IF case.reftable THEN "reftable" ELSE "files"

\* readLocalState: the fetch mapping of this repository.
Default == [kind |-> "map", star |-> TRUE, src |-> <<"heads">>, dst |-> <<"o">>]

Specs(local) ==
    IF case.urls THEN case.specs \cup (IF local = {} THEN {Default} ELSE {}) ELSE {}

FetchWrites(local) == ExpandSymrefs(FetchDestinations(case.adv, Specs(local)), Symrefs)

MayPrune(local, ds) ==
    IF case.prune THEN PruneCandidates(Specs(local), ds, local) ELSE {}

\* (Mutant) What the fetch writes is not compared with itself.
MacFetchCheckAgainstLocal(local, ds) ==
    \/ RefFormat = "reftable"
    \/ /\ AdvertisedPairs(case.adv) = {}
       /\ ~LocalsCollide(ds, local)
       /\ ~LocalsCollide(MayPrune(local, ds), local)

MacFetchCheck(local, ds) ==
    \/ RefFormat = "reftable"
    \/ /\ AdvertisedPairs(case.adv) = {}
       /\ ~DestinationsCollide(ds, local)
       /\ ~LocalsCollide(MayPrune(local, ds), local)

PushWrites(local) ==
    ExpandSymrefs(UpToDateTracking(case.adv, Specs(local), local), Symrefs)

MacPushCheck(local, ds) == RefFormat = "reftable" \/ ~LocalsCollide(ds, local)

-----------------------------------------------------------------------------
\* What git does with the advertised refs (external).  It has no mapping for an
\* anonymous remote, and a clone adds the default one to those it was given.
GitSpecs(local) ==
    {sp \in case.specs \cup {Default} : case.urls /\ (sp \in case.specs \/ local = {})}

Store(d, v) == [name |-> d, val |-> v, sym |-> FALSE]

Point(h, b) == [name |-> h, val |-> b, sym |-> TRUE]

\* The remote's HEAD is its branch a.
OriginHead == Point(<<"o", "HEAD">>, <<"o", "a">>)

GitFetches(specs) ==
    {Store(dn[1], dn[2]) :
        dn \in {dn \in Names \X case.adv : dn[1] \in MapRef(specs, dn[2])}}
    \cup {Store(n, n) : n \in Tags(case.adv)}
    \cup {h \in {OriginHead} \cap Entry :
            /\ \E sp \in Maps(specs) : sp.star /\ sp.src = <<"heads">> /\ sp.dst = <<"o">>
            /\ \E n \in case.adv : h.val \in MapRef(specs, n)}

\* git prune: what a refspec's destination covers, nothing maps to, and is not symbolic.
GitPrunes(specs) ==
    {n \in NamesOf(ideal) :
        /\ case.prune
        /\ \E sp \in Maps(specs) : Matches(sp.star, sp.dst, n)
        /\ \A r \in case.adv : n \notin MapRef(specs, r)
        /\ \A e \in Meant(n) : ~e.sym}

\* git push rewrites the tracking refs of what is up to date: of a remote ref
\* that has the value of the source, whatever the name the source was given by.
GitRewrites(specs) ==
    {Store(dn[1], dn[2]) :
        dn \in {dn \in Names \X case.adv : /\ dn[1] \in PushTrackingRefs(specs, dn[2])
                                          /\ \E e \in ideal : ~e.sym /\ e.val = dn[2]}}

\* Where writes of these names end up, through any symbolic ref in their files.
Through(names) ==
    ExpandSymrefs(names, {[name |-> ne[1], val |-> ne[2].val] :
        ne \in {ne \in Names \X {e \in case.loose : e.sym} : FileOf(ne[1]) = FileOf(ne[2].name)}})

-----------------------------------------------------------------------------
Agrees(n) ==
    IF Meant(n) # {} THEN n \in Listed /\ {[e EXCEPT !.name = n] : e \in Found(n)} = Meant(n)
                     ELSE n \notin Listed

Init ==
    /\ case \in Cases
    /\ stage = "list"
    /\ loose = case.loose /\ packed = case.packed
    /\ ideal = loose \cup {e \in packed : e.name \notin NamesOf(loose)}
    /\ hidden = Listed \ LocalRefs
    /\ touched = {} /\ uncompared = {} /\ written = {} /\ left = {} /\ prunable = {} /\ late = {}

Advertise(ds, apart, writes, prunes) ==
    /\ stage' = "git"
    /\ touched' = ds \cap Names /\ uncompared' = apart \cap Names
    /\ written' = Through(NamesOf(writes))
    /\ left' = writes /\ prunable' = prunes

Refuse == stage' = "refused" /\ UNCHANGED <<touched, uncompared, written, left, prunable>>

\* The list commands: the local reads, any of which may fail, and the check.
List ==
    /\ stage = "list"
    /\ LET local == LocalRefs
           specs == GitSpecs(local)
           fetched == FetchWrites(local)
           pushed == PushWrites(local)
       IN \/ /\ case.cmd = "fetch" /\ MacFetchCheck(local, fetched)
             /\ Advertise(fetched, MayPrune(local, fetched), GitFetches(specs), GitPrunes(specs))
          \/ /\ case.cmd = "push" /\ MacPushCheck(local, pushed)
             /\ Advertise(pushed, pushed, GitRewrites(specs), {})
          \/ Refuse
    /\ UNCHANGED <<case, hidden, ideal, loose, packed, late>>

-----------------------------------------------------------------------------
\* The name a new file gets: folders that are there keep their spelling, and
\* so may the file itself.
Spellings(t) ==
    {n \in Names :
        /\ FileOf(n) = FileOf(t)
        /\ \A i \in 1..(Len(t) - 1) :
              LET beside == {e \in loose : Len(e.name) > i /\ FileOf(SubSeq(e.name, 1, i))
                                                              = FileOf(SubSeq(t, 1, i))}
              IN IF beside = {} THEN n[i] = t[i]
                                ELSE SubSeq(n, 1, i) \in {SubSeq(e.name, 1, i) : e \in beside}
        /\ n[Len(n)] \in {t[Len(t)]} \cup {e.name[Len(t)] : e \in SameFile(t)}}

\* A file stands where a folder would have to be, or the other way round, or a
\* packed name is one.
Blocked(t) ==
    \/ \E e \in loose : Nested(FileOf(e.name), FileOf(t))
    \/ \E e \in packed : Nested(e.name, t)

Stored(store, e) == {x \in store : x.name # e.name} \cup {e}

PutFile(t, e) ==
    IF Blocked(t) THEN UNCHANGED loose
    ELSE \E n \in Spellings(t) : loose' = (loose \ SameFile(t)) \cup {[e EXCEPT !.name = n]}

Same(found, e) == \E x \in found : x.val = e.val /\ x.sym = e.sym

\* One ref is written unless it has that value: through a symbolic ref, unless it is one.
GitWrites(e) ==
    /\ stage = "git" /\ e \in left
    /\ left' = left \ {e}
    /\ LET t == IF e.sym THEN e.name ELSE FollowBy(Meant, e.name)
           f == IF e.sym THEN e.name ELSE FollowBy(Found, e.name)
       IN /\ ideal' = IF \E x \in ideal : Nested(x.name, t) THEN ideal
                      ELSE Stored(ideal, [e EXCEPT !.name = t])
          /\ IF Same(Found(f), e) THEN UNCHANGED loose ELSE PutFile(f, [e EXCEPT !.name = f])
    /\ UNCHANGED <<case, stage, hidden, touched, uncompared, written, packed, prunable, late>>

\* One ref is deleted: its packed line, and the file at its path.
GitPrunesOne(n) ==
    /\ stage = "git" /\ n \in prunable
    /\ prunable' = prunable \ {n}
    /\ ideal' = ideal \ Meant(n)
    /\ packed' = {e \in packed : e.name # n}
    /\ loose' = loose \ SameFile(n)
    /\ UNCHANGED <<case, stage, hidden, touched, uncompared, written, left, late>>

\* Another git process creates a ref that collides with none it can see.
Meddle(k) ==
    /\ stage = "git"
    /\ k \notin late
    /\ \A n \in Listed \cup NamesOf(ideal) : n # k /\ ~Nested(n, k) /\ ~Variants(n, k)
    /\ ideal' = Stored(ideal, Store(k, k))
    /\ loose' = loose \cup {Store(k, k)}
    /\ late' = late \cup {k}
    /\ UNCHANGED <<case, stage, hidden, touched, uncompared, written, packed, left, prunable>>

Next ==
    \/ List
    \/ \E e \in left : GitWrites(e)
    \/ \E n \in prunable : GitPrunesOne(n)
    \/ \E k \in Newcomers : Meddle(k)

Spec == Init /\ [][Next]_vars

-----------------------------------------------------------------------------
\* Names that were read from another's file before anything began.
Lost == {n \in Names : \E e \in case.loose : e.name # n /\ FileOf(e.name) = FileOf(n)}

\* What the checks leave out: the target of a symbolic ref they do not read, and
\* the tracking ref of a push whose source does not have the name of the remote
\* ref.  Writes that come from either are Unseen, unless they are checked as well.
Before == NamesOf(case.loose) \cup NamesOf(case.packed)

Strays ==
    {e.val : e \in {x \in case.loose : x.sym /\ x.name \in hidden}}
    \cup UNION {PushTrackingRefs(case.specs, n) :
                   n \in {m \in case.adv \ (Before \ hidden) : case.cmd = "push"}}

Unseen == (written \cap Through(Strays)) \ touched

\* What they do not see (README.md, "What the Mac checks cannot see"): spellings of
\* a name git writes or prunes, created since the list command read the local refs,
\* or dangling; any spelling of an unseen name; and, as it compares neither with
\* one another, two tracking refs, of refs already up to date, and two prune
\* candidates.
Blind ==
    LET asked == touched \cup uncompared \cup written
    IN IF case.reftable THEN {}
       ELSE {u \in uncompared : ConflictsIn(uncompared, u) # {}}
            \cup {k \in late : ConflictsIn(asked, k) # {}}
            \cup {d \in asked : ConflictsIn(late \cup hidden \cup Unseen, d) # {}}
            \cup {w \in Unseen : ConflictsIn(Before \cup asked, w) # {}}

\* One cannot be written while the other is there, or a third keeps both out.
Tied(a, b) == \E p \in Names : IsPrefix(p, a) /\ IsPrefix(p, b)

\* The spellings of these, what symbolic refs among them lead to, and what is
\* tied to any of it.
Pointers == {e \in (case.loose \cup {OriginHead}) \cap Entry : e.sym}

Affected ==
    LET spellings == {n \in Names : \E k \in Blind : n = k \/ Variants(n, k)}
        leads == {[name |-> ne[1], val |-> ne[2].val] :
                    ne \in {ne \in Names \X Pointers : Tied(ne[1], ne[2].name)}}
        reached == ExpandSymrefs(spellings, leads)
    IN {n \in Names : \E k \in reached : Tied(n, k)}

\* Whatever git then writes and prunes, and wherever it stops, every local ref
\* that had its own value under its own name keeps it, and no other name
\* appears, except among the names that what the checks are blind to affects.
FilesAgree == \A n \in Names \ Lost : Agrees(n) \/ n \in Affected

\* A fetch that was let through does not stand in the way of the next one:
\* wherever git stopped, and if nobody else wrote, the same check passes again.
\* (A repository left without a ref is taken for a clone, which may be refused, and
\* so may be a fetch once the target of a dangling symbolic ref has come to exist.)
NextFetchPasses ==
    (stage = "git" /\ case.cmd = "fetch" /\ late = {} /\ hidden = {} /\ LocalRefs # {})
    => MacFetchCheck(LocalRefs, FetchWrites(LocalRefs))
=============================================================================
