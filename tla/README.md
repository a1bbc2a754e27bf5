# A formal model of git-remote-proton

TLA+ specifications of the Go remote helper in this repository (`cmd/git-remote-proton`
and `internal/`), TLC configurations that model-check them on small instances, and
theorems about them that TLAPS proves for every value of the constants.

## 1. The system

    git ──stdin/stdout──▶ git-remote-proton        cmd/git-remote-proton/main.go, internal/protocol
                            │ list, list for-push, push, fetch
                            ▼
                          internal/repo            lock, marker, push, refs, head, fetch, ...
                            │ Stat List Read CreateExclusive UpdateRevision Trash EnsureDir ReadTo
                            ▼
                          internal/transport ──▶ proton-drive CLI ──▶ Proton Drive
                          internal/gitcmd    ──▶ git, on the local repository

One helper process serves one git command. All state that outlives it is files: on the
drive, below the remote's root, and in the local repository.

    <root>/gpb-remote.json         the marker
    <root>/HEAD, <root>/refs/**    one file per ref
    <root>/packs/pack-<hash>.pack, .idx
    <root>/.lock                   the single-writer lock

Nothing on the drive is conditional but an exclusive create. There are no transactions
and no compare-and-swap; a call whose reply is lost may or may not have taken effect
(`transport.Outcome`: Committed, Refused, Ambiguous); a call of a killed helper may still
be carried out by the CLI process it leaves behind; and readers take no lock.

### Inventory

| Component | State | Operations | What is hard | What makes it correct |
|---|---|---|---|---|
| Writer lock, `lock.go` | `.lock` | AcquireLock, Release | ambiguous or misreported creates, death while holding, an operator who clears it, read-then-trash | one writer; nobody's lock taken; released whenever the code can |
| Push on the remote, `push.go`, `refs.go`, `head.go`, `sethead.go`, `refscan.go` | refs, HEAD, packs | scan, upload, delete, write, ensureHEAD, set-head | order of mutations under crashes, lost replies, late calls; stale scan | refs reach only complete packs; statuses true; HEAD names a branch; a retry is never refused for ever |
| Bootstrap, `marker.go`, `parents.go` | folders above the root, marker, layout folders | EnsureParents, Bootstrap, RequireMarker, ensureSubdirs | concurrent initialisers before any lock, death half way, calls that say the wrong thing | foreign folders untouched; nobody proceeds in half a layout; parents only as asked |
| Batch preflight, `push.go`, `casefold.go`, `canon.go`, `macpush.go` | none (a fixed point over one batch) | file/folder, case, normalisation and Mac rules; re-checks in phase 5 | refusing one entry changes the verdict on others; deletions that fail later | no confusable pair of refs appears; a rename is refused whole; the fixed point ends and is one |
| Ref tree, `push.go`, `refs.go` | folders below `refs/` | prune, self-heal, ensureRefParents | list-then-trash; residue of dead pushes | no file lost; residue never blocks a create |
| Fetch, `fetch.go`, `packmap.go`, `idxcache.go` | index cache, quarantine, local packs, `.keep` | Fetch, EnsureSidecar, RefreshSidecar, greedyCover, downloadAndVerifyPack, consolidateAndInstall | shared and possibly false cache, concurrent fetches and pushes, `git gc` | only verified packs installed; what is vouched for is there; a bad cache never fails a fetch; it ends |
| Read path checks, `readcheck.go`, `main.go`, `gitcmd/local.go` | none | refuse a list or fetch on a Mac whose refs would share a file | local refs read before git writes; symbolic refs, pruning, packed refs | no local ref loses its value to another spelling; the next fetch passes |
| Command loop, `main.go`, `protocol` | options, lock, scanned refs | list, list for-push, push, fetch, option | EOF in a batch, unsupported option, a second push batch, release on every path | no partial batch applied; answers in order, none missing; lock released |
| Transport, `transport.go`, `cli.go` | none | one CLI run per call | classifying an outcome; skipped and misreported creates; contradictory observations | an outcome never claims more than is known |
| git layer, `gitcmd` | none | git commands | parsing, pipes left open | what it reports is what git found |
| Unicode tables, test support, trace and fake transports | none | — | — | — |
| v1 PowerShell module, scripts | — | — | — | — |

## 2. Modules

Each component has a module, with its proofs in `<Module>Proofs` and its instance for
TLC in `MC<Module>`. Actions bear the names of the calls or phases they model; one call
on the transport is one step, and local computation between two calls belongs to the
step of the call before or after it. `PROJECT.json` names the source lines of each definition.

**WriterLock** (`lock.go`, the deferred release in `main.go`) with its abstraction
**SingleWriter** (at most one holder, who releases or dies). `pc` follows AcquireLock:
exclusive create, read-back, held; then Release: read, trash. A create ends Committed,
Refused, Ambiguous or in an error, with or without effect; with `MisreportedCreate` a
create skipped because the file was there is reported as done, which is why the code
reads back. Sessions crash or are signalled anywhere, and any call may never return (`Hang`:
`waitDelay` bounds the wait after the child's exit, and nothing bounds the child). The operator that the error
messages address looks first and clears later; `careless` records that he decided to
clear the lock of a live session, from where on only `NoTakeover`'s and
`ForeignTrashOnlyInGap`'s weaker claims remain.

**PushSession** (`push.go`, `refs.go`, `head.go`, `sethead.go`). A session takes the lock
(its abstract promise, which WriterLock implements), scans, validates the batch, uploads
pack then index, deletes, writes, completes HEAD, leaves. A pack is named by the set of
its commits; file contents are absent, good or damaged. `LostReplies` lets a call take
effect and be reported failed; with `OrphanCalls` the last call of a dead session lands
at any later time, also under the next session. Head setters repoint HEAD; readers read
ref after ref without the lock. Ref names are flat.

Which of these happens is a scene (`Scenes`, `Setting`): what the remote is like, what
git asks, who acts and what can go wrong, chosen at the beginning and kept.

**Transport** (`cli.go`). A run of the CLI has an exit code and says something; `StatSays`,
`CreateFolderSays`, `ListSays`, `DownloadSays` and `UploadSays` are what the transport makes
of the two, `...Runs` what the CLI may do and say (external): the call done or not, the
output true, cut off or unreadable, the exit code of no use for an upload, where only the
summary's counts tell a transfer from a skip.

**Bootstrap** (`parents.go`, `marker.go`) over Transport: Stat of the mount, Stat and
EnsureDir of each folder on the way down (made only by helpers told to, `makers`), then
Stat, List, CreateExclusive and the reads of the marker, and the four EnsureDirs, by several
helpers on one path. EnsureDir is its own few steps: look, create, and look again when the
answer contradicts the first look. The root may be absent, empty, ours, somebody else's, half
made or damaged, and a later build may put its marker there first (`LaterBuild`). A list that
exits well and printed nothing says that the folder is empty, as `List` has it, also when it
is not (`TakeForEmpty`). `raced` and `misled` are history: a helper that met another at work,
and one to whom a folder that holds something was listed as nothing.

**RefNames** (`casefold.go`, the key half of `canon.go`). Names as sequences of components,
and when two of them are spellings of each other: the same key, or one a folder of the
other's key. PushBatch and ReadCheck share it.

**PushBatch** (`push.go` phases 2, 4 and 5, `casefold.go`, `canon.go`, `macpush.go`).
Names have two keys, letter case and normalisation (RefNames). It
runs `dfPreflight`, `caseFixedPoint`, `macPass` and their outer loop, then deletions
and writes that may fail, with the re-checks. Entries that are refused on their own
(HEAD, ancestry, force) are PushSession's. The local side is what git's usual refspec gives:
each remote ref has at most one tracking ref, the one of its own name (`Tracked`).

**RefTree** (`push.go` pruneEmptyParents, subtreeFiles, createRefHealingCollision;
`refs.go` ensureRefParents, WriteRef). A tree of folders, refs and other files; Trash
takes a path with all beneath it. Other clients of the drive add and take files and
folders at any time. As in Bootstrap, a list that lost its output shows nothing
(`ListsNothing`); `gap` is history: the files that the listing a trash relies on did not show,
or that came after it.

**Fetch** (`fetch.go`, `packmap.go`, `idxcache.go`, and the git commands they run).
Fetchers of one repository share `cache` and the object store `local`; each has the
indexes it uses (`side`: the cached copy, or its own download), the map built from them
(`claims`), the rest of its round (`plan`), what it has published from quarantine
(`alt`), and its one heal (`healed`). Bytes are abstracted to the pack they belong to, so
a pack or index may be right, another's, or broken; what is published is recorded with both
its files, the pack and the index it was verified with. Every look at the cache is a step of
its own, because another fetcher may act in between: `Ensure` asks whether the index is there,
`Show` opens it, `Evict` and `Refresh` replace it, and once all are noted `ReadIndex` opens them
again one after the other, in any order (the code ranges over a map). Opening a cached
index and verifying a good pair may also fail for a reason of their own (`Show`, `Download`).
Fetch goes on to the listing whatever keeps the first connectivity check from saying yes
(`Begin`). A process that failed or died knows nothing any more (`Forget`). Pushes complete pairs meanwhile; `Gc` takes what
no ref and no `.keep` holds; `GitUpdates` is git writing its refs after the helper said
so. `hit` is history: what went wrong around a fetcher; of collections it tells those that
struck before the last check of what was found (`gc`) from those in the window in which
nothing protects what Fetch vouches for (`gap`). What a traversal reaches is
defined as the least set closed under the links of present objects, and greedyCover as
the fold the code computes, ties broken by name.

**ReadCheck** (`readcheck.go`, `readLocalState`, `macFetchCheck` and `macPushCheck` in `main.go`,
`gitcmd/local.go`). A case is a repository and a remote: refspecs, local refs loose and packed,
symbolic tracking refs, pruning configured or not, the ref format. `List` applies the check the code applies and
tells git the refs, or refuses. Then git (external) writes and prunes what its refspecs give
it, one ref at a time in any order, through symbolic refs and over packed values, on a file
system where spellings are one file, and another git process may create a ref in between.
The local refs exist twice: as git means them (by name) and as the files are. A symbolic ref
whose target does not exist is in the files and in no listing (`hidden`), and a push rewrites the
tracking ref of a remote ref that is up to date whatever the name of its source (`GitRewrites`).
`Blind` is what the repository's README lists under "What the Mac checks cannot see": spellings
that another process created after the check; refs already up to date or pruned whose names are
spellings of each other; spellings of a dangling symbolic ref; and what is written through one, or
as the tracking ref of a push whose source has another name (`Unseen`), where that meets a spelling
and the check did not look. `touched` and `written` are history: the names that the check took git to
write, and those it may. `Affected` is what these can disturb: their spellings; whatever a
symbolic ref leads to that stands at or near one (a reader of one spelling follows the other's
symbolic ref, and git then writes somewhere else); and names that share a prefix with any of these,
since a ref that is written, or is not, decides whether one below or above it can be.

**HelperSession** (`loopEnv` in `main.go`, `protocol`). git writes lines into a bounded pipe,
ahead of the answers too, ends or breaks it anywhere, and keeps what it waits for (`asked`).
The helper reads one line a step; each command then makes its remote calls, one a step and
each may fail or never return (`Hang`); an exit runs the deferred release. Push is one step an entry, applied or not
(PushSession is the detail), Fetch and Bootstrap are one step each, and rivals take the lock
by its rules. `meant` is history: what the complete, unpoisoned batches of git asked.

How they compose: HelperSession calls the operations the other modules detail. PushSession uses
SingleWriter's promise for the lock; RefTree assumes pushes one at a time for the same
reason; the batch that PushSession and RefTree carry out has been through PushBatch's rules;
Bootstrap, every call of which goes through Transport, precedes them all; ReadCheck stands
between a scan and the answer to a list. Fetch relies on what PushSession proves, that refs
reach only complete pairs (`Serves` is that remote).

## 3. Runs

| Run | Instance | Question |
|---|---|---|
| `WriterLock_main` | 3 sessions, an operator, misreported creates | one writer at a time; no takeover; refinement of SingleWriter; the lock is freed by a session whose calls return and succeed and which is not killed |
| `WriterLock_exit` | the same | *violated:* a lock that may have landed is released on every exit |
| `PushSession_main` | 3 refs, 3 commits, 3 scenes: 2 sessions with lost replies and deaths over 6 remotes with half uploaded and damaged pairs; 2 sessions and a head setter over 4; 2 sessions and a reader, with late calls of the dead | restorable refs, what a lockless reader hears of can be fetched, true statuses, forward-only branches, nothing half done wedges a retry, HEAD names a branch but for admitted failures |
| `PushSession_replace` | 1 remote without HEAD, delete-and-rewrite batches | *violated:* HEAD names a branch |
| `Bootstrap_main` | 2 helpers, one parent folder, every folder and every path to it | foreign folders, complete layouts, recovery, parents, helpers that make the same folders |
| `Bootstrap_race` | the same, the folder empty | *violated:* the loser of the race proceeds |
| `PushBatch_main` | 7 names, every set of refs, batches of up to 4 (3 under the Mac rule, 2 with a skipped path) | the preflight, that it ends, and its re-checks |
| `RefTree_main` | 6 paths, every tree, batches of up to 2, 2 steps of other clients, death | files lost only in the admitted gap; residue never blocks |
| `Fetch_main` | 2 fetchers, 4 packs, 4 objects, 85 situations | causes of failure, vouching, quarantine, plans, rounds |
| `Fetch_shared` | 2 fetchers, one cache | *violated:* trouble with the cache never fails a fetch |
| `ReadCheck_main` | 16 names in spellings of three kinds, some 91,000 combinations of remote, refspecs and local refs | no ref loses its value to another spelling; wherever git stops, the next fetch passes, if no symbolic ref dangled |
| `HelperSession_main` | 6 lines of 13 kinds, a pipe of 1, one change by a rival | only what git meant is applied; answers fit; lock and exits; every command answered, but for a call that never returns |

Why the bounds suffice to be interesting. Two sessions meet in every order of create,
read-back and trash; the third makes a lock appear between another's check and trash.
Three commits give a fork and a fast-forward, two branches a HEAD and one it could fall
back to, a tag something HEAD must not name. The names of PushBatch hold a case variant,
a normalisation variant, both as folders, and leaves where folders would go: a refused
rename can expose another conflict, which is the reason for the code's loop, and four
entries make it run more than once. RefTree's depth of three is the least at which a walk
level by level can miss a file; two steps of others are one arrival in a gap and one
disturbance besides. Bootstrap's two helpers meet at each of the folders, with one parent either
may find missing; a third helper, or a second parent, adds no new pair of neighbours and is beyond
what TLC finishes. Six lines are `list for-push`, a push batch of two with an option in or
before it and its blank line, and one command more; a pipe of one line already lets git
write ahead of the answers and end behind them. ReadCheck's names hold a capital, another
normalisation, both as folders, `HEAD` against `head`, tags and two namespaces; its cases
all pairs of remote refs, seven sets of refspecs and up to two local refs, plus larger
sets that only a symbolic, a dangling or a packed-over ref, or a source of another name, makes interesting; the newcomers are a spelling of
a tracking ref and one of a folder. Fetch's objects overlap between packs so that greedy choices, ties
and a forced pack all occur, and pack 4 is a pack only a false index knows; the
situations are every state of a three-index cache, single bad files, pairs that come
during the fetch, local stores with parts that refs do or do not reach, and two fetchers
that share a cache with one false and one right index (each further start of two
multiplies a run of some 1.2 million states, 980,000 of them this one's). Bounds on counts are `MaxPushes`, `MaxOther`,
`MaxEntries`, `MaxSkipEntries`, `MaxMacEntries`, `MaxLines`, `Capacity`, `MaxRivals`; everything else is finite by itself.
`CHECK_DEADLOCK FALSE` throughout: helpers end, and then nothing need happen.

### Fairness and liveness

Two temporal liveness properties. `LockFreed` (WriterLock) is under weak fairness of each
session's own next step (`FairSpec`): a live process that can run does run. `Answered` (HelperSession) is
under weak fairness of the helper's `Step` alone, for the same reason: whatever git has asked is
answered or the helper ends. Neither assumes that a CLI call returns: the transport has no command
timeout (`cli.go:15`, `cli.go:37`; `waitDelay` only bounds draining the pipe of a child that has
exited), so `Hang` stops a session in any call for ever, and a hung helper is what both properties
except. In the code git then waits, and the lock stays, until somebody kills the helper. A helper waiting for a line is not enabled to step, so nothing
is assumed of git, of other processes, of the operator, or against crashes. That the preflight ends is
stated without fairness, as a measure: `PreflightShrinks` says that no step of it makes an entry
valid again and each one that starts it over has refused one more. So is the end of a fetch: `RoundsBounded` says the discovery loop
starts over only with one more pack published or its one heal spent, and that neither is
undone.

## 4. What disagrees with the documentation

- `WriterLock_exit`: AcquireLock returns without reading back when the create was
  answered Ambiguous or with an error (`lock.go:89`). If it landed, the lock stays and
  blocks later pushes, where `main.go:597` and the design ask for release and
  reconciliation.
- `PushSession_replace`: ensureHEAD looks results up by name (`push.go:1251`); after
  "delete x, write x" whose write fails or is refused, a remote without HEAD is given one that names
  the branch just deleted. The refusal needs no call to fail; it was met when the proof of
  an earlier statement, that HEAD dangles only after a failed call, did not go through.
- `Bootstrap_race`: who lists the folder after the winner's marker landed refuses it;
  the design says the loser re-reads and proceeds.
- `Fetch_shared`: an index noted in the shared cache may be evicted by another fetch
  before it is read (`packmap.go:143`), and the fetch fails, blaming the remote; the
  design says trouble with the cache is never trouble for the fetch.

Two documents disagree with each other on one of ReadCheck's blind spots:
`docs/v2-remote-helper-design.md:1345` admits only up-to-date refs whose *custom* mappings
collide, the repository's README (under "What the Mac checks cannot see") also a clone that
holds both members of a pair as local branches. The model confirms the README.

Met while modelling, and not a run: `List` reads an exit with success and no output as an empty folder
(`cli.go:216`), and `run` lets output that was cut off through as it is (`cli.go:59`), so somebody else's folder
whose listing is lost is claimed as empty, where `marker.go` and the design have a folder that is neither ours
nor empty refused without guessing (`OnlyOursOrEmptyTouched` says so); the program installs no signal handler, so a signal
leaves the lock (`Interrupt`), while `docs/v2-remote-helper-design.md:625` counts signals
among the released paths; and a collection between `connectivity-ok` and git's update of
the refs is not the "loud" failure `fetch.go:447` expects if git was told not to check.

## 5. Proofs

`tlapm` checks every theorem; constants are as general as the named assumptions
(`LockConstants`, `PushConstants`, ...) allow. Each proof has an inductive invariant
`IInv`, of which TLC has confirmed every part on the instances above.

- **WriterLockProofs**: type correctness, `HolderOwnsFile`, `MutualExclusion`, `NoTakeover`,
  `ForeignTrashOnlyInGap`, and that WriterLock implements SingleWriter. The invariant
  adds that the operator, unless careless, has only decided to clear a dead session's
  lock: mutual exclusion follows since two holders would both own the one file.
- **PushSessionProofs**: `TypeOK`, `RefsClosed`, `AdvertisedFetchable`. The argument never
  uses the lock: complete pairs only grow, so what a session scanned, and what it or its
  late call is about to publish, stays restorable. The invariant carries this for
  each phase and each late call. Then `StatusTruthful`, `FastForwardOnly`, `NeverWedged` and
  `HeadDanglesOnlyForCause`, which are what the lock is for: while no call outlives its
  helper, whoever is past AcquireLock is the writer (`Alone`), so what it scanned stays true
  of every ref it has yet to deal with (`Tracked`), and of the others it knows what it did.
  `HeadStarts` assumes that HEAD names a branch, or nothing, when a run begins.
- **BootstrapProofs**: `TypeOK`, `OnlyOursOrEmptyTouched`, `ReadyIsComplete`,
  `ParentsOnlyAsAsked`, `BarredForCause`, `PartialIsCompleted`, for any number of helpers and any depth. A folder
  that was neither ours nor empty never sees a helper past its recognition; ensured folders
  stay, and who claims a folder that held something was `misled`. What a helper was told by its first look (`Told`) is still so or has only grown
  (`Grown`), so its second look explains a refusal. A folder that began empty holds nothing
  but what helpers made, so a refusal means another was half way (`StillVacant`, `Found`).
- **HelperSessionProofs**: `TypeOK`, `BatchMeetsAdvertised`, `LockFreedOnExit`, for any number of
  lines, capacity and rivals. Past the acquisition the flag is set, so the file is ours and
  no rival moves the refs (`Locked`); every exit but a kill passes the release (`Left`).
  Then `OnlyWhatGitMeant`, `AnswersFit` and `HonestExit`: git runs ahead of the helper by what is
  in the pipe, so the invariant (`InStep`) says that some trace of git's states explains the
  lines still in the pipe, line by line, and that the state it starts from agrees with the
  helper's. A line read takes the first state off the trace, a line written adds one.
- **PushBatchProofs**: `NoNewVariantPair`. What is on the remote is accounted for as what was there,
  less what was reported deleted, and what was tried; a write met the former at the
  re-check and the latter in the preflight. The keys are arbitrary functions. Then
  `PreflightShrinks`, of each pass by itself, and
  `RefusedOnlyAfterFailure`, `RenameRefusedWhole` and `MacKeepsFilesApart`, by following the loop of
  phase 2 to its fixed point (`Preflight`): what a round refuses puts deletions back, and
  no create that is left can be nested with one of those, for it would be a variant of the create
  refused (`NestedWithSpelling`). `RefsAreFiles` assumes that no two refs of the remote are
  nested, and `NameForm` that every component of a name has its keys.
- **RefTreeProofs**: `TypeOK`, `RootsStay`, `FilesLostOnlyInGap`. The invariant says what
  each trash may rely on: any file beneath came after the listing that justified it, or was not shown by it.
  Then `ResidueNeverBlocks` and `LeavesNoLitter` (`Calm`): while nothing disturbs the push, all that is
  in the tree was there at the scan or was made for a write (`Explained`), with which no
  write it accepted is nested (`Fits`); so what is at the place of a create is an empty
  folder, or one of the layout, and a folder left empty is one the push is just working on (`Tidy`).
- **FetchProofs**: `TypeOK`, `RoundsBounded`, `OnlyVerifiedPublished`, `VouchedIsThere`,
  `FailsOnlyForCause`. The last is the deepest: every way to fail is excluded one by one. The
  invariant says that a fetcher listed all that was there at the beginning (`Stemmed`),
  that an index it counts on in the cache is there unless another fetch took it
  (`Counting`), that after the heal it owns every index and its map is true (`Healing`), and that what
  it found is there or was collected (`Vouched`; from the `.keep` on, is there). With a true map every missing object
  has a pack that is not yet published: were it, the object would not be missing. Two
  lemmas about traversals (`CompleteHolds`, `MissingInClosure`) connect git's two
  questions, what is missing and whether all is there.

- **ReadCheckProofs**: `TypeCorrect`, `FilesAgree`, `NextFetchPasses`, for any names, keys, refspecs,
  repositories and newcomers; of the keys it assumes that names with one file are spellings of each
  other by the rule (`SameFileSameKey`). The check is the source of one fact (`Cleared`): no
  name git was let through to is a spelling of another, or of a ref that was there, but for the
  kinds it does not compare or does not see. Symbolic refs stay within such names (`Given`, which is what `ExpandSymrefs`
  is for), and later refs do not change it (`Apart`). So each has a file of its own
  (`OwnOrBlind`), what git finds there is what it means, and a write or prune does to the files
  what it does to the refs (`Rewritten`). A write that meets what the checks are blind to changes one
  file, and all names that can notice are in `Affected` (`Disturbed`), which is closed under what
  git follows and what can block it. `KeptWhereSeen` is the plain case: blind to nothing, all refs
  keep their values. For the next fetch, no name outside `Before` and what was checked appears
  (`Grown`), and a repository with refs has at most the mapping of one without (`FewerSpecs`).

The proofs corrected the model. An earlier `FilesAgree` excepted only the spellings of what the
checks are blind to, and was false: a symbolic ref in another spelling's file sends git's write to
a third name, and a ref that is not written leaves room for one below it (`Misled` in MCReadCheck is
an instance). Some cases were no repository (a name twice, a packed symbolic ref, two loose
refs in one file), a write into a folder of another spelling was disabled instead of
taking that spelling, and an operand was grouped otherwise by the prover than by TLC. And
`NextFetchPasses` needs no fetch that ran to its end, as it had been stated.

Only model-checked: liveness (`LockFreed`, `Answered`), since temporal proofs under fairness need
ENABLED, which the prover does not handle. Every other property the runs check is a theorem. Type
correctness of WriterLock and RefTree is a theorem only, as no run of theirs lists it.

## 6. Not modelled, and limits

- `FastForwardOnly`, `StatusTruthful`, `NeverWedged` and `HeadDanglesOnlyForCause` are claimed only
  while no call outlives its helper: a late write can undo a later push, since nothing on
  the drive is conditional.
- An exit with success and no output (`cli.go:216`) is modelled for the listings of Bootstrap and
  RefTree; in PushSession a scan sees every ref or fails. In the code a scan with a folder lost
  so would report the deletion of a ref in it as done that is still there, which `StatusTruthful` does not cover.
- A call of a dead helper that lands late is PushSession's subject. For the lock itself it is left out
  (`WriterLock!Die`): the CLI child of a helper killed in the trash of `.lock` (`cli.go:52`) may finish
  later, when the operator has cleared the dead one's lock, and take a newcomer's.
- HelperSession leaves out the partial listing that is flushed when HEAD cannot be read
  (`main.go:693`): the helper then exits with 1, and git discards it.
- PushBatch's local side has one mapping, which keeps names (`Tracked`); several fetch refspecs, or
  renaming ones (`main.go:541`, `macpush.go:142`, `macpush.go:194`), are not modelled there. ReadCheck has them.
- Bootstrap takes a parent's own Stat and the one its EnsureDir begins with for one look.
- The loss of a rename that the repository's README admits ("One loss remains") is in the model's
  reach only as two failing entries; it is not counted as a violation.
- Trash and update revision are outcomes (Committed, Refused, Ambiguous) in WriterLock and
  PushSession, not runs of the CLI as in Transport; the JSON the CLI prints, its version and
  the identity of nodes are not modelled. A refused trash changes nothing and is retried by
  nobody, so the classification adds nothing to those modules.
- ReadCheck takes a wildcard for whole components and leaves out `core.precomposeunicode`; refspecs and `--prune`
  on the command line, `--refmap` and legacy `.git/remotes` never reach the helper and are not in `Blind`,
  though the repository's README names them too. Symbolic refs are followed two levels. After a fetch through a
  dangling symbolic ref the next fetch may be refused: its target has come to exist.
- The arguments of the helper, its environment and where it keeps its files are left out; the
  `--set-head` utility is an actor of PushSession.
- Time limits and pipes of git subprocesses (`gitcmd`) only turn into failures, which every
  model has.
- git's answers are constants or definitions over an object graph; hash collisions,
  alternates of the user's own, shallow and partial clones are left out.
- Unicode tables are finite data, tested exhaustively in the repository; two abstract
  keys stand for them. The wording of messages, `macKept` and `macCreates` included, is left out.
- The v1 PowerShell module shares neither code nor layout with the helper and is
  sequential; the scripts and the test double are drivers.

## 7. Plan

1. `WriterLock` with `SingleWriter`, `PushSession`, `Bootstrap`: done.
2. `PushBatch`, `RefTree`, `Fetch`: done.
3. `Transport` with `EnsureDir` and `EnsureParents` in `Bootstrap`, `ReadCheck` with `RefNames`,
   `HelperSession`: done.
4. Proofs of every safety property the runs check: done.
5. To come: that what PushBatch settles on is a batch such as RefTree assumes; and an abstract
   push (refs that move one at a time between restorable states), which PushSession implements.
