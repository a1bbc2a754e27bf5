------------------------------ MODULE PushSession ------------------------------
(***************************************************************************)
(* What push sessions do to a remote: scan the refs under the lock,        *)
(* validate the batch, upload one pack and its index, delete, publish the  *)
(* refs, complete a missing HEAD (internal/repo/push.go), while readers    *)
(* list the remote with no lock and --set-head repoints HEAD under it.     *)
(*                                                                         *)
(* Each call on the transport is a step.  It can fail before or, in a      *)
(* scene with lost replies, after it took effect.  A session can die       *)
(* between any two steps; in a scene with orphans the CLI process of the   *)
(* call it was waiting for outlives it and may land that call at any       *)
(* later time.                                                             *)
(*                                                                         *)
(* Ref names are flat here: nothing is a prefix or a case variant of       *)
(* anything else (PushBatch and RefTree model those).  The lock is its     *)
(* abstract promise, SingleWriter, which WriterLock implements.            *)
(***************************************************************************)
EXTENDS FiniteSets

CONSTANTS
    Sessions,     \* push sessions
    HeadSetters,  \* --set-head runs
    Readers,      \* processes that list the remote without the lock
    Refs,         \* ref names
    Branches,     \* those under refs/heads/
    Commits,      \* objects
    Anc,          \* Anc[c]: c and everything reachable from it
    None,         \* no object, no ref, nobody
    Scenes,       \* the circumstances a behaviour may be played in
    Setting       \* what each of them is

Packs == SUBSET Commits      \* a pack is named by its content

FileState == {"absent", "good", "damaged"}

Remote == [refs : [Refs -> Commits \cup {None}],
           head : Branches \cup {None},
           pack : [Packs -> FileState],
           idx  : [Packs -> FileState]]

Request == [del : BOOLEAN, new : Commits \cup {None}, force : BOOLEAN]

\* The objects a client can obtain: those of the packs whose pair is complete.
StoredIn(pk, ix) == UNION {p \in Packs : pk[p] = "good" /\ ix[p] = "good"}

ClosedIn(rf, pk, ix) ==
    \A r \in Refs : rf[r] # None => Anc[rf[r]] \subseteq StoredIn(pk, ix)

ASSUME PushConstants ==
    /\ Branches \subseteq Refs
    /\ None \notin Commits /\ None \notin Refs
    /\ None \notin Sessions \cup HeadSetters
    /\ Sessions \cap HeadSetters = {}
    /\ Anc \in [Commits -> SUBSET Commits]
    /\ \A c \in Commits : c \in Anc[c] /\ \A d \in Anc[c] : Anc[d] \subseteq Anc[c]
    /\ \A sc \in Scenes :
          /\ Setting[sc].batches \subseteq [Refs -> Request]
          /\ Setting[sc].starts \subseteq Remote
          /\ \A st \in Setting[sc].starts : ClosedIn(st.refs, st.pack, st.idx)

\* The HEAD of a remote it begins with names a branch.
ASSUME HeadStarts ==
    \A sc \in Scenes : \A st \in Setting[sc].starts : st.head # None => st.refs[st.head] # None

VARIABLES
    scene,                  \* the circumstances of this behaviour
    refs, head, pack, idx,  \* the remote: ref files, HEAD, packs/*.pack, packs/*.idx
    writer,                 \* the session that holds the lock, or None
    pc,                     \* where each session or head setter is
    seen,                   \* the refs a session scanned under the lock
    batch,                  \* the batch git sent it
    has,                    \* the objects in its local repository
    dels, writes,           \* deletions and ref writes it still has to do
    deleted, wrote,         \* those that committed: their status is ok
    cur,                    \* the ref whose check passed: to trash, or to name in HEAD
    faulted,                \* sessions one of whose calls failed
    late,                   \* the call of a dead process still under way, as its phase
    adv                     \* what each reader has read so far

remote == <<refs, head, pack, idx>>
local  == <<seen, batch, has, dels, writes, deleted, wrote, cur>>
vars   == <<remote, writer, pc, local, faulted, late, adv, scene>>

\* The remotes it may begin with, the batches git may send, who takes part.
Starts == Setting[scene].starts
Batches == Setting[scene].batches
Actors == Setting[scene].actors

\* A call may take effect and still be reported failed.
LostReplies == Setting[scene].lost

\* The last call of a dead process may land later.
OrphanCalls == Setting[scene].orphans

Writers == Sessions \cup HeadSetters

Stored == StoredIn(pack, idx)

\* The phases that end in a call that changes the remote.
CallPhases == {"pack", "idx", "trash", "write", "head", "repoint"}

Phases == CallPhases \cup {"start", "scan", "plan", "delete", "check", "leave", "end"}

TypeOK ==
    /\ scene \in Scenes
    /\ refs \in [Refs -> Commits \cup {None}]
    /\ head \in Branches \cup {None}
    /\ pack \in [Packs -> FileState]
    /\ idx \in [Packs -> FileState]
    /\ writer \in Writers \cup {None}
    /\ pc \in [Writers -> Phases]
    /\ seen \in [Sessions -> [Refs -> Commits \cup {None}]]
    /\ batch \in [Sessions -> [Refs -> Request]]
    /\ has \in [Sessions -> SUBSET Commits]
    /\ dels \in [Sessions -> SUBSET Refs]
    /\ writes \in [Sessions -> SUBSET Refs]
    /\ deleted \in [Sessions -> SUBSET Refs]
    /\ wrote \in [Sessions -> SUBSET Refs]
    /\ cur \in [Writers -> Refs \cup {None}]
    /\ faulted \in SUBSET Sessions
    /\ late \in [Writers -> CallPhases \cup {"end"}]
    /\ adv \in [Readers -> [Refs -> Commits \cup {None}]]

NoRefs == [r \in Refs |-> None]
NoBatch == [r \in Refs |-> [del |-> FALSE, new |-> None, force |-> FALSE]]

Init ==
    /\ scene \in Scenes
    /\ \E st \in Starts : /\ refs = st.refs /\ head = st.head
                          /\ pack = st.pack /\ idx = st.idx
    /\ writer = None
    /\ pc = [w \in Writers |-> "start"]
    /\ seen = [s \in Sessions |-> NoRefs]
    /\ batch = [s \in Sessions |-> NoBatch]
    /\ has = [s \in Sessions |-> {}]
    /\ dels = [s \in Sessions |-> {}]
    /\ writes = [s \in Sessions |-> {}]
    /\ deleted = [s \in Sessions |-> {}]
    /\ wrote = [s \in Sessions |-> {}]
    /\ cur = [w \in Writers |-> None]
    /\ faulted = {}
    /\ late = [w \in Writers |-> "end"]
    /\ adv = [r \in Readers |-> NoRefs]

Goto(w, label) == pc' = [pc EXCEPT ![w] = label]

New(s, r) == batch[s][r].new

Fault(s) == faulted' = faulted \cup {s}

-----------------------------------------------------------------------------
\* Mutant of Acquire: the lock is not taken, or was cleared under its holder.
AcquireUnlocked(w) ==
    /\ pc[w] = "start" /\ w \in Actors
    /\ writer' = w
    /\ Goto(w, IF w \in Sessions THEN "scan" ELSE "check")
    /\ UNCHANGED <<remote, local, faulted, late, adv, scene>>

\* AcquireLock, then ScanRefs under the lock; a failed scan ends the session.
Acquire(w) ==
    /\ pc[w] = "start" /\ w \in Actors
    /\ writer = None
    /\ writer' = w
    /\ Goto(w, IF w \in Sessions THEN "scan" ELSE "check")
    /\ UNCHANGED <<remote, local, faulted, late, adv, scene>>

Scan(s) ==
    /\ pc[s] = "scan"
    /\ \/ seen' = [seen EXCEPT ![s] = refs] /\ Goto(s, "plan") /\ UNCHANGED faulted
       \/ UNCHANGED seen /\ Goto(s, "leave") /\ Fault(s)
    /\ UNCHANGED <<remote, writer, batch, has, dels, writes, deleted, wrote, cur, late, adv, scene>>

(***************************************************************************)
(* Phase 2.  HEAD is read once, only for a batch with a branch delete; if  *)
(* it cannot be read no existing branch is deleted, and the branch it      *)
(* names never is.  A branch update needs the old commit and a             *)
(* fast-forward unless forced; any other ref needs force.                  *)
(***************************************************************************)
\* ReadHEAD, as the two checks of a deletion use it.
HeadNames(r) == head = r

ValidDelete(b, sn, r, headRead) ==
    /\ b[r].del
    /\ (sn[r] # None /\ r \in Branches) => headRead /\ ~HeadNames(r)

IsAncestor(old, new) == old \in Anc[new]

\* Mutant of ValidWrite: having the old commit is taken for a fast-forward.
ValidWriteIfKnown(b, sn, ob, r) ==
    /\ b[r].new # None
    /\ sn[r] = None \/ b[r].force \/ (r \in Branches /\ sn[r] \in ob)

ValidWrite(b, sn, ob, r) ==
    /\ b[r].new # None
    /\ \/ sn[r] = None
       \/ b[r].force
       \/ r \in Branches /\ sn[r] \in ob /\ IsAncestor(sn[r], b[r].new)

Plan(s) ==
    /\ pc[s] = "plan"
    /\ \E b \in Batches, ob \in SUBSET Commits, headRead \in BOOLEAN :
          /\ \A r \in Refs : b[r].new # None => b[r].new \in ob
          /\ \A c \in ob : Anc[c] \subseteq ob
          /\ ~headRead => \E r \in Branches : b[r].del
          /\ batch' = [batch EXCEPT ![s] = b]
          /\ has' = [has EXCEPT ![s] = ob]
          /\ dels' = [dels EXCEPT ![s] = {r \in Refs : ValidDelete(b, seen[s], r, headRead)}]
          /\ writes' = [writes EXCEPT ![s] = {r \in Refs : ValidWrite(b, seen[s], ob, r)}]
          /\ IF headRead THEN UNCHANGED faulted ELSE Fault(s)
    /\ Goto(s, "pack")
    /\ UNCHANGED <<remote, writer, seen, deleted, wrote, cur, late, adv, scene>>

-----------------------------------------------------------------------------
(***************************************************************************)
(* Phase 3: one pack for everything the batch writes, less what the refs   *)
(* just scanned already reach, as far as the local repository knows them.  *)
(* Any failure gives up the writes; the deletions still run.               *)
(***************************************************************************)
\* Mutant of Haves: everything the local repository has is excluded.
HavesLocal(s) == has[s]

Haves(s) == {seen[s][r] : r \in {q \in Refs : seen[s][q] # None}} \cap has[s]

\* rev-list --objects of the wants without the haves, as one pack.
WritePack(wants, haves) == (UNION {Anc[c] : c \in wants}) \ (UNION {Anc[c] : c \in haves})

BatchPack(s) == WritePack({New(s, r) : r \in writes[s]}, Haves(s))

GiveUpWrites(s) ==
    /\ writes' = [writes EXCEPT ![s] = {}]
    /\ Goto(s, "delete")

\* Mutants of ExistingOK: any file of that name will do; none will.
ExistingAny(file) == file # "absent"
ExistingNone(file) == file = "nothing"

\* A refused upload is accepted only if what is there is what we would send.
ExistingOK(file) == file = "good"

\* CreateExclusive of one member of the pair and its confirmation: file is the
\* state of that name, next its state afterwards.
UploadTo(s, label, file, next) ==
    \/ file = "absent" /\ next = "good" /\ Goto(s, label) /\ UNCHANGED <<writes, faulted>>
    \/ file = "absent" /\ LostReplies /\ next = "good" /\ GiveUpWrites(s) /\ Fault(s)
    \/ next = file /\ GiveUpWrites(s) /\ Fault(s)
    \/ file # "absent" /\ next = file /\ UNCHANGED faulted
       /\ IF ExistingOK(file) THEN Goto(s, label) /\ UNCHANGED writes ELSE GiveUpWrites(s)

UploadPack(s) ==
    /\ pc[s] = "pack"
    /\ writes[s] # {} /\ BatchPack(s) # {}
    /\ \E next \in FileState :
          /\ UploadTo(s, "idx", pack[BatchPack(s)], next)
          /\ pack' = [pack EXCEPT ![BatchPack(s)] = next]
    /\ UNCHANGED <<refs, head, idx, writer, seen, batch, has, dels, deleted, wrote, cur,
                   late, adv, scene>>

NothingToUpload(s) ==
    /\ pc[s] = "pack"
    /\ writes[s] = {} \/ BatchPack(s) = {}
    /\ Goto(s, "delete")
    /\ UNCHANGED <<remote, writer, local, faulted, late, adv, scene>>

UploadIdx(s) ==
    /\ pc[s] = "idx"
    /\ \E next \in FileState :
          /\ UploadTo(s, "delete", idx[BatchPack(s)], next)
          /\ idx' = [idx EXCEPT ![BatchPack(s)] = next]
    /\ UNCHANGED <<refs, head, pack, writer, seen, batch, has, dels, deleted, wrote, cur,
                   late, adv, scene>>

-----------------------------------------------------------------------------
(***************************************************************************)
(* Phase 4, in any order: a name the scan did not hold is reported deleted *)
(* as it is; a branch is checked against HEAD once more, then trashed.     *)
(***************************************************************************)
DeleteCheck(s, r) ==
    /\ pc[s] = "delete"
    /\ r \in dels[s]
    /\ dels' = [dels EXCEPT ![s] = @ \ {r}]
    /\ \/ /\ seen[s][r] = None
          /\ deleted' = [deleted EXCEPT ![s] = @ \cup {r}]
          /\ UNCHANGED <<pc, cur, faulted>>
       \/ /\ seen[s][r] # None
          /\ r \in Branches => ~HeadNames(r)
          /\ Goto(s, "trash")
          /\ cur' = [cur EXCEPT ![s] = r]
          /\ UNCHANGED <<deleted, faulted>>
       \/ /\ seen[s][r] # None /\ r \in Branches
          /\ Fault(s) \/ (HeadNames(r) /\ UNCHANGED faulted)
          /\ UNCHANGED <<pc, deleted, cur>>
    /\ UNCHANGED <<remote, writer, seen, batch, has, writes, wrote, late, adv, scene>>

RefBecomes(r, to) == refs' = [refs EXCEPT ![r] = to]

DeleteTrash(s) ==
    /\ pc[s] = "trash"
    /\ \/ /\ RefBecomes(cur[s], None)
          /\ deleted' = [deleted EXCEPT ![s] = @ \cup {cur[s]}]
          /\ UNCHANGED faulted
       \/ LostReplies /\ RefBecomes(cur[s], None) /\ Fault(s) /\ UNCHANGED deleted
       \/ UNCHANGED <<refs, deleted>> /\ Fault(s)
    /\ cur' = [cur EXCEPT ![s] = None]
    /\ Goto(s, "delete")
    /\ UNCHANGED <<head, pack, idx, writer, seen, batch, has, dels, writes, wrote, late, adv, scene>>

DeletesDone(s) ==
    /\ pc[s] = "delete"
    /\ dels[s] = {}
    /\ Goto(s, "write")
    /\ UNCHANGED <<remote, writer, local, faulted, late, adv, scene>>

-----------------------------------------------------------------------------
(***************************************************************************)
(* Phase 5, in any order.  A name the scan held, unless this batch deleted *)
(* it, gets a new revision; any other is created exclusively, which is     *)
(* refused when the name is taken by then.  Both are read back.            *)
(***************************************************************************)
Exists(s, r) == seen[s][r] # None /\ r \notin deleted[s]

MayLand(s, r) == Exists(s, r) \/ refs[r] = None

WriteRef(s, r) ==
    /\ pc[s] = "write"
    /\ r \in writes[s]
    /\ writes' = [writes EXCEPT ![s] = @ \ {r}]
    /\ \/ /\ MayLand(s, r) /\ RefBecomes(r, New(s, r))
          /\ wrote' = [wrote EXCEPT ![s] = @ \cup {r}]
          /\ UNCHANGED faulted
       \/ /\ LostReplies
          /\ MayLand(s, r) /\ RefBecomes(r, New(s, r))
          /\ Fault(s) /\ UNCHANGED wrote
       \/ /\ UNCHANGED <<refs, wrote>>
          /\ Fault(s) \/ (~MayLand(s, r) /\ UNCHANGED faulted)
    /\ UNCHANGED <<head, pack, idx, writer, pc, seen, batch, has, dels, deleted, cur, late, adv, scene>>

WritesDone(s) ==
    /\ pc[s] = "write"
    /\ writes[s] = {}
    /\ Goto(s, "head")
    /\ UNCHANGED <<remote, writer, local, faulted, late, adv, scene>>

(***************************************************************************)
(* ensureHEAD: when the remote has no HEAD, name a branch it holds after   *)
(* this push.  What was published is looked up by ref name among the       *)
(* results that are ok, whatever request each result belongs to.           *)
(***************************************************************************)
OkNow(s) == deleted[s] \cup wrote[s]

\* Mutants of Candidates: refs of any kind; refs deleted by this push included.
CandidatesAnyRef(s) ==
    ({r \in Refs : seen[s][r] # None} \ deleted[s]) \cup wrote[s]

CandidatesStale(s) ==
    Branches \cap ({r \in Refs : seen[s][r] # None} \cup wrote[s])

Candidates(s) ==
    Branches \cap
        (({r \in Refs : seen[s][r] # None}
            \ {r \in Refs : batch[s][r].del /\ r \in OkNow(s)})
         \cup {r \in Refs : New(s, r) # None /\ r \in OkNow(s)})

\* DeriveHEAD picks one; CreateExclusive: an existing HEAD is never rewritten.
CreateHead(s) ==
    /\ head = None
    /\ head' \in Candidates(s)

EnsureHead(s) ==
    /\ pc[s] = "head"
    /\ Goto(s, "leave")
    /\ \/ CreateHead(s) /\ UNCHANGED faulted
       \/ LostReplies /\ CreateHead(s) /\ Fault(s)
       \/ UNCHANGED head /\ Fault(s)
       \/ (head # None \/ Candidates(s) = {}) /\ UNCHANGED <<head, faulted>>
    /\ UNCHANGED <<refs, pack, idx, writer, local, late, adv, scene>>

-----------------------------------------------------------------------------
(***************************************************************************)
(* --set-head: under the lock, the branch must exist, whatever HEAD says;  *)
(* then HEAD is overwritten, or created if there is none.                  *)
(***************************************************************************)
SetHeadCheck(w) ==
    /\ pc[w] = "check"
    /\ \/ \E b \in Branches :
             /\ refs[b] # None /\ head # b
             /\ cur' = [cur EXCEPT ![w] = b]
             /\ Goto(w, "repoint")
       \/ Goto(w, "leave") /\ UNCHANGED cur
    /\ UNCHANGED <<remote, writer, seen, batch, has, dels, writes, deleted, wrote,
                   faulted, late, adv, scene>>

SetHeadRepoint(w) ==
    /\ pc[w] = "repoint"
    /\ head' = cur[w] \/ UNCHANGED head
    /\ Goto(w, "leave")
    /\ UNCHANGED <<refs, pack, idx, writer, local, faulted, late, adv, scene>>

-----------------------------------------------------------------------------
Leave(w) ==
    /\ pc[w] = "leave"
    /\ writer' = None
    /\ Goto(w, "end")
    /\ UNCHANGED <<remote, local, faulted, late, adv, scene>>

\* A process dies between two calls, or during one that lands without it; the
\* operator then clears its lock.
Die(w) ==
    /\ pc[w] \notin {"start", "end"}
    /\ Goto(w, "end")
    /\ writer' = None
    /\ \/ UNCHANGED late
       \/ OrphanCalls /\ pc[w] \in CallPhases /\ late' = [late EXCEPT ![w] = pc[w]]
    /\ UNCHANGED <<remote, local, faulted, adv, scene>>

LatePack(s) ==
    /\ late[s] = "pack"
    /\ writes[s] # {} /\ BatchPack(s) # {}
    /\ pack[BatchPack(s)] = "absent"
    /\ pack' = [pack EXCEPT ![BatchPack(s)] = "good"]
    /\ UNCHANGED <<refs, head, idx>>

LateIdx(s) ==
    /\ late[s] = "idx"
    /\ idx[BatchPack(s)] = "absent"
    /\ idx' = [idx EXCEPT ![BatchPack(s)] = "good"]
    /\ UNCHANGED <<refs, head, pack>>

LateTrash(s) == late[s] = "trash" /\ RefBecomes(cur[s], None) /\ UNCHANGED <<head, pack, idx>>

LateWrite(s) ==
    /\ late[s] = "write"
    /\ \E r \in writes[s] : MayLand(s, r) /\ RefBecomes(r, New(s, r))
    /\ UNCHANGED <<head, pack, idx>>

LateHead(s) == late[s] = "head" /\ CreateHead(s) /\ UNCHANGED <<refs, pack, idx>>

LateRepoint(w) == late[w] = "repoint" /\ head' = cur[w] /\ UNCHANGED <<refs, pack, idx>>

LateLands(w) ==
    /\ \/ w \in Sessions /\ \/ LatePack(w) \/ LateIdx(w) \/ LateTrash(w)
                            \/ LateWrite(w) \/ LateHead(w)
       \/ w \in HeadSetters /\ LateRepoint(w)
    /\ late' = [late EXCEPT ![w] = "end"]
    /\ UNCHANGED <<writer, pc, local, faulted, adv, scene>>

-----------------------------------------------------------------------------
\* The list command of a reader: the ref files one after the other, no lock.
ReaderReads(rd, r) ==
    /\ adv[rd][r] = None /\ rd \in Actors
    /\ adv' = [adv EXCEPT ![rd][r] = refs[r]]
    /\ UNCHANGED <<remote, writer, pc, local, faulted, late, scene>>

SessionStep(s) ==
    \/ Scan(s) \/ Plan(s)
    \/ UploadPack(s) \/ NothingToUpload(s) \/ UploadIdx(s)
    \/ \E r \in Refs : DeleteCheck(s, r) \/ WriteRef(s, r)
    \/ DeleteTrash(s) \/ DeletesDone(s) \/ WritesDone(s)
    \/ EnsureHead(s)

Next ==
    \/ \E s \in Sessions : SessionStep(s)
    \/ \E w \in HeadSetters : SetHeadCheck(w) \/ SetHeadRepoint(w)
    \/ \E w \in Writers : Acquire(w) \/ Leave(w) \/ Die(w) \/ LateLands(w)
    \/ \E rd \in Readers, r \in Refs : ReaderReads(rd, r)

Spec == Init /\ [][Next]_vars

-----------------------------------------------------------------------------
\* No ref is published before the objects it needs: every ref on the remote
\* can be restored from the complete pairs on the remote (phase order of Push,
\* publishPack, publishIdx), after any failure and any death.
RefsClosed == ClosedIn(refs, pack, idx)

\* A reader that lists without the lock, while sessions write, is promised no
\* commit it cannot then fetch.
AdvertisedFetchable ==
    \A rd \in Readers, r \in Refs :
        adv[rd][r] # None => Anc[adv[rd][r]] \subseteq Stored

\* A branch moves to a commit that does not contain the one it held only when
\* the batch that moved it forces it (the ancestry rule of phase 2, applied to
\* refs scanned several remote calls earlier).  Like those below, this assumes
\* that the last call of a dead process dies with it.
FastForwardOnly ==
    [][~OrphanCalls => \A r \in Branches :
          (refs[r] # None /\ refs'[r] \notin {None, refs[r]}) =>
              \/ refs[r] \in Anc[refs'[r]]
              \/ \E s \in Sessions : writer = s /\ batch[s][r].force]_vars

\* What git is told is so on the remote until the session lets go of the lock:
\* a ref reported written holds its new value, one reported deleted (and not
\* written again) is gone.
StatusTruthful ==
    OrphanCalls \/ \A s \in Sessions : pc[s] \in {"head", "leave"} => \A r \in Refs :
        /\ r \in wrote[s] => refs[r] = New(s, r)
        /\ r \in deleted[s] /\ New(s, r) = None => refs[r] = None

\* HEAD names a branch of the remote: ensureHEAD, --set-head and the refusal to
\* delete HEAD's branch keep it so between them.
HeadNamesBranch == head # None => refs[head] # None

\* It does whatever happens, but for two causes: a session told to delete the
\* branch had a failure that hid that the deletion took effect; or its batch was
\* to write that branch again and this was refused or failed.
HeadDanglesOnlyForCause ==
    \/ HeadNamesBranch
    \/ OrphanCalls
    \/ \E s \in Sessions : /\ batch[s][head].del
                           /\ \/ LostReplies /\ s \in faulted
                              \/ New(s, head) # None /\ head \notin wrote[s]

\* What an earlier session left half done never blocks a later one: a session
\* whose own calls succeed publishes every ref it found valid, unless a file
\* it must not overwrite is damaged or another's late call takes the name.
NeverWedged ==
    \A s \in Sessions :
        /\ pc[s] = "leave" /\ s \notin faulted
        /\ \A p \in Packs : pack[p] # "damaged" /\ idx[p] # "damaged"
        /\ ~OrphanCalls
        => \A r \in Refs : ValidWrite(batch[s], seen[s], has[s], r) => r \in wrote[s]
=============================================================================
