--------------------------- MODULE PushSessionProofs ---------------------------
(***************************************************************************)
(* That no push session ever publishes a ref whose objects are not on the  *)
(* remote, proved for every set of sessions, refs and commits, with lost   *)
(* replies, deaths and orphaned calls.  The argument does not use the      *)
(* lock: what a session relies on, the complete pairs on the remote, only  *)
(* grows, whatever the other processes do.                                 *)
(*                                                                         *)
(* The second part does use it.  Who holds the lock is alone on the        *)
(* remote, so what a push reports is so, no branch goes back unforced,     *)
(* HEAD loses its branch only for a stated cause, and a retry succeeds.    *)
(***************************************************************************)
EXTENDS PushSession, TLAPS

\* What a session scanned can still be restored.
SeenStored(s) == \A r \in Refs : seen[s][r] # None => Anc[seen[s][r]] \subseteq Stored

\* What a session's batch writes can be restored, once the upload is done.
WritesStored(s) == \A r \in writes[s] : Anc[New(s, r)] \subseteq Stored

\* Half way through the upload, the pack is there.
PackThere(s) == pack[BatchPack(s)] = "good"

SessionInv(s) ==
    /\ SeenStored(s)
    /\ \A r \in writes[s] : New(s, r) # None
    /\ pc[s] \in {"delete", "trash", "write"} => WritesStored(s)
    /\ pc[s] = "idx" => PackThere(s)
    /\ late[s] = "write" => WritesStored(s)
    /\ late[s] # "end" => pc[s] = "end"
    /\ pc[s] = "trash" => cur[s] \in Refs

SetterInv(w) == pc[w] = "repoint" \/ late[w] = "repoint" => cur[w] \in Branches

PublishInv ==
    /\ RefsClosed
    /\ \A s \in Sessions : SessionInv(s)
    /\ \A w \in HeadSetters : SetterInv(w)

IInv == TypeOK /\ PublishInv

\* A pack or an index that is good stays good.
Grows == \A p \in Packs : /\ pack[p] = "good" => pack'[p] = "good"
                          /\ idx[p] = "good" => idx'[p] = "good"

\* A step that leaves what session s scanned and was asked to write alone.
SameBatch(s) == /\ seen'[s] = seen[s] /\ batch'[s] = batch[s]
                /\ has'[s] = has[s] /\ writes'[s] = writes[s]

-----------------------------------------------------------------------------
LEMMA StoredGrows ==
    ASSUME Grows
    PROVE  Stored \subseteq Stored'
BY DEF Grows, Stored, StoredIn

LEMMA StepGrows ==
    ASSUME TypeOK, [Next]_vars
    PROVE  Grows
<1>1. ASSUME NEW s \in Sessions, SessionStep(s)
      PROVE  Grows
  <2>1. CASE UploadPack(s)
    BY <2>1 DEF UploadPack, UploadTo, Grows, TypeOK
  <2>2. CASE UploadIdx(s)
    BY <2>2 DEF UploadIdx, UploadTo, Grows, TypeOK
  <2>3. CASE UNCHANGED <<pack, idx>>
    BY <2>3 DEF Grows
  <2> QED
    BY <1>1, <2>1, <2>2, <2>3 DEF SessionStep, Scan, Plan, NothingToUpload, DeleteCheck,
       WriteRef, DeleteTrash, DeletesDone, WritesDone, EnsureHead, remote
<1>2. ASSUME NEW w \in Writers, LateLands(w)
      PROVE  Grows
  <2>1. CASE LatePack(w)
    BY <2>1 DEF LatePack, Grows, TypeOK
  <2>2. CASE LateIdx(w)
    BY <2>2 DEF LateIdx, Grows, TypeOK
  <2>3. CASE UNCHANGED <<pack, idx>>
    BY <2>3 DEF Grows
  <2> QED
    BY <1>2, <2>1, <2>2, <2>3 DEF LateLands, LateTrash, LateWrite, LateHead, LateRepoint
<1>3. CASE UNCHANGED <<pack, idx>>
  BY <1>3 DEF Grows
<1> QED
  BY <1>1, <1>2, <1>3 DEF Next, SetHeadCheck, SetHeadRepoint, Acquire, Leave, Die,
     ReaderReads, vars, remote

\* Adding a ref to, or taking one from, what a session keeps is well typed.
LEMMA RefSets ==
    ASSUME NEW f \in [Sessions -> SUBSET Refs], NEW s \in Sessions, NEW r \in Refs
    PROVE  /\ [f EXCEPT ![s] = @ \ {r}] \in [Sessions -> SUBSET Refs]
           /\ [f EXCEPT ![s] = @ \cup {r}] \in [Sessions -> SUBSET Refs]
<1>1. f[s] \ {r} \in SUBSET Refs /\ f[s] \cup {r} \in SUBSET Refs
  OBVIOUS
<1> QED
  BY <1>1

-----------------------------------------------------------------------------
LEMMA TypeInit == Init => TypeOK /\ PublishInv
<1> SUFFICES ASSUME Init PROVE TypeOK /\ PublishInv
  OBVIOUS
<1> USE PushConstants
<1>0. scene \in Scenes
  BY DEF Init
<1>1. PICK st \in Starts : refs = st.refs /\ head = st.head /\ pack = st.pack /\ idx = st.idx
  BY DEF Init
<1>2. st \in Remote /\ ClosedIn(st.refs, st.pack, st.idx)
  BY <1>0 DEF PushConstants, Starts
<1>3. NoBatch \in [Refs -> Request] /\ NoRefs \in [Refs -> Commits \cup {None}]
  BY DEF NoBatch, NoRefs, Request
<1>4. TypeOK
  BY <1>1, <1>2, <1>3 DEF Init, TypeOK, Remote, Phases, CallPhases
<1>5. PublishInv
  BY <1>1, <1>2 DEF Init, PublishInv, RefsClosed, SessionInv, SetterInv, SeenStored, NoRefs,
     Writers
<1> QED
  BY <1>4, <1>5

LEMMA TypeStep ==
    ASSUME IInv, [Next]_vars
    PROVE  TypeOK'
<1> USE DEF TypeOK
<1> TypeOK
  BY DEF IInv
<1>1. ASSUME NEW s \in Sessions, Scan(s) PROVE TypeOK'
  <2>1. seen' \in [Sessions -> [Refs -> Commits \cup {None}]]
    BY <1>1 DEF Scan
  <2>2. pc' \in [Writers -> Phases] /\ faulted' \in SUBSET Sessions
    BY <1>1 DEF Scan, Goto, Fault, Phases
  <2> QED
    BY <1>1, <2>1, <2>2 DEF Scan, remote
<1>2. ASSUME NEW s \in Sessions, Plan(s) PROVE TypeOK'
  BY <1>2, PushConstants DEF PushConstants, Plan, Batches, remote, Goto, Fault, Phases, CallPhases, Writers
<1>3. ASSUME NEW s \in Sessions, UploadPack(s) PROVE TypeOK'
  <2>1. pack' \in [Packs -> FileState]
    BY <1>3 DEF UploadPack
  <2>2. writes' \in [Sessions -> SUBSET Refs]
    BY <1>3 DEF UploadPack, UploadTo, GiveUpWrites
  <2>3. Goto(s, "idx") \/ Goto(s, "delete")
    BY <1>3 DEF UploadPack, UploadTo, GiveUpWrites
  <2>4. pc' \in [Writers -> Phases]
    BY <2>3 DEF Goto, Phases, CallPhases
  <2>5. faulted' = faulted \/ Fault(s)
    BY <1>3 DEF UploadPack, UploadTo, GiveUpWrites
  <2>6. faulted' \in SUBSET Sessions
    BY <2>5 DEF Fault
  <2> QED
    BY <1>3, <2>1, <2>2, <2>4, <2>6 DEF UploadPack
<1>4. ASSUME NEW s \in Sessions, UploadIdx(s) PROVE TypeOK'
  <2>1. idx' \in [Packs -> FileState]
    BY <1>4 DEF UploadIdx
  <2>2. writes' \in [Sessions -> SUBSET Refs]
    BY <1>4 DEF UploadIdx, UploadTo, GiveUpWrites
  <2>3. Goto(s, "idx") \/ Goto(s, "delete")
    BY <1>4 DEF UploadIdx, UploadTo, GiveUpWrites
  <2>4. pc' \in [Writers -> Phases]
    BY <2>3 DEF Goto, Phases, CallPhases
  <2>5. faulted' = faulted \/ Fault(s)
    BY <1>4 DEF UploadIdx, UploadTo, GiveUpWrites
  <2>6. faulted' \in SUBSET Sessions
    BY <2>5 DEF Fault
  <2> QED
    BY <1>4, <2>1, <2>2, <2>4, <2>6 DEF UploadIdx
<1>5. ASSUME NEW s \in Sessions, NothingToUpload(s) PROVE TypeOK'
  BY <1>5 DEF NothingToUpload, remote, local, Goto, Phases, CallPhases, Writers
<1>6. ASSUME NEW s \in Sessions, NEW r \in Refs, DeleteCheck(s, r) PROVE TypeOK'
  <2>1. dels' \in [Sessions -> SUBSET Refs] /\ deleted' \in [Sessions -> SUBSET Refs]
    <3>1. [dels EXCEPT ![s] = @ \ {r}] \in [Sessions -> SUBSET Refs]
      BY RefSets
    <3>2. [deleted EXCEPT ![s] = @ \cup {r}] \in [Sessions -> SUBSET Refs]
      BY RefSets
    <3> QED
      BY <1>6, <3>1, <3>2 DEF DeleteCheck
  <2>2. cur' \in [Writers -> Refs \cup {None}]
    BY <1>6 DEF DeleteCheck
  <2>3. pc' \in [Writers -> Phases] /\ faulted' \in SUBSET Sessions
    BY <1>6 DEF DeleteCheck, Goto, Fault, Phases, CallPhases
  <2> QED
    BY <1>6, <2>1, <2>2, <2>3 DEF DeleteCheck, remote
<1>7. ASSUME NEW s \in Sessions, NEW r \in Refs, WriteRef(s, r) PROVE TypeOK'
  <2>1. New(s, r) \in Commits \cup {None}
    BY DEF New, Request
  <2>2. refs' \in [Refs -> Commits \cup {None}]
    BY <1>7, <2>1 DEF WriteRef, RefBecomes
  <2>3. writes' \in [Sessions -> SUBSET Refs] /\ wrote' \in [Sessions -> SUBSET Refs]
    <3>1. [writes EXCEPT ![s] = @ \ {r}] \in [Sessions -> SUBSET Refs]
      BY RefSets
    <3>2. [wrote EXCEPT ![s] = @ \cup {r}] \in [Sessions -> SUBSET Refs]
      BY RefSets
    <3> QED
      BY <1>7, <3>1, <3>2 DEF WriteRef
  <2>4. faulted' \in SUBSET Sessions
    BY <1>7 DEF WriteRef, Fault
  <2> QED
    BY <1>7, <2>2, <2>3, <2>4 DEF WriteRef
<1>8. ASSUME NEW s \in Sessions, DeleteTrash(s) PROVE TypeOK'
  <2>1. refs' \in [Refs -> Commits \cup {None}]
    BY <1>8 DEF DeleteTrash, RefBecomes
  <2>2. deleted' \in [Sessions -> SUBSET Refs]
    <3>1. cur[s] \in Refs
      BY <1>8 DEF DeleteTrash, IInv, PublishInv, SessionInv
    <3> QED
      BY <1>8, <3>1, RefSets DEF DeleteTrash
  <2>3. cur' \in [Writers -> Refs \cup {None}]
    BY <1>8 DEF DeleteTrash
  <2>4. pc' \in [Writers -> Phases] /\ faulted' \in SUBSET Sessions
    BY <1>8 DEF DeleteTrash, Goto, Fault, Phases
  <2> QED
    BY <1>8, <2>1, <2>2, <2>3, <2>4 DEF DeleteTrash
<1>9. ASSUME NEW s \in Sessions, DeletesDone(s) PROVE TypeOK'
  BY <1>9 DEF DeletesDone, remote, local, Goto, Phases, CallPhases, Writers
<1>10. ASSUME NEW s \in Sessions, WritesDone(s) PROVE TypeOK'
  BY <1>10 DEF WritesDone, remote, local, Goto, Phases, CallPhases, Writers
<1>11. ASSUME NEW s \in Sessions, EnsureHead(s) PROVE TypeOK'
  BY <1>11 DEF EnsureHead, CreateHead, Candidates, local, Goto, Fault, Phases, CallPhases,
     Writers
<1>12. ASSUME NEW w \in HeadSetters, SetHeadCheck(w) PROVE TypeOK'
  <2>1. cur' \in [Writers -> Refs \cup {None}]
    <3>1. \A b \in Branches : b \in Refs \cup {None}
      BY PushConstants DEF PushConstants
    <3> QED
      BY <1>12, <3>1 DEF SetHeadCheck
  <2>2. pc' \in [Writers -> Phases]
    BY <1>12 DEF SetHeadCheck, Goto, Phases, CallPhases
  <2> QED
    BY <1>12, <2>1, <2>2 DEF SetHeadCheck, remote
<1>13. ASSUME NEW w \in HeadSetters, SetHeadRepoint(w) PROVE TypeOK'
  BY <1>13 DEF SetHeadRepoint, IInv, PublishInv, SetterInv, local, Goto, Phases, CallPhases,
     Writers
<1>14. ASSUME NEW w \in Writers, Acquire(w) \/ Leave(w) \/ Die(w) PROVE TypeOK'
  BY <1>14 DEF Acquire, Leave, Die, remote, local, Goto, Phases, CallPhases
<1>15. ASSUME NEW w \in Writers, LateLands(w) PROVE TypeOK'
  <2>1. \A r \in Refs : w \in Sessions => New(w, r) \in Commits \cup {None}
    BY DEF New, Request
  <2>2. refs' \in [Refs -> Commits \cup {None}]
    <3>1. CASE w \in Sessions /\ LateTrash(w)
      BY <3>1 DEF LateTrash, RefBecomes
    <3>2. CASE w \in Sessions /\ LateWrite(w)
      BY <3>2, <2>1 DEF LateWrite, RefBecomes
    <3> QED
      BY <1>15, <3>1, <3>2 DEF LateLands, LatePack, LateIdx, LateHead, LateRepoint
  <2>3. head' \in Branches \cup {None}
    BY <1>15 DEF LateLands, LatePack, LateIdx, LateTrash, LateWrite, LateHead, LateRepoint,
       CreateHead, Candidates, IInv, PublishInv, SetterInv
  <2>4. pack' \in [Packs -> FileState] /\ idx' \in [Packs -> FileState]
    BY <1>15 DEF LateLands, LatePack, LateIdx, LateTrash, LateWrite, LateHead, LateRepoint,
       FileState
  <2> QED
    BY <1>15, <2>2, <2>3, <2>4 DEF LateLands, local
<1>16. ASSUME NEW rd \in Readers, NEW r \in Refs, ReaderReads(rd, r) PROVE TypeOK'
  BY <1>16 DEF ReaderReads, remote, local
<1>17. CASE UNCHANGED vars
  BY <1>17 DEF vars, remote, local
<1> QED
  BY <1>1, <1>2, <1>3, <1>4, <1>5, <1>6, <1>7, <1>8, <1>9, <1>10, <1>11, <1>12, <1>13,
     <1>14, <1>15, <1>16, <1>17 DEF Next, SessionStep

-----------------------------------------------------------------------------
\* What the batch writes is in the pack about to be sent or on the remote.
LEMMA PackCovers ==
    ASSUME NEW s \in Sessions, SeenStored(s), NEW r \in writes[s]
    PROVE  Anc[New(s, r)] \subseteq BatchPack(s) \cup Stored
<1>1. \A c \in Haves(s) : Anc[c] \subseteq Stored
  BY DEF Haves, SeenStored
<1> QED
  BY <1>1 DEF BatchPack, WritePack

LEMMA PackType ==
    ASSUME TypeOK, NEW s \in Sessions, \A r \in writes[s] : New(s, r) # None
    PROVE  BatchPack(s) \in Packs
<1>1. \A r \in writes[s] : New(s, r) \in Commits
  BY DEF TypeOK, New, Request
<1>2. \A c \in Commits : Anc[c] \subseteq Commits
  BY PushConstants DEF PushConstants
<1> QED
  BY <1>1, <1>2 DEF BatchPack, WritePack, Packs

LEMMA SamePack ==
    ASSUME NEW s \in Sessions, SameBatch(s)
    PROVE  BatchPack(s)' = BatchPack(s)
BY DEF BatchPack, WritePack, Haves, New, SameBatch

\* A ref moves only to what the remote stores; every other step lets it be.
LEMMA RefStep ==
    ASSUME IInv, [Next]_vars, NEW r \in Refs
    PROVE  \/ refs'[r] \in {refs[r], None}
           \/ Anc[refs'[r]] \subseteq Stored
<1> USE DEF IInv, PublishInv, SessionInv
<1>1. ASSUME NEW s \in Sessions, DeleteTrash(s) \/ LateTrash(s)
      PROVE  refs'[r] \in {refs[r], None}
  BY <1>1 DEF DeleteTrash, LateTrash, RefBecomes, TypeOK
<1>2. ASSUME NEW s \in Sessions, NEW q \in Refs, WriteRef(s, q)
      PROVE  refs'[r] = refs[r] \/ Anc[refs'[r]] \subseteq Stored
  BY <1>2 DEF WriteRef, RefBecomes, TypeOK, WritesStored
<1>3. ASSUME NEW s \in Sessions, LateWrite(s)
      PROVE  refs'[r] = refs[r] \/ Anc[refs'[r]] \subseteq Stored
  BY <1>3 DEF LateWrite, RefBecomes, TypeOK, WritesStored
<1>4. CASE UNCHANGED refs
  BY <1>4
<1> QED
  BY <1>1, <1>2, <1>3, <1>4 DEF Next, SessionStep, LateLands, Scan, Plan, UploadPack,
     NothingToUpload, UploadIdx, DeleteCheck, DeletesDone, WritesDone, EnsureHead,
     SetHeadCheck, SetHeadRepoint, Acquire, Leave, Die, LatePack, LateIdx, LateHead,
     LateRepoint, ReaderReads, vars, remote

LEMMA ClosedStep ==
    ASSUME IInv, [Next]_vars
    PROVE  RefsClosed'
<1>1. Stored \subseteq Stored'
  BY StepGrows, StoredGrows DEF IInv
<1>2. \A r \in Refs : refs[r] # None => Anc[refs[r]] \subseteq Stored
  BY DEF IInv, PublishInv, RefsClosed, ClosedIn, Stored
<1>3. \A r \in Refs : refs'[r] # None => Anc[refs'[r]] \subseteq Stored'
  BY <1>1, <1>2, RefStep
<1> QED
  BY <1>3 DEF RefsClosed, ClosedIn, Stored

-----------------------------------------------------------------------------
\* A step of another process, and a step of its own that does not change these
\* variables, keep the invariant of a session.
LEMMA FrameStep ==
    ASSUME IInv, Grows, NEW s \in Sessions, SameBatch(s),
           pc'[s] = pc[s], late'[s] = late[s], cur'[s] = cur[s]
    PROVE  SessionInv(s)'
<1>1. Stored \subseteq Stored'
  BY StoredGrows
<1>2. \A r \in Refs : New(s, r)' = New(s, r)
  BY DEF SameBatch, New
<1>3. SessionInv(s) /\ writes[s] \subseteq Refs
  BY DEF IInv, PublishInv, TypeOK
<1>4. SeenStored(s)'
  BY <1>1, <1>3 DEF SessionInv, SeenStored, SameBatch
<1>5. WritesStored(s) => WritesStored(s)'
  BY <1>1, <1>2, <1>3 DEF WritesStored, SameBatch
<1>6. pc[s] = "idx" => PackThere(s)'
  <2>1. ASSUME pc[s] = "idx" PROVE PackThere(s)'
    <3>1. BatchPack(s) \in Packs /\ PackThere(s)
      BY <1>3, <2>1, PackType DEF SessionInv, IInv
    <3> QED
      BY <3>1, SamePack DEF PackThere, Grows
  <2> QED
    BY <2>1
<1>7. \A r \in writes'[s] : New(s, r)' # None
  BY <1>2, <1>3 DEF SessionInv, SameBatch
<1> QED
  BY <1>3, <1>4, <1>5, <1>6, <1>7 DEF SessionInv

\* What another process does leaves a process's own variables alone.
LEMMA OtherSteps ==
    ASSUME TypeOK, NEW s \in Writers, NEW u \in Writers \ {s},
           \/ u \in Sessions /\ SessionStep(u)
           \/ u \in HeadSetters /\ (SetHeadCheck(u) \/ SetHeadRepoint(u))
           \/ Acquire(u) \/ Leave(u) \/ Die(u) \/ LateLands(u)
    PROVE  /\ s \in Sessions => SameBatch(s)
           /\ pc'[s] = pc[s] /\ late'[s] = late[s] /\ cur'[s] = cur[s]
<1> USE DEF SameBatch, local, remote, Goto
<1>1. CASE u \in Sessions /\ SessionStep(u)
  <2>1. CASE Scan(u) \/ Plan(u)
    BY <2>1 DEF Scan, Plan, TypeOK
  <2>2. CASE UploadPack(u) \/ UploadIdx(u) \/ NothingToUpload(u)
    BY <2>2 DEF UploadPack, UploadIdx, NothingToUpload, UploadTo, GiveUpWrites, TypeOK
  <2>3. CASE \E r \in Refs : DeleteCheck(u, r) \/ WriteRef(u, r)
    BY <2>3 DEF DeleteCheck, WriteRef, TypeOK
  <2>4. CASE DeleteTrash(u) \/ DeletesDone(u) \/ WritesDone(u) \/ EnsureHead(u)
    BY <2>4 DEF DeleteTrash, DeletesDone, WritesDone, EnsureHead, TypeOK
  <2> QED
    BY <1>1, <2>1, <2>2, <2>3, <2>4 DEF SessionStep
<1>2. CASE u \in HeadSetters /\ (SetHeadCheck(u) \/ SetHeadRepoint(u))
  BY <1>2 DEF SetHeadCheck, SetHeadRepoint, TypeOK
<1>3. CASE Acquire(u) \/ Leave(u) \/ Die(u) \/ LateLands(u)
  BY <1>3 DEF Acquire, Leave, Die, LateLands, TypeOK
<1> QED
  BY <1>1, <1>2, <1>3

\* Every step a session takes, or has taken for it after its death, keeps its
\* own invariant.
LEMMA OwnSteps ==
    ASSUME IInv, Grows, NEW s \in Sessions,
           SessionStep(s) \/ Acquire(s) \/ Leave(s) \/ Die(s) \/ LateLands(s)
    PROVE  SessionInv(s)'
<1> USE DEF TypeOK
<1> s \in Writers
  BY DEF Writers
<1> TypeOK /\ SessionInv(s)
  BY DEF IInv, PublishInv
<1>1. Stored \subseteq Stored'
  BY StoredGrows
<1>2. ASSUME seen'[s] = seen[s] PROVE SeenStored(s)'
  BY <1>1, <1>2 DEF SessionInv, SeenStored
<1>3. ASSUME writes'[s] \subseteq writes[s], batch'[s] = batch[s]
      PROVE  /\ \A r \in writes'[s] : New(s, r)' # None
             /\ WritesStored(s) => WritesStored(s)'
  BY <1>1, <1>3 DEF SessionInv, New, WritesStored
<1>4. ASSUME SameBatch(s), PackThere(s) PROVE PackThere(s)'
  <2>1. BatchPack(s) \in Packs
    BY PackType DEF SessionInv
  <2> QED
    BY <1>4, <2>1, SamePack DEF PackThere, Grows
<1>5. CASE Scan(s)
  <2>1. SeenStored(s)'
    <3>1. seen'[s] \in {refs, seen[s]}
      BY <1>5 DEF Scan
    <3>2. \A r \in Refs : refs[r] # None => Anc[refs[r]] \subseteq Stored
      BY DEF IInv, PublishInv, RefsClosed, ClosedIn, Stored
    <3> QED
      BY <1>1, <3>1, <3>2 DEF SeenStored, SessionInv
  <2> QED
    BY <1>3, <1>5, <2>1 DEF Scan, Goto, SessionInv
<1>6. CASE Plan(s)
  <2>1. \A r \in writes'[s] : New(s, r)' # None
    BY <1>6 DEF Plan, ValidWrite, New
  <2>2. seen'[s] = seen[s] /\ late' = late /\ pc[s] = "plan" /\ pc'[s] = "pack"
    BY <1>6 DEF Plan, Goto
  <2> QED
    BY <1>2, <2>1, <2>2 DEF SessionInv
<1>7. CASE UploadPack(s)
  <2>1. seen' = seen /\ batch' = batch /\ late' = late /\ late[s] = "end" /\ writes'[s] \subseteq writes[s]
    BY <1>7 DEF UploadPack, UploadTo, GiveUpWrites, SessionInv
  <2>2. CASE pc'[s] = "idx"
    <3>1. SameBatch(s)
      BY <1>7, <2>2 DEF UploadPack, UploadTo, GiveUpWrites, Goto, SameBatch
    <3>2. BatchPack(s) \in Packs
      BY PackType DEF SessionInv
    <3>3. pack'[BatchPack(s)] = "good"
      BY <1>7, <2>2, <3>2 DEF UploadPack, UploadTo, GiveUpWrites, Goto, ExistingOK
    <3> QED
      BY <1>2, <1>3, <2>1, <2>2, <3>1, <3>3, SamePack DEF SessionInv, PackThere
  <2>3. CASE pc'[s] = "delete" /\ writes'[s] = {}
    BY <1>2, <2>1, <2>3 DEF SessionInv, WritesStored
  <2> QED
    BY <1>7, <2>2, <2>3 DEF UploadPack, UploadTo, GiveUpWrites, Goto
<1>8. CASE NothingToUpload(s)
  <2>1. WritesStored(s)
    BY <1>8, PackCovers DEF NothingToUpload, WritesStored, SessionInv
  <2> QED
    BY <1>2, <1>3, <1>8, <2>1 DEF NothingToUpload, local, Goto, SessionInv
<1>9. CASE UploadIdx(s)
  <2>1. /\ seen' = seen /\ batch' = batch /\ late' = late /\ late[s] = "end"
        /\ writes'[s] \subseteq writes[s] /\ pc'[s] = "delete"
    BY <1>9 DEF UploadIdx, UploadTo, GiveUpWrites, Goto, SessionInv
  <2>2. CASE writes'[s] = {}
    BY <1>2, <2>1, <2>2 DEF SessionInv, WritesStored
  <2>3. CASE writes'[s] # {}
    <3>1. BatchPack(s) \in Packs
      BY PackType DEF SessionInv
    <3>2. pack[BatchPack(s)] = "good" /\ idx'[BatchPack(s)] = "good" /\ pack' = pack
      BY <1>9, <2>3, <3>1 DEF UploadIdx, UploadTo, GiveUpWrites, Goto, ExistingOK, SessionInv,
         PackThere
    <3>3. BatchPack(s) \subseteq Stored'
      BY <3>1, <3>2 DEF Stored, StoredIn
    <3>4. \A r \in writes[s] : Anc[New(s, r)] \subseteq Stored'
      BY <1>1, <3>3, PackCovers DEF SessionInv
    <3>5. WritesStored(s)'
      BY <2>1, <3>4 DEF WritesStored, New
    <3> QED
      BY <1>2, <1>3, <2>1, <3>5 DEF SessionInv
  <2> QED
    BY <2>2, <2>3
<1>10. CASE \E r \in Refs : DeleteCheck(s, r) \/ WriteRef(s, r)
  <2>1. /\ seen' = seen /\ batch' = batch /\ late' = late
        /\ writes'[s] \subseteq writes[s]
        /\ pc[s] \in {"delete", "write"} /\ pc'[s] \in {"delete", "trash", "write"}
        /\ pc'[s] = "trash" => cur'[s] \in Refs
    BY <1>10 DEF DeleteCheck, WriteRef, Goto
  <2> QED
    BY <1>2, <1>3, <2>1 DEF SessionInv
<1>11. CASE DeleteTrash(s) \/ DeletesDone(s) \/ WritesDone(s) \/ EnsureHead(s)
  <2>1. /\ seen' = seen /\ batch' = batch /\ late' = late /\ writes' = writes
        /\ pc[s] \in {"delete", "trash", "write", "head"}
        /\ pc'[s] \in {"delete", "write"} => pc[s] \in {"delete", "trash"}
        /\ pc'[s] \in {"delete", "write", "head", "leave"}
    BY <1>11 DEF DeleteTrash, DeletesDone, WritesDone, EnsureHead, Goto, local
  <2> QED
    BY <1>2, <1>3, <2>1 DEF SessionInv
<1>12. CASE Acquire(s) \/ Leave(s)
  <2>1. /\ seen' = seen /\ batch' = batch /\ late' = late /\ writes' = writes
        /\ pc[s] # "end" /\ pc'[s] \in {"scan", "end"}
    BY <1>12 DEF Acquire, Leave, Goto, local, Writers
  <2> QED
    BY <1>2, <1>3, <2>1 DEF SessionInv
<1>13. CASE Die(s)
  <2>1. /\ seen' = seen /\ batch' = batch /\ writes' = writes
        /\ pc'[s] = "end" /\ late'[s] \in {late[s], pc[s]} /\ pc[s] # "end"
    BY <1>13 DEF Die, Goto, local
  <2> QED
    BY <1>2, <1>3, <2>1 DEF SessionInv
<1>14. CASE LateLands(s)
  <2>1. /\ seen' = seen /\ batch' = batch /\ has' = has /\ writes' = writes
        /\ pc' = pc /\ late'[s] = "end" /\ cur' = cur
    BY <1>14 DEF LateLands, local
  <2> QED
    BY <1>2, <1>3, <1>4, <2>1 DEF SessionInv, SameBatch
<1> QED
  BY <1>5, <1>6, <1>7, <1>8, <1>9, <1>10, <1>11, <1>12, <1>13, <1>14 DEF SessionStep

-----------------------------------------------------------------------------
LEMMA InvStep ==
    ASSUME IInv, [Next]_vars
    PROVE  IInv'
<1>1. TypeOK' /\ Grows /\ RefsClosed'
  BY TypeStep, StepGrows, ClosedStep DEF IInv
<1>2. ASSUME NEW s \in Sessions PROVE SessionInv(s)'
  <2>1. CASE UNCHANGED local /\ pc' = pc /\ late' = late
    BY <1>1, <2>1, FrameStep DEF local, SameBatch
  <2>2. ASSUME NEW u \in Writers,
               \/ u \in Sessions /\ SessionStep(u)
               \/ u \in HeadSetters /\ (SetHeadCheck(u) \/ SetHeadRepoint(u))
               \/ Acquire(u) \/ Leave(u) \/ Die(u) \/ LateLands(u)
        PROVE  SessionInv(s)'
    <3>1. CASE u = s
      BY <1>1, <2>2, <3>1, OwnSteps, PushConstants DEF PushConstants
    <3>2. CASE u # s
      <4>1. SameBatch(s) /\ pc'[s] = pc[s] /\ late'[s] = late[s] /\ cur'[s] = cur[s]
        BY <2>2, <3>2, OtherSteps DEF IInv, Writers
      <4> QED
        BY <1>1, <4>1, FrameStep
    <3> QED
      BY <3>1, <3>2
  <2> QED
    BY <2>1, <2>2 DEF Next, Writers, ReaderReads, vars
<1>3. ASSUME NEW w \in HeadSetters PROVE SetterInv(w)'
  <2>1. TypeOK /\ SetterInv(w) /\ w \in Writers /\ w \notin Sessions
    BY PushConstants DEF IInv, PublishInv, Writers, PushConstants
  <2>2. CASE UNCHANGED <<pc, late, cur>>
    BY <2>1, <2>2 DEF SetterInv
  <2>3. ASSUME NEW u \in Writers \ {w},
               \/ u \in Sessions /\ SessionStep(u)
               \/ u \in HeadSetters /\ (SetHeadCheck(u) \/ SetHeadRepoint(u))
               \/ Acquire(u) \/ Leave(u) \/ Die(u) \/ LateLands(u)
        PROVE  SetterInv(w)'
    <3>1. pc'[w] = pc[w] /\ late'[w] = late[w] /\ cur'[w] = cur[w]
      BY <2>1, <2>3, OtherSteps
    <3> QED
      BY <2>1, <3>1 DEF SetterInv
  <2>4. CASE SetHeadCheck(w)
    BY <2>1, <2>4 DEF SetHeadCheck, Goto, SetterInv, TypeOK
  <2>5. CASE SetHeadRepoint(w)
    BY <2>1, <2>5 DEF SetHeadRepoint, Goto, SetterInv, TypeOK, local
  <2>6. CASE Acquire(w) \/ Leave(w) \/ LateLands(w)
    BY <2>1, <2>6 DEF Acquire, Leave, LateLands, Goto, SetterInv, TypeOK, local
  <2>7. CASE Die(w)
    BY <2>1, <2>7 DEF Die, Goto, SetterInv, TypeOK, local
  <2> QED
    BY <2>1, <2>2, <2>3, <2>4, <2>5, <2>6, <2>7 DEF Next, Writers, ReaderReads, vars, local
<1> QED
  BY <1>1, <1>2, <1>3 DEF IInv, PublishInv

LEMMA Invariant == Spec => []IInv
<1>1. Init => IInv
  BY TypeInit DEF IInv
<1>2. IInv /\ [Next]_vars => IInv'
  BY InvStep
<1> QED
  BY <1>1, <1>2, PTL DEF Spec

\* The state of every process and of the remote stays well formed.
THEOREM TypeCorrect == Spec => []TypeOK
<1>1. IInv => TypeOK
  BY DEF IInv
<1> QED
  BY <1>1, Invariant, PTL

\* Whatever fails, dies or lands late, every ref on the remote can be restored
\* from the complete pack and index pairs on the remote (Push's phase order,
\* publishPack, publishIdx).
THEOREM RefsClosedHolds == Spec => []RefsClosed
<1>1. IInv => RefsClosed
  BY DEF IInv, PublishInv
<1> QED
  BY <1>1, Invariant, PTL

\* What a reader is told at any moment, with no lock and one ref after the
\* other, it can fetch at every later moment (the list and fetch commands).
THEOREM AdvertisedFetchableHolds == Spec => []AdvertisedFetchable
<1>1. Init => AdvertisedFetchable
  BY DEF Init, AdvertisedFetchable, NoRefs
<1>2. ASSUME IInv, [Next]_vars, AdvertisedFetchable
      PROVE  AdvertisedFetchable'
  <2>1. Stored \subseteq Stored'
    BY <1>2, StepGrows, StoredGrows DEF IInv
  <2>2. \A rd \in Readers, r \in Refs : adv'[rd][r] \in {adv[rd][r], refs[r]}
    <3>1. CASE UNCHANGED adv
      BY <3>1
    <3>2. CASE \E rd \in Readers, r \in Refs : ReaderReads(rd, r)
      BY <1>2, <3>2 DEF ReaderReads, IInv, TypeOK
    <3> QED
      BY <1>2, <3>1, <3>2 DEF Next, SessionStep, Scan, Plan, UploadPack, NothingToUpload,
         UploadIdx, DeleteCheck, WriteRef, DeleteTrash, DeletesDone, WritesDone, EnsureHead,
         SetHeadCheck, SetHeadRepoint, Acquire, Leave, Die, LateLands, vars
  <2>3. \A r \in Refs : refs[r] # None => Anc[refs[r]] \subseteq Stored
    BY <1>2 DEF IInv, PublishInv, RefsClosed, ClosedIn, Stored
  <2> QED
    BY <1>2, <2>1, <2>2, <2>3 DEF AdvertisedFetchable
<1> QED
  BY <1>1, <1>2, Invariant, PTL DEF Spec
-----------------------------------------------------------------------------
(***************************************************************************)
(* The rest is what the lock is for.  While no call outlives its process,  *)
(* every process between AcquireLock and Unlock holds the lock, so nothing *)
(* but its own calls changes the remote, and what it scanned stays true of *)
(* every ref it has not yet dealt with.                                    *)
(***************************************************************************)
Idle == {"start", "end"}
Preparing == {"start", "scan", "plan"}
Uploading == {"pack", "idx"}
Deleting == {"delete", "trash"}

Alone ==
    /\ \A w \in Writers : late[w] = "end"
    /\ \A w \in Writers : pc[w] \notin Idle => writer = w

\* What a session has not come to yet, it has not done.
NotYet(s) ==
    /\ pc[s] \in Preparing => batch[s] = NoBatch /\ s \notin faulted
    /\ pc[s] \in Preparing \cup Uploading => deleted[s] = {}
    /\ pc[s] \in Preparing \cup Uploading \cup Deleting => wrote[s] = {}

\* It does no more than its batch asks, and trashes no branch HEAD names.
Asked(s) ==
    /\ \A r \in dels[s] \cup deleted[s] : batch[s][r].del
    /\ \A r \in wrote[s] : New(s, r) # None
    /\ \A r \in writes[s] : ValidWrite(batch[s], seen[s], has[s], r)
    /\ pc[s] = "trash" => batch[s][cur[s]].del /\ head # cur[s]

\* What it knows of a ref it has yet to write, or yet to delete.
Ahead(s, r) ==
    /\ refs[r] \in {seen[s][r], None}
    /\ r \in deleted[s] => refs[r] = None

\* What it knows of any ref.  A ref it scanned can only be gone, unless it says
\* so, because a call that was reported failed took effect.
Known(s, r) ==
    /\ r \in wrote[s] => refs[r] = New(s, r)
    /\ r \in deleted[s] /\ New(s, r) = None => refs[r] = None
    /\ refs[r] = None /\ seen[s][r] # None /\ r \notin deleted[s]
          => LostReplies /\ s \in faulted /\ batch[s][r].del

Tracked(s) ==
    /\ pc[s] \in {"plan"} \cup Uploading \cup Deleting => \A r \in Refs : Ahead(s, r)
    /\ pc[s] = "write" => \A r \in writes[s] : Ahead(s, r)
    /\ pc[s] \in {"plan", "write", "head"} \cup Uploading \cup Deleting
          => \A r \in Refs : Known(s, r)

Reported(s) ==
    pc[s] \in {"head", "leave"} => \A r \in Refs :
        /\ r \in wrote[s] => refs[r] = New(s, r)
        /\ r \in deleted[s] /\ New(s, r) = None => refs[r] = None

Undamaged == \A p \in Packs : pack[p] # "damaged" /\ idx[p] # "damaged"

\* No write that was found valid has been dropped, unless for a reason.
NoneDropped(s) ==
    s \notin faulted /\ Undamaged => \A r \in Refs :
        ValidWrite(batch[s], seen[s], has[s], r) =>
            /\ pc[s] \in {"write"} \cup Uploading \cup Deleting => r \in writes[s] \cup wrote[s]
            /\ pc[s] \in {"head", "leave"} => r \in wrote[s]

HolderInv(s) == NotYet(s) /\ Asked(s) /\ Tracked(s) /\ Reported(s) /\ NoneDropped(s)

\* A branch --set-head found is still there when HEAD is written.
Found(w) == pc[w] = "repoint" => refs[cur[w]] # None

LockInv ==
    \/ OrphanCalls
    \/ /\ Alone
       /\ \A s \in Sessions : HolderInv(s)
       /\ \A w \in HeadSetters : Found(w)
       /\ HeadDanglesOnlyForCause

\* The variables of a session that SameBatch leaves out.
SameWork(s) == /\ dels'[s] = dels[s] /\ deleted'[s] = deleted[s] /\ wrote'[s] = wrote[s]
               /\ (s \in faulted)' <=> s \in faulted

\* The steps of a writer: its own, and those the system takes for it.
StepOf(u) ==
    \/ u \in Sessions /\ SessionStep(u)
    \/ u \in HeadSetters /\ (SetHeadCheck(u) \/ SetHeadRepoint(u))
    \/ Acquire(u) \/ Leave(u) \/ Die(u) \/ LateLands(u)

\* A step of no writer: a reader reads, or nothing happens.
NoWriter == UNCHANGED <<remote, writer, pc, local, faulted, late, scene>>

LEMMA WhoMoves ==
    ASSUME [Next]_vars
    PROVE  NoWriter \/ \E u \in Writers : StepOf(u)
BY DEF Next, StepOf, NoWriter, ReaderReads, vars, Writers

LEMMA SceneStays ==
    ASSUME [Next]_vars
    PROVE  scene' = scene
BY DEF Next, SessionStep, Scan, Plan, UploadPack, NothingToUpload, UploadIdx, DeleteCheck,
   WriteRef, DeleteTrash, DeletesDone, WritesDone, EnsureHead, SetHeadCheck, SetHeadRepoint,
   Acquire, Leave, Die, LateLands, ReaderReads, vars

\* While no call outlives its process nothing lands late.
LEMMA NothingLate ==
    ASSUME Alone, NEW u \in Writers
    PROVE  ~LateLands(u)
BY DEF Alone, LateLands, LatePack, LateIdx, LateTrash, LateWrite, LateHead, LateRepoint

\* Mutual exclusion at work: while a process is between AcquireLock and Unlock
\* every step of a writer is its own.
LEMMA OnlyHolder ==
    ASSUME Alone, NEW s \in Writers, pc[s] \notin Idle, NEW u \in Writers, StepOf(u)
    PROVE  u = s
<1>1. writer = s /\ writer # None
  BY PushConstants DEF PushConstants, Alone, Writers
<1>2. CASE pc[u] \notin Idle
  BY <1>1, <1>2 DEF Alone
<1>3. CASE Acquire(u)
  BY <1>1, <1>3 DEF Acquire
<1> QED
  BY <1>2, <1>3, NothingLate DEF StepOf, SessionStep, Scan, Plan, UploadPack, NothingToUpload,
     UploadIdx, DeleteCheck, WriteRef, DeleteTrash, DeletesDone, WritesDone, EnsureHead,
     SetHeadCheck, SetHeadRepoint, Leave, Die, Idle

LEMMA AloneStep ==
    ASSUME TypeOK, Alone, ~OrphanCalls, NEW u \in Writers, StepOf(u)
    PROVE  Alone'
<1>1. late' = late
  BY NothingLate DEF StepOf, SessionStep, Scan, Plan, UploadPack, NothingToUpload,
     UploadIdx, DeleteCheck, WriteRef, DeleteTrash, DeletesDone, WritesDone, EnsureHead,
     SetHeadCheck, SetHeadRepoint, Acquire, Leave, Die
<1>2. \A w \in Writers \ {u} : pc'[w] = pc[w]
  BY OtherSteps DEF StepOf
<1>3. \A w \in Writers \ {u} : pc[w] \in Idle
  BY OnlyHolder
<1>4. CASE Leave(u) \/ Die(u)
  <2>1. pc'[u] = "end"
    BY <1>4 DEF Leave, Die, Goto, TypeOK
  <2> QED
    BY <1>1, <1>2, <1>3, <2>1 DEF Alone, Idle
<1>5. CASE Acquire(u)
  BY <1>1, <1>2, <1>3, <1>5 DEF Acquire, Alone
<1>6. CASE writer' = writer /\ pc[u] \notin Idle
  BY <1>1, <1>2, <1>3, <1>6 DEF Alone
<1> QED
  BY <1>4, <1>5, <1>6, NothingLate DEF StepOf, SessionStep, Scan, Plan, UploadPack,
     NothingToUpload, UploadIdx, DeleteCheck, WriteRef, DeleteTrash, DeletesDone, WritesDone,
     EnsureHead, SetHeadCheck, SetHeadRepoint, Idle, remote

\* What another process does leaves what a session did and has to do alone.
LEMMA OthersKeepWork ==
    ASSUME TypeOK, NEW s \in Sessions, NEW u \in Writers \ {s}, StepOf(u)
    PROVE  SameWork(s)
<1>1. CASE u \in Sessions /\ SessionStep(u)
  <2>1. CASE Scan(u) \/ Plan(u)
    BY <2>1 DEF Scan, Plan, TypeOK, SameWork, Fault
  <2>2. CASE UploadPack(u) \/ UploadIdx(u) \/ NothingToUpload(u)
    BY <2>2 DEF UploadPack, UploadIdx, NothingToUpload, UploadTo, TypeOK, SameWork, Fault, local
  <2>3. ASSUME NEW r \in Refs, DeleteCheck(u, r)
        PROVE  SameWork(s)
    BY <2>3 DEF DeleteCheck, TypeOK, SameWork, Fault
  <2>4. ASSUME NEW r \in Refs, WriteRef(u, r)
        PROVE  SameWork(s)
    BY <2>4 DEF WriteRef, TypeOK, SameWork, Fault
  <2>5. CASE DeleteTrash(u)
    BY <2>5 DEF DeleteTrash, TypeOK, SameWork, Fault
  <2>6. CASE DeletesDone(u) \/ WritesDone(u) \/ EnsureHead(u)
    BY <2>6 DEF DeletesDone, WritesDone, EnsureHead, TypeOK, SameWork, Fault, local
  <2> QED
    BY <1>1, <2>1, <2>2, <2>3, <2>4, <2>5, <2>6 DEF SessionStep
<1>2. CASE UNCHANGED <<dels, deleted, wrote, faulted>>
  BY <1>2 DEF SameWork
<1> QED
  BY <1>1, <1>2 DEF StepOf, SetHeadCheck, SetHeadRepoint, Acquire, Leave, Die, LateLands, local

\* A session that is not under way keeps its part of the invariant.
LEMMA IdleKeeps ==
    ASSUME NEW s \in Sessions, HolderInv(s), pc[s] \in Idle, pc'[s] = pc[s],
           SameBatch(s), SameWork(s)
    PROVE  HolderInv(s)'
<1> USE DEF SameBatch, SameWork, Idle, Preparing, Uploading, Deleting
<1>1. NotYet(s)'
  BY DEF HolderInv, NotYet
<1>2. Asked(s)'
  BY DEF HolderInv, Asked, New
<1>3. Tracked(s)' /\ Reported(s)' /\ NoneDropped(s)'
  BY DEF Tracked, Reported, NoneDropped
<1> QED
  BY <1>1, <1>2, <1>3 DEF HolderInv

-----------------------------------------------------------------------------
\* Each part of the invariant is kept by the holder's own steps.
LEMMA NotYetStep ==
    ASSUME TypeOK, NEW s \in Sessions, NotYet(s),
           SessionStep(s) \/ Acquire(s) \/ Leave(s) \/ Die(s)
    PROVE  NotYet(s)'
<1> USE DEF TypeOK, NotYet, Preparing, Uploading, Deleting, Goto
<1> s \in Writers
  BY DEF Writers
<1>1. CASE Scan(s)
  BY <1>1 DEF Scan
<1>2. CASE Plan(s)
  BY <1>2 DEF Plan
<1>3. CASE UploadPack(s) \/ UploadIdx(s) \/ NothingToUpload(s)
  <2>1. /\ pc[s] \in {"pack", "idx"} /\ pc'[s] \in {"idx", "delete"}
        /\ deleted' = deleted /\ wrote' = wrote
    BY <1>3 DEF UploadPack, UploadIdx, NothingToUpload, UploadTo, GiveUpWrites, local
  <2> QED
    BY <2>1
<1>4. CASE \E r \in Refs : DeleteCheck(s, r)
  BY <1>4 DEF DeleteCheck
<1>5. CASE \E r \in Refs : WriteRef(s, r)
  BY <1>5 DEF WriteRef
<1>6. CASE DeleteTrash(s)
  BY <1>6 DEF DeleteTrash
<1>7. CASE DeletesDone(s) \/ WritesDone(s) \/ EnsureHead(s)
  BY <1>7 DEF DeletesDone, WritesDone, EnsureHead, local
<1>8. CASE Acquire(s) \/ Leave(s) \/ Die(s)
  BY <1>8 DEF Acquire, Leave, Die, local
<1> QED
  BY <1>1, <1>2, <1>3, <1>4, <1>5, <1>6, <1>7, <1>8 DEF SessionStep

LEMMA AskedStep ==
    ASSUME IInv, NEW s \in Sessions, NotYet(s), Asked(s),
           SessionStep(s) \/ Acquire(s) \/ Leave(s) \/ Die(s)
    PROVE  Asked(s)'
<1> USE DEF TypeOK, Asked, Goto, New
<1> s \in Writers /\ TypeOK
  BY DEF Writers, IInv
<1>1. CASE Scan(s)
  <2>1. batch[s] = NoBatch
    BY <1>1 DEF Scan, NotYet, Preparing
  <2>2. writes[s] = {}
    BY <2>1 DEF NoBatch, ValidWrite
  <2> QED
    BY <1>1, <2>2 DEF Scan
<1>2. CASE Plan(s)
  <2>1. deleted[s] = {} /\ wrote[s] = {}
    BY <1>2 DEF Plan, NotYet, Preparing
  <2>2. \A r \in dels'[s] : batch'[s][r].del
    BY <1>2 DEF Plan, ValidDelete
  <2>3. \A r \in writes'[s] : ValidWrite(batch'[s], seen[s], has'[s], r)
    BY <1>2 DEF Plan
  <2> QED
    BY <1>2, <2>1, <2>2, <2>3 DEF Plan
<1>3. CASE UploadPack(s) \/ UploadIdx(s) \/ NothingToUpload(s)
  <2>1. /\ pc'[s] \in {"idx", "delete"} /\ writes'[s] \subseteq writes[s]
        /\ dels' = dels /\ deleted' = deleted /\ wrote' = wrote
        /\ batch' = batch /\ seen' = seen /\ has' = has
    BY <1>3 DEF UploadPack, UploadIdx, NothingToUpload, UploadTo, GiveUpWrites, local
  <2> QED
    BY <2>1
<1>4. ASSUME NEW r \in Refs, DeleteCheck(s, r)
      PROVE  Asked(s)'
  <2>1. /\ dels'[s] = dels[s] \ {r} /\ deleted'[s] \subseteq deleted[s] \cup {r}
        /\ batch' = batch /\ wrote' = wrote /\ writes' = writes /\ seen' = seen /\ has' = has
    BY <1>4 DEF DeleteCheck
  <2>2. r \in dels[s] /\ batch[s][r].del
    BY <1>4 DEF DeleteCheck
  <2>3. pc'[s] = "trash" => cur'[s] = r /\ head' = head /\ head # r
    <3>1. head \in Branches \cup {None} /\ None \notin Refs
      BY PushConstants DEF PushConstants
    <3> QED
      BY <1>4, <3>1 DEF DeleteCheck, HeadNames, remote
  <2> QED
    BY <2>1, <2>2, <2>3
<1>5. ASSUME NEW r \in Refs, WriteRef(s, r)
      PROVE  Asked(s)'
  <2>1. /\ writes'[s] = writes[s] \ {r} /\ wrote'[s] \subseteq wrote[s] \cup {r}
        /\ batch' = batch /\ dels' = dels /\ deleted' = deleted /\ seen' = seen /\ has' = has
        /\ pc'[s] = "write"
    BY <1>5 DEF WriteRef
  <2>2. batch[s][r].new # None
    BY <1>5 DEF WriteRef, ValidWrite
  <2> QED
    BY <2>1, <2>2
<1>6. CASE DeleteTrash(s)
  <2>1. /\ deleted'[s] \subseteq deleted[s] \cup {cur[s]} /\ pc'[s] = "delete"
        /\ batch' = batch /\ dels' = dels /\ wrote' = wrote /\ writes' = writes
        /\ seen' = seen /\ has' = has
    BY <1>6 DEF DeleteTrash
  <2>2. batch[s][cur[s]].del
    BY <1>6 DEF DeleteTrash
  <2> QED
    BY <2>1, <2>2
<1>7. CASE DeletesDone(s) \/ WritesDone(s) \/ EnsureHead(s)
  BY <1>7 DEF DeletesDone, WritesDone, EnsureHead, local
<1>8. CASE Acquire(s) \/ Leave(s) \/ Die(s)
  BY <1>8 DEF Acquire, Leave, Die, local
<1> QED
  BY <1>1, <1>2, <1>3, <1>4, <1>5, <1>6, <1>7, <1>8 DEF SessionStep

\* What a step that leaves the refs and what a session knows of them alone keeps.
LEMMA KnowledgeKept ==
    ASSUME NEW s \in Sessions, UNCHANGED <<refs, seen, batch, deleted, wrote, scene>>,
           faulted \subseteq faulted'
    PROVE  \A r \in Refs : /\ Ahead(s, r) => Ahead(s, r)'
                           /\ Known(s, r) => Known(s, r)'
BY DEF Ahead, Known, New, LostReplies

\* A write puts the name where the session says, and no other.
LEMMA WriteMoves ==
    ASSUME IInv, NEW s \in Sessions, NotYet(s), Asked(s), Tracked(s), NEW r \in Refs,
           WriteRef(s, r)
    PROVE  /\ \A q \in Refs : Known(s, q)'
           /\ \A q \in writes'[s] : Ahead(s, q)'
<1> USE DEF TypeOK, Goto, New
<1> TypeOK
  BY DEF IInv
<1>1. /\ r \in writes[s] /\ writes'[s] = writes[s] \ {r}
      /\ batch[s][r].new # None
      /\ seen' = seen /\ batch' = batch /\ deleted' = deleted /\ scene' = scene
      /\ faulted \subseteq faulted' /\ wrote[s] \subseteq wrote'[s]
  BY DEF WriteRef, Asked, ValidWrite, Fault
<1>2. \A q \in Refs \ {r} : refs'[q] = refs[q] /\ (q \in wrote'[s] => q \in wrote[s])
  BY DEF WriteRef, RefBecomes
<1>3. \/ refs'[r] = batch[s][r].new
      \/ refs'[r] = refs[r] /\ wrote'[s] = wrote[s]
  BY DEF WriteRef, RefBecomes
<1>4. r \in wrote'[s] => refs'[r] = batch[s][r].new \/ r \in wrote[s]
  BY <1>3
<1>5. \A q \in Refs : Known(s, q)
  BY DEF WriteRef, Tracked
<1>6. \A q \in Refs \ {r} : Known(s, q)'
  BY <1>1, <1>2, <1>5 DEF Known, LostReplies
<1>7. Known(s, r)'
  BY <1>1, <1>3, <1>5 DEF Known, LostReplies
<1>8. \A q \in writes[s] : Ahead(s, q)
  BY DEF WriteRef, Tracked
<1>9. \A q \in writes'[s] : Ahead(s, q)'
  BY <1>1, <1>2, <1>8 DEF Ahead
<1> QED
  BY <1>6, <1>7, <1>9

LEMMA TrackedStep ==
    ASSUME IInv, NEW s \in Sessions, NotYet(s), Asked(s), Tracked(s),
           SessionStep(s) \/ Acquire(s) \/ Leave(s) \/ Die(s)
    PROVE  Tracked(s)'
<1> USE DEF TypeOK, Goto, New, Preparing, Uploading, Deleting
<1> s \in Writers /\ TypeOK
  BY DEF Writers, IInv
<1>1. CASE Scan(s)
  <2>1. deleted'[s] = {} /\ wrote'[s] = {}
    BY <1>1 DEF Scan, NotYet
  <2>2. CASE pc'[s] = "plan" /\ seen'[s] = refs /\ refs' = refs
    BY <2>1, <2>2 DEF Tracked, Ahead, Known
  <2>3. CASE pc'[s] = "leave"
    BY <2>3 DEF Tracked
  <2> QED
    BY <1>1, <2>2, <2>3 DEF Scan, remote
<1>2. CASE Plan(s)
  <2>1. deleted'[s] = {} /\ wrote'[s] = {} /\ deleted[s] = {} /\ batch[s] = NoBatch
    BY <1>2 DEF Plan, NotYet
  <2>2. \A r \in Refs : refs[r] = seen[s][r]
    BY <1>2, <2>1 DEF Plan, Tracked, Ahead, Known, NoBatch
  <2>3. pc'[s] = "pack" /\ refs' = refs /\ seen' = seen
    BY <1>2 DEF Plan, remote
  <2> QED
    BY <2>1, <2>2, <2>3 DEF Tracked, Ahead, Known
<1>3. CASE UploadPack(s) \/ UploadIdx(s) \/ NothingToUpload(s)
  <2>1. /\ UNCHANGED <<refs, seen, batch, deleted, wrote, scene>> /\ faulted \subseteq faulted'
        /\ pc[s] \in {"pack", "idx"} /\ pc'[s] \in {"idx", "delete"}
    BY <1>3 DEF UploadPack, UploadIdx, NothingToUpload, UploadTo, GiveUpWrites, local, remote, Fault
  <2> QED
    BY <2>1, KnowledgeKept DEF Tracked
<1>4. ASSUME NEW r \in Refs, DeleteCheck(s, r)
      PROVE  Tracked(s)'
  <2>1. /\ UNCHANGED <<refs, seen, batch, wrote, scene>> /\ faulted \subseteq faulted'
        /\ pc[s] = "delete" /\ pc'[s] \in {"delete", "trash"}
    BY <1>4 DEF DeleteCheck, remote, Fault
  <2>2. CASE UNCHANGED deleted
    BY <2>1, <2>2, KnowledgeKept DEF Tracked
  <2>3. CASE seen[s][r] = None /\ deleted'[s] = deleted[s] \cup {r}
    <3>1. refs[r] = None
      BY <2>1, <2>3 DEF Tracked, Ahead
    <3>2. \A q \in Refs : Ahead(s, q) /\ Known(s, q)
      BY <2>1 DEF Tracked
    <3>3. \A q \in Refs : Ahead(s, q)'
      BY <2>1, <2>3, <3>1, <3>2 DEF Ahead
    <3>4. \A q \in Refs : Known(s, q)'
      BY <2>1, <2>3, <3>1, <3>2 DEF Known, LostReplies
    <3> QED
      BY <2>1, <3>3, <3>4 DEF Tracked
  <2> QED
    BY <1>4, <2>2, <2>3 DEF DeleteCheck
<1>5. ASSUME NEW r \in Refs, WriteRef(s, r)
      PROVE  Tracked(s)'
  <2>1. pc'[s] = "write"
    BY <1>5 DEF WriteRef
  <2> QED
    BY <1>5, <2>1, WriteMoves DEF Tracked
<1>6. CASE DeleteTrash(s)
  <2>0. PICK q \in Refs : q = cur[s]
    BY <1>6 DEF DeleteTrash, IInv, PublishInv, SessionInv
  <2>1. /\ UNCHANGED <<seen, batch, wrote, scene>> /\ faulted \subseteq faulted'
        /\ wrote[s] = {} /\ pc'[s] = "delete" /\ batch[s][q].del
        /\ \A r \in Refs : Ahead(s, r) /\ Known(s, r)
    BY <1>6, <2>0 DEF DeleteTrash, Fault, NotYet, Asked, Tracked, IInv, PublishInv, SessionInv
  <2>2. /\ \A r \in Refs \ {q} : refs'[r] = refs[r] /\ (r \in deleted'[s] <=> r \in deleted[s])
        /\ \/ refs'[q] = None /\ (q \in deleted'[s] \/ (LostReplies /\ s \in faulted'))
           \/ refs'[q] = refs[q] /\ deleted' = deleted
    BY <1>6, <2>0, <2>1 DEF DeleteTrash, RefBecomes, Fault
  <2>3. \A r \in Refs \ {q} : Ahead(s, r)' /\ Known(s, r)'
    BY <2>1, <2>2 DEF Ahead, Known, LostReplies
  <2>4. Ahead(s, q)' /\ Known(s, q)'
    BY <2>1, <2>2 DEF Ahead, Known, LostReplies
  <2>5. \A r \in Refs : Ahead(s, r)' /\ Known(s, r)'
    BY <2>3, <2>4
  <2> QED
    BY <2>1, <2>5 DEF Tracked
<1>7. CASE DeletesDone(s) \/ WritesDone(s) \/ EnsureHead(s)
  <2>1. /\ UNCHANGED <<refs, seen, batch, deleted, wrote, writes, scene>>
        /\ faulted \subseteq faulted'
        /\ \/ pc[s] = "delete" /\ pc'[s] = "write"
           \/ pc[s] = "write" /\ pc'[s] = "head"
           \/ pc'[s] = "leave"
    BY <1>7 DEF DeletesDone, WritesDone, EnsureHead, local, remote, Fault
  <2> QED
    BY <2>1, KnowledgeKept DEF Tracked
<1>8. CASE Acquire(s) \/ Leave(s) \/ Die(s)
  BY <1>8 DEF Acquire, Leave, Die, Tracked
<1> QED
  BY <1>1, <1>2, <1>3, <1>4, <1>5, <1>6, <1>7, <1>8 DEF SessionStep

LEMMA ReportedStep ==
    ASSUME TypeOK, NEW s \in Sessions, NotYet(s), Tracked(s), Reported(s),
           SessionStep(s) \/ Acquire(s) \/ Leave(s) \/ Die(s)
    PROVE  Reported(s)'
<1> USE DEF TypeOK, Goto, New
<1> s \in Writers
  BY DEF Writers
<1>1. CASE Scan(s)
  <2>1. deleted'[s] = {} /\ wrote'[s] = {}
    BY <1>1 DEF Scan, NotYet, Preparing
  <2> QED
    BY <2>1 DEF Reported
<1>2. CASE WritesDone(s)
  BY <1>2 DEF WritesDone, Reported, Tracked, Known, remote, local
<1>3. CASE EnsureHead(s)
  BY <1>3 DEF EnsureHead, Reported, local
<1>4. CASE pc'[s] \notin {"head", "leave"}
  BY <1>4 DEF Reported
<1> QED
  BY <1>1, <1>2, <1>3, <1>4 DEF SessionStep, Plan, UploadPack, UploadIdx, NothingToUpload,
     UploadTo, GiveUpWrites, DeleteCheck, WriteRef, DeleteTrash, DeletesDone, Acquire, Leave, Die

\* An upload that is given up without a failure met a damaged file.
LEMMA GivenUp ==
    ASSUME IInv, NEW s \in Sessions, s \notin faulted', Undamaged,
           UploadPack(s) \/ UploadIdx(s)
    PROVE  writes' = writes
<1> USE DEF TypeOK, ExistingOK, Packs
<1> TypeOK /\ s \in Writers
  BY DEF IInv, Writers
<1>1. BatchPack(s) \in Packs
  BY PackType DEF IInv, PublishInv, SessionInv
<1>2. pack[BatchPack(s)] \in {"absent", "good"} /\ idx[BatchPack(s)] \in {"absent", "good"}
  BY <1>1 DEF Undamaged, FileState
<1> QED
  BY <1>2 DEF UploadPack, UploadIdx, UploadTo, Fault

LEMMA DamageStays ==
    ASSUME IInv, NEW s \in Sessions,
           SessionStep(s) \/ Acquire(s) \/ Leave(s) \/ Die(s), Undamaged'
    PROVE  Undamaged
<1> TypeOK
  BY DEF IInv
<1>1. CASE UploadPack(s)
  BY <1>1 DEF UploadPack, UploadTo, Undamaged, TypeOK, Packs
<1>2. CASE UploadIdx(s)
  BY <1>2 DEF UploadIdx, UploadTo, Undamaged, TypeOK, Packs
<1>3. CASE UNCHANGED <<pack, idx>>
  BY <1>3 DEF Undamaged
<1> QED
  BY <1>1, <1>2, <1>3 DEF SessionStep, Scan, Plan, NothingToUpload, DeleteCheck,
     WriteRef, DeleteTrash, DeletesDone, WritesDone, EnsureHead, Acquire, Leave, Die, remote

LEMMA NoneDroppedStep ==
    ASSUME IInv, NEW s \in Sessions, Asked(s), Tracked(s), NoneDropped(s),
           SessionStep(s) \/ Acquire(s) \/ Leave(s) \/ Die(s)
    PROVE  NoneDropped(s)'
<1> SUFFICES ASSUME s \notin faulted', Undamaged', NEW r \in Refs,
                    ValidWrite(batch'[s], seen'[s], has'[s], r)
             PROVE  /\ pc'[s] \in {"write"} \cup Uploading \cup Deleting
                          => r \in writes'[s] \cup wrote'[s]
                    /\ pc'[s] \in {"head", "leave"} => r \in wrote'[s]
  BY DEF NoneDropped, ValidWrite
<1> USE DEF TypeOK, Goto, Uploading, Deleting
<1>0. Undamaged /\ s \in Writers /\ TypeOK /\ faulted \subseteq Sessions
  BY DamageStays DEF Writers, IInv
<1>1. CASE Scan(s)
  BY <1>0, <1>1 DEF Scan, Fault
<1>2. CASE Plan(s)
  BY <1>0, <1>2 DEF Plan
<1>3. CASE UploadPack(s) \/ UploadIdx(s) \/ NothingToUpload(s)
  <2>1. writes' = writes
    BY <1>0, <1>3, GivenUp DEF NothingToUpload, local
  <2>2. /\ pc[s] \in {"pack", "idx"} /\ pc'[s] \in {"idx", "delete"}
        /\ UNCHANGED <<wrote, batch, seen, has>> /\ faulted \subseteq faulted'
    BY <1>0, <1>3 DEF UploadPack, UploadIdx, NothingToUpload, UploadTo, GiveUpWrites, local, Fault
  <2> QED
    BY <1>0, <2>1, <2>2 DEF NoneDropped
<1>4. CASE \E q \in Refs : DeleteCheck(s, q)
  <2>1. /\ pc[s] = "delete" /\ pc'[s] \in {"delete", "trash"}
        /\ UNCHANGED <<writes, wrote, batch, seen, has>> /\ faulted \subseteq faulted'
    BY <1>0, <1>4 DEF DeleteCheck, Fault
  <2> QED
    BY <1>0, <2>1 DEF NoneDropped
<1>5. ASSUME NEW q \in Refs, WriteRef(s, q)
      PROVE  r \in writes'[s] \cup wrote'[s] /\ pc'[s] = "write"
  <2>1. r \in writes[s] \cup wrote[s]
    BY <1>0, <1>5 DEF WriteRef, NoneDropped, Fault
  <2>2. MayLand(s, q)
    BY <1>0, <1>5 DEF WriteRef, MayLand, Exists, Tracked, Ahead
  <2>3. wrote'[s] = wrote[s] \cup {q}
    BY <1>0, <1>5, <2>2 DEF WriteRef, Fault
  <2> QED
    BY <1>0, <1>5, <2>1, <2>3 DEF WriteRef
<1>6. CASE DeleteTrash(s)
  BY <1>0, <1>6 DEF DeleteTrash, NoneDropped, Fault
<1>7. CASE DeletesDone(s) \/ WritesDone(s)
  BY <1>0, <1>7 DEF DeletesDone, WritesDone, NoneDropped, local
<1>8. CASE EnsureHead(s)
  BY <1>0, <1>8 DEF EnsureHead, NoneDropped, local, Fault
<1>9. CASE Acquire(s) \/ Leave(s) \/ Die(s)
  BY <1>0, <1>9 DEF Acquire, Leave, Die
<1> QED
  BY <1>1, <1>2, <1>3, <1>4, <1>5, <1>6, <1>7, <1>8, <1>9 DEF SessionStep

\* Why session s may have left HEAD naming b, with no such branch.
Cause(s, b) ==
    /\ batch[s][b].del
    /\ \/ LostReplies /\ s \in faulted
       \/ New(s, b) # None /\ b \notin wrote[s]

\* It remains the reason until the branch is back.
LEMMA CauseStays ==
    ASSUME IInv, Alone, NEW s \in Sessions, NotYet(s), Asked(s), NEW b \in Refs, Cause(s, b),
           NEW u \in Writers, StepOf(u)
    PROVE  Cause(s, b)' \/ refs'[b] # None
<1> USE DEF Cause, New, LostReplies
<1> TypeOK /\ s \in Writers /\ s \notin HeadSetters
  BY PushConstants DEF IInv, Writers, PushConstants
<1>0. scene' = scene
  BY DEF StepOf, SessionStep, Scan, Plan, UploadPack, NothingToUpload, UploadIdx, DeleteCheck,
     WriteRef, DeleteTrash, DeletesDone, WritesDone, EnsureHead, SetHeadCheck, SetHeadRepoint,
     Acquire, Leave, Die, LateLands
<1>1. CASE u # s
  <2>1. SameBatch(s) /\ SameWork(s)
    BY <1>1, OtherSteps, OthersKeepWork DEF StepOf
  <2> QED
    BY <1>0, <2>1 DEF SameBatch, SameWork
<1>2. CASE u = s /\ Plan(s)
  BY <1>2 DEF Plan, NotYet, Preparing, NoBatch
<1>3. ASSUME u = s, NEW r \in Refs, WriteRef(s, r)
      PROVE  Cause(s, b)' \/ refs'[b] # None
  <2>1. /\ batch' = batch /\ faulted \subseteq faulted'
        /\ b \in wrote'[s] \ wrote[s] => refs'[b] = batch[s][b].new
    BY <1>3 DEF WriteRef, RefBecomes, Fault, TypeOK
  <2>2. batch[s][r].new # None
    BY <1>3 DEF WriteRef, Asked, ValidWrite
  <2>3. b \in wrote'[s] => b = r \/ b \in wrote[s]
    BY <1>3 DEF WriteRef, TypeOK
  <2> QED
    BY <1>0, <2>1, <2>2, <2>3
<1>4. CASE u = s /\ batch' = batch /\ wrote' = wrote /\ faulted \subseteq faulted'
  BY <1>0, <1>4
<1> QED
  BY <1>1, <1>2, <1>3, <1>4, NothingLate DEF StepOf, SessionStep, Scan, UploadPack, UploadTo,
     NothingToUpload, UploadIdx, DeleteCheck, DeleteTrash, DeletesDone, WritesDone, EnsureHead,
     Acquire, Leave, Die, Fault, local

\* The branch HEAD names is taken from the remote by no step of the holder.
LEMMA HeadKept ==
    ASSUME IInv, Alone, NEW u \in Writers, StepOf(u), u \in Sessions => Asked(u),
           head # None, refs[head] # None
    PROVE  refs'[head] # None
<1> TypeOK /\ head \in Refs
  BY PushConstants DEF IInv, TypeOK, PushConstants
<1>1. CASE u \in Sessions /\ DeleteTrash(u)
  BY <1>1 DEF DeleteTrash, RefBecomes, Asked, TypeOK
<1>2. ASSUME u \in Sessions, NEW r \in Refs, WriteRef(u, r)
      PROVE  refs'[head] # None
  BY <1>2 DEF WriteRef, RefBecomes, Asked, ValidWrite, New, TypeOK
<1>3. CASE refs' = refs
  BY <1>3
<1> QED
  BY <1>1, <1>2, <1>3, NothingLate DEF StepOf, SessionStep, Scan, Plan, UploadPack,
     NothingToUpload, UploadIdx, DeleteCheck, DeletesDone, WritesDone, EnsureHead,
     SetHeadCheck, SetHeadRepoint, Acquire, Leave, Die, remote

\* ensureHEAD names a branch that is there, or that this push was to write back.
LEMMA CreatedHead ==
    ASSUME IInv, NEW s \in Sessions, Asked(s), Tracked(s), pc[s] = "head",
           NEW b \in Candidates(s), refs[b] = None
    PROVE  b \in Refs /\ Cause(s, b)
<1>1. b \in Refs /\ Known(s, b)
  BY PushConstants DEF Candidates, PushConstants, Tracked
<1>2. b \notin wrote[s]
  BY <1>1 DEF Known, Asked
<1>3. CASE b \in deleted[s]
  BY <1>1, <1>2, <1>3 DEF Candidates, OkNow, Known, Cause, Asked
<1>4. CASE b \notin deleted[s]
  BY <1>1, <1>2, <1>4 DEF Candidates, OkNow, Known, Cause
<1> QED
  BY <1>1, <1>3, <1>4

LEMMA HeadStep ==
    ASSUME IInv, ~OrphanCalls, Alone, \A s \in Sessions : HolderInv(s),
           \A w \in HeadSetters : Found(w), HeadDanglesOnlyForCause,
           NEW u \in Writers, StepOf(u)
    PROVE  HeadDanglesOnlyForCause'
<1> TypeOK
  BY DEF IInv
<1>1. CASE head' = head /\ HeadNamesBranch
  BY <1>1, HeadKept DEF HeadDanglesOnlyForCause, HeadNamesBranch, HolderInv
<1>2. CASE head' = head /\ ~HeadNamesBranch
  <2>1. PICK s \in Sessions : Cause(s, head)
    BY <1>2 DEF HeadDanglesOnlyForCause, Cause
  <2>2. PICK b \in Refs : b = head
    BY <1>2, PushConstants DEF HeadNamesBranch, TypeOK, PushConstants
  <2>3. Cause(s, b)' \/ refs'[b] # None
    BY <2>1, <2>2, CauseStays DEF HolderInv
  <2> QED
    BY <1>2, <2>2, <2>3 DEF HeadDanglesOnlyForCause, HeadNamesBranch, Cause, New
<1>3. CASE u \in Sessions /\ EnsureHead(u) /\ head' # head
  <2>1. PICK b \in Candidates(u) : head' = b
    BY <1>3 DEF EnsureHead, CreateHead
  <2>2. refs[b] = None => b \in Refs /\ Cause(u, b)
    BY <1>3, <2>1, CreatedHead DEF EnsureHead, HolderInv
  <2>3. refs' = refs /\ batch' = batch /\ wrote' = wrote /\ scene' = scene /\ faulted \subseteq faulted'
    BY <1>3 DEF EnsureHead, Fault, local
  <2>4. refs'[b] = None => Cause(u, b)'
    BY <2>2, <2>3 DEF Cause, New, LostReplies
  <2> QED
    BY <1>3, <2>1, <2>4 DEF HeadDanglesOnlyForCause, HeadNamesBranch, Cause, New
<1>4. CASE u \in HeadSetters /\ SetHeadRepoint(u) /\ head' # head
  BY <1>4 DEF SetHeadRepoint, Found, HeadDanglesOnlyForCause, HeadNamesBranch
<1> QED
  BY <1>1, <1>2, <1>3, <1>4, NothingLate DEF StepOf, SessionStep, Scan, Plan, UploadPack,
     NothingToUpload, UploadIdx, DeleteCheck, WriteRef, DeleteTrash, DeletesDone, WritesDone,
     SetHeadCheck, Acquire, Leave, Die, remote

LEMMA FoundStep ==
    ASSUME TypeOK, Alone, NEW w \in HeadSetters, Found(w), NEW u \in Writers, StepOf(u)
    PROVE  Found(w)'
<1> w \in Writers /\ w \notin Sessions
  BY PushConstants DEF Writers, PushConstants
<1>1. CASE u # w
  <2>1. pc'[w] = pc[w]
    BY <1>1, OtherSteps DEF StepOf
  <2>2. pc[w] # "repoint"
    BY <1>1, OnlyHolder DEF Idle
  <2> QED
    BY <2>1, <2>2 DEF Found
<1>2. CASE u = w /\ SetHeadCheck(w)
  BY <1>2 DEF SetHeadCheck, Goto, Found, TypeOK, remote
<1>3. CASE u = w /\ pc'[w] # "repoint"
  BY <1>3 DEF Found
<1> QED
  BY <1>1, <1>2, <1>3, NothingLate DEF StepOf, SetHeadRepoint, Acquire, Leave, Die, Goto, TypeOK

-----------------------------------------------------------------------------
LEMMA LockStep ==
    ASSUME IInv, LockInv, [Next]_vars
    PROVE  LockInv'
<1>1. CASE OrphanCalls
  BY <1>1, SceneStays DEF LockInv, OrphanCalls
<1>2. CASE ~OrphanCalls /\ NoWriter
  <2>1. Alone'
    BY <1>2 DEF LockInv, Alone, NoWriter
  <2>2. ASSUME NEW s \in Sessions PROVE HolderInv(s)'
    <3>1. HolderInv(s) /\ UNCHANGED <<refs, head, pack, idx, pc, faulted, scene>> /\ UNCHANGED local
      BY <1>2 DEF LockInv, NoWriter, remote
    <3>2. NotYet(s)' /\ Asked(s)'
      BY <3>1 DEF HolderInv, NotYet, Asked, New, local
    <3>3. Tracked(s)'
      BY <3>1 DEF HolderInv, Tracked, Ahead, Known, New, LostReplies, local
    <3>4. Reported(s)' /\ NoneDropped(s)'
      BY <3>1 DEF HolderInv, Reported, NoneDropped, Undamaged, New, local
    <3> QED
      BY <3>2, <3>3, <3>4 DEF HolderInv
  <2>3. (\A w \in HeadSetters : Found(w)')
    BY <1>2 DEF LockInv, Found, NoWriter, remote, local
  <2>4. HeadDanglesOnlyForCause'
    BY <1>2 DEF LockInv, HeadDanglesOnlyForCause, HeadNamesBranch, NoWriter, remote, local,
       OrphanCalls, LostReplies, New
  <2> QED
    BY <2>1, <2>2, <2>3, <2>4 DEF LockInv
<1>3. ASSUME ~OrphanCalls, NEW u \in Writers, StepOf(u)
      PROVE  LockInv'
  <2>1. Alone /\ TypeOK
    BY <1>3 DEF LockInv, IInv
  <2>2. Alone'
    BY <1>3, <2>1, AloneStep
  <2>3. ASSUME NEW s \in Sessions PROVE HolderInv(s)'
    <3>1. HolderInv(s) /\ s \in Writers /\ s \notin HeadSetters
      BY <1>3, PushConstants DEF LockInv, Writers, PushConstants
    <3>2. CASE u = s
      <4>1. SessionStep(s) \/ Acquire(s) \/ Leave(s) \/ Die(s)
        BY <1>3, <2>1, <3>1, <3>2, NothingLate DEF StepOf
      <4>2. NotYet(s)' /\ Asked(s)'
        BY <2>1, <3>1, <4>1, NotYetStep, AskedStep DEF HolderInv
      <4>3. Tracked(s)' /\ Reported(s)'
        BY <2>1, <3>1, <4>1, TrackedStep, ReportedStep DEF HolderInv
      <4>4. NoneDropped(s)'
        BY <3>1, <4>1, NoneDroppedStep DEF HolderInv
      <4> QED
        BY <4>2, <4>3, <4>4 DEF HolderInv
    <3>3. CASE u # s
      <4>1. SameBatch(s) /\ SameWork(s) /\ pc'[s] = pc[s]
        BY <1>3, <2>1, <3>1, <3>3, OtherSteps, OthersKeepWork DEF StepOf
      <4>2. pc[s] \in Idle
        BY <1>3, <2>1, <3>1, <3>3, OnlyHolder
      <4> QED
        BY <3>1, <4>1, <4>2, IdleKeeps
    <3> QED
      BY <3>2, <3>3
  <2>4. ASSUME NEW w \in HeadSetters PROVE Found(w)'
    BY <1>3, <2>1, FoundStep DEF LockInv
  <2>5. HeadDanglesOnlyForCause'
    BY <1>3, HeadStep DEF LockInv
  <2> QED
    BY <2>2, <2>3, <2>4, <2>5 DEF LockInv
<1> QED
  BY <1>1, <1>2, <1>3, WhoMoves

LEMMA LockInit == Init => LockInv
<1> SUFFICES ASSUME Init PROVE LockInv
  OBVIOUS
<1>1. HeadDanglesOnlyForCause
  BY HeadStarts DEF Init, Starts, HeadDanglesOnlyForCause, HeadNamesBranch
<1>2. Alone
  BY DEF Init, Alone, Idle
<1>3. ASSUME NEW s \in Sessions PROVE HolderInv(s)
  BY DEF Init, HolderInv, NotYet, Asked, Tracked, Reported, NoneDropped, Preparing, Uploading,
     Deleting, Writers
<1>4. \A w \in HeadSetters : Found(w)
  BY DEF Init, Found, Writers
<1> QED
  BY <1>1, <1>2, <1>3, <1>4 DEF LockInv

LEMMA LockInvariant == Spec => []LockInv
<1>1. Init => LockInv
  BY LockInit
<1>2. IInv /\ LockInv /\ [Next]_vars => LockInv'
  BY LockStep
<1> QED
  BY <1>1, <1>2, Invariant, PTL DEF Spec

\* What git is told stays so on the remote until the session lets go of the
\* lock: no other process, and no call of its own, undoes it (Push's results).
THEOREM StatusTruthfulHolds == Spec => []StatusTruthful
<1>1. LockInv => StatusTruthful
  BY DEF LockInv, HolderInv, Reported, StatusTruthful
<1> QED
  BY <1>1, LockInvariant, PTL

\* HEAD is left naming no branch for no other cause than the two stated:
\* ensureHEAD, --set-head and the two checks of a deletion see to it.
THEOREM HeadDanglesOnlyForCauseHolds == Spec => []HeadDanglesOnlyForCause
<1>1. LockInv => HeadDanglesOnlyForCause
  BY DEF LockInv, HeadDanglesOnlyForCause
<1> QED
  BY <1>1, LockInvariant, PTL

\* Nothing an earlier process left behind keeps a session whose own calls
\* succeed from publishing every ref it found valid, but a damaged file.
THEOREM NeverWedgedHolds == Spec => []NeverWedged
<1>1. LockInv => NeverWedged
  BY DEF LockInv, HolderInv, NoneDropped, Undamaged, NeverWedged
<1> QED
  BY <1>1, LockInvariant, PTL

\* A branch loses no commit to a push that does not force it, although the
\* ancestry was checked on refs scanned several remote calls earlier.
THEOREM FastForwardOnlyHolds == Spec => FastForwardOnly
<1>1. ASSUME IInv, LockInv, [Next]_vars, ~OrphanCalls, NEW r \in Branches,
             refs[r] # None, refs'[r] \notin {None, refs[r]}
      PROVE  \/ refs[r] \in Anc[refs'[r]]
             \/ \E s \in Sessions : writer = s /\ batch[s][r].force
  <2> TypeOK /\ Alone /\ r \in Refs
    BY <1>1, PushConstants DEF IInv, LockInv, PushConstants
  <2>1. PICK s \in Sessions : WriteRef(s, r)
    <3>1. PICK u \in Writers : StepOf(u)
      BY <1>1, WhoMoves DEF NoWriter, remote
    <3>2. ASSUME NEW q \in Refs, WriteRef(u, q) PROVE q = r
      BY <1>1, <3>2 DEF WriteRef, RefBecomes, TypeOK
    <3>3. ~DeleteTrash(u)
      BY <1>1 DEF DeleteTrash, RefBecomes, TypeOK
    <3> QED
      BY <1>1, <3>1, <3>2, <3>3, NothingLate DEF StepOf, SessionStep, Scan, Plan, UploadPack,
         NothingToUpload, UploadIdx, DeleteCheck, DeletesDone, WritesDone, EnsureHead,
         SetHeadCheck, SetHeadRepoint, Acquire, Leave, Die, remote
  <2>2. refs'[r] = New(s, r)
    BY <1>1, <2>1 DEF WriteRef, RefBecomes, TypeOK
  <2>3. Ahead(s, r) /\ ValidWrite(batch[s], seen[s], has[s], r)
    BY <1>1, <2>1 DEF LockInv, HolderInv, Tracked, Asked, WriteRef
  <2>4. writer = s
    BY <2>1 DEF Alone, WriteRef, Idle, Writers
  <2> QED
    BY <1>1, <2>2, <2>3, <2>4 DEF Ahead, ValidWrite, IsAncestor, New
<1>2. IInv /\ LockInv /\ [Next]_vars =>
          [~OrphanCalls => \A r \in Branches :
              (refs[r] # None /\ refs'[r] \notin {None, refs[r]}) =>
                  \/ refs[r] \in Anc[refs'[r]]
                  \/ \E s \in Sessions : writer = s /\ batch[s][r].force]_vars
  BY <1>1
<1> QED
  BY <1>2, Invariant, LockInvariant, PTL DEF Spec, FastForwardOnly
=============================================================================
