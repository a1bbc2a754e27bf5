--------------------------- MODULE WriterLockProofs ---------------------------
(***************************************************************************)
(* Proofs about WriterLock for any set of sessions.  The invariant that    *)
(* carries them is HolderOwnsFile together with what the operator's        *)
(* decision guarantees until it is carried out.                            *)
(***************************************************************************)
EXTENDS WriterLock, TLAPS

\* While the operator only decides to clear the locks of processes that are gone,
\* the lock decided upon stays in place until it is cleared: nobody else removes it.
OperatorDecision ==
    ~careless /\ opSaw # Absent =>
        /\ lockFile = opSaw
        /\ opSaw \in Sessions => Gone(opSaw)

IInv == TypeOK /\ HolderOwnsFile /\ OperatorDecision

LEMMA TypeInit == Init => TypeOK
  BY DEF Init, TypeOK, Phases

LEMMA TypeStep == TypeOK /\ [Next]_vars => TypeOK'
  <1> SUFFICES ASSUME TypeOK, [Next]_vars PROVE TypeOK'
    OBVIOUS
  <1> USE DEF TypeOK, Phases
  <1>0. hung' \in SUBSET Sessions
    BY DEF Next, Step, Others, Hang, vars
  <1>1. ASSUME NEW s \in Sessions, CreateLands(s) PROVE TypeOK'
    BY <1>0, <1>1 DEF CreateLands, Goto, Fail
  <1>2. ASSUME NEW s \in Sessions, CreateLost(s) PROVE TypeOK'
    BY <1>0, <1>2 DEF CreateLost, Goto, Fail
  <1>3. ASSUME NEW s \in Sessions, CreateRefused(s) PROVE TypeOK'
    BY <1>0, <1>3 DEF CreateRefused, Goto
  <1>4. ASSUME NEW s \in Sessions, ReadBack(s) PROVE TypeOK'
    BY <1>0, <1>4 DEF ReadBack, GiveUp, Goto
  <1>5. ASSUME NEW s \in Sessions, BeginRelease(s) PROVE TypeOK'
    BY <1>0, <1>5 DEF BeginRelease, Goto
  <1>6. ASSUME NEW s \in Sessions, ReleaseRead(s) PROVE TypeOK'
    BY <1>0, <1>6 DEF ReleaseRead, Goto, Fail
  <1>7. ASSUME NEW s \in Sessions, ReleaseTrash(s) PROVE TypeOK'
    BY <1>0, <1>7 DEF ReleaseTrash, Robbed, Goto, Fail
  <1>8. ASSUME NEW s \in Sessions, Crash(s) \/ Interrupt(s) PROVE TypeOK'
    BY <1>0, <1>8 DEF Crash, Interrupt, Die, Goto
  <1>9. CASE OperatorInspects
    BY <1>0, <1>9 DEF OperatorInspects
  <1>10. CASE OperatorClears
    BY <1>0, <1>10 DEF OperatorClears
  <1>11. CASE UNCHANGED vars
    BY <1>0, <1>11 DEF vars
  <1>12. ASSUME NEW s \in Sessions, Hang(s) PROVE TypeOK'
    BY <1>0, <1>12 DEF Hang
  <1>13. QED
    BY <1>1, <1>2, <1>3, <1>4, <1>5, <1>6, <1>7, <1>8, <1>9, <1>10, <1>11, <1>12
       DEF Next, Step, Call, Others

\* Every reachable state is well typed, whatever fails and whoever dies.
THEOREM TypeCorrect == Spec => []TypeOK
  <1>1. Init => TypeOK
    BY TypeInit
  <1>2. TypeOK /\ [Next]_vars => TypeOK'
    BY TypeStep
  <1>3. QED
    BY <1>1, <1>2, PTL DEF Spec

-----------------------------------------------------------------------------
LEMMA LockInit == Init => IInv
  BY TypeInit, LockConstants DEF Init, IInv, TypeOK, HolderOwnsFile, Holds, OperatorDecision

LEMMA LockStep == IInv /\ [Next]_vars => IInv'
  <1> SUFFICES ASSUME IInv, [Next]_vars
               PROVE  HolderOwnsFile' /\ OperatorDecision'
    BY TypeStep DEF IInv
  <1> USE LockConstants DEF IInv, TypeOK, Phases, HolderOwnsFile, Holds, OperatorDecision, Gone
  <1>1. ASSUME NEW s \in Sessions, CreateLands(s)
        PROVE  HolderOwnsFile' /\ OperatorDecision'
    BY <1>1 DEF CreateLands, Goto, Fail
  <1>2. ASSUME NEW s \in Sessions, CreateLost(s)
        PROVE  HolderOwnsFile' /\ OperatorDecision'
    BY <1>2 DEF CreateLost, Goto, Fail
  <1>3. ASSUME NEW s \in Sessions, CreateRefused(s)
        PROVE  HolderOwnsFile' /\ OperatorDecision'
    BY <1>3 DEF CreateRefused, Goto
  <1>4. ASSUME NEW s \in Sessions, ReadBack(s)
        PROVE  HolderOwnsFile' /\ OperatorDecision'
    BY <1>4 DEF ReadBack, GiveUp, Ours, Goto
  <1>5. ASSUME NEW s \in Sessions, BeginRelease(s)
        PROVE  HolderOwnsFile' /\ OperatorDecision'
    BY <1>5 DEF BeginRelease, Goto
  <1>6. ASSUME NEW s \in Sessions, ReleaseRead(s)
        PROVE  HolderOwnsFile' /\ OperatorDecision'
    BY <1>6 DEF ReleaseRead, Ours, Goto, Fail
  <1>7. ASSUME NEW s \in Sessions, ReleaseTrash(s)
        PROVE  HolderOwnsFile' /\ OperatorDecision'
    <2>1. ~careless => Holds(s) /\ lockFile = s /\ opSaw = Absent
      BY <1>7 DEF ReleaseTrash
    <2>2. pc' = [pc EXCEPT ![s] = "exited"] /\ UNCHANGED <<opSaw, careless>>
      BY <1>7 DEF ReleaseTrash, Goto, Fail
    <2>3. QED
      BY <2>1, <2>2
  <1>8. ASSUME NEW s \in Sessions, Crash(s) \/ Interrupt(s)
        PROVE  HolderOwnsFile' /\ OperatorDecision'
    BY <1>8 DEF Crash, Interrupt, Die, Goto
  <1>9. CASE OperatorInspects
    BY <1>9 DEF OperatorInspects
  <1>10. CASE OperatorClears
    BY <1>10 DEF OperatorClears
  <1>11. CASE UNCHANGED vars
    BY <1>11 DEF vars
  <1>12. ASSUME NEW s \in Sessions, Hang(s)
        PROVE  HolderOwnsFile' /\ OperatorDecision'
    BY <1>12 DEF Hang
  <1>13. QED
    BY <1>1, <1>2, <1>3, <1>4, <1>5, <1>6, <1>7, <1>8, <1>9, <1>10, <1>11, <1>12
       DEF Next, Step, Call, Others

LEMMA LockInvariant == Spec => []IInv
  <1>1. Init => IInv
    BY LockInit
  <1>2. IInv /\ [Next]_vars => IInv'
    BY LockStep
  <1>3. QED
    BY <1>1, <1>2, PTL DEF Spec

\* A session that holds the lock has its own nonce in .lock, until somebody
\* clears the lock of a live session by hand.
THEOREM HolderOwnsFileHolds == Spec => []HolderOwnsFile
  <1>1. IInv => HolderOwnsFile
    BY DEF IInv
  <1>2. QED
    BY <1>1, LockInvariant, PTL

\* Two sessions never hold the lock together, under the same proviso.
THEOREM MutualExclusionHolds == Spec => []MutualExclusion
  <1>1. IInv => MutualExclusion
    BY DEF IInv, HolderOwnsFile, MutualExclusion
  <1>2. QED
    BY <1>1, LockInvariant, PTL

-----------------------------------------------------------------------------
LEMMA TakeoverStep ==
  ASSUME IInv, Next, NEW s \in Sessions,
         ~careless, lockFile = s, ~Gone(s), lockFile' # s
  PROVE  ReleaseTrash(s)
  <1> USE LockConstants DEF IInv, TypeOK, HolderOwnsFile, Holds, OperatorDecision, Gone
  <1>1. ASSUME NEW t \in Sessions, ReleaseTrash(t) PROVE ReleaseTrash(s)
    <2>1. lockFile = t
      BY <1>1 DEF ReleaseTrash
    <2>2. QED
      BY <1>1, <2>1
  <1>2. ~OperatorClears
    BY DEF OperatorClears
  <1>3. ASSUME NEW t \in Sessions, CreateLands(t) PROVE FALSE
    BY <1>3 DEF CreateLands
  <1>4. ASSUME NEW t \in Sessions,
               \/ CreateLost(t) \/ CreateRefused(t) \/ ReadBack(t) \/ BeginRelease(t)
               \/ ReleaseRead(t) \/ Crash(t) \/ Interrupt(t)
               \/ Hang(t)
        PROVE  FALSE
    BY <1>4 DEF CreateLost, CreateRefused, ReadBack, GiveUp, BeginRelease, ReleaseRead,
                Crash, Interrupt, Die, Hang
  <1>5. ~OperatorInspects
    BY DEF OperatorInspects
  <1>6. QED
    BY <1>1, <1>2, <1>3, <1>4, <1>5 DEF Next, Step, Call, Others

\* No takeover: only its own release removes the lock of a running session.
THEOREM NoTakeoverHolds == Spec => NoTakeover
  <1>1. IInv /\ [Next]_vars =>
          [\A s \in Sessions :
             (~careless /\ lockFile = s /\ ~Gone(s) /\ lockFile' # s) => ReleaseTrash(s)]_vars
    BY TakeoverStep
  <1>2. QED
    BY <1>1, LockInvariant, PTL DEF Spec, NoTakeover

-----------------------------------------------------------------------------
LEMMA RefinementInit == Init => Abstract!Init
  BY LockConstants DEF Init, Abstract!Init, Writers, Holds

\* As long as the operator is careful, the writers change by one at a time.
LEMMA CarefulStep ==
  ASSUME IInv, Next, ~careless, ~careless'
  PROVE  [Abstract!Next]_Writers
  <1> DEFINE W == {s \in Sessions : Holds(s)}
  <1> USE DEF IInv, TypeOK, Phases
  <1> SUFFICES \/ W' = W
               \/ \E s \in Sessions : (W = {} /\ W' = {s}) \/ (W = {s} /\ W' = {})
    BY DEF Abstract!Next, Abstract!Enter, Abstract!Leave, Writers
  <1>1. ASSUME NEW s \in Sessions, Holds(s) PROVE W = {s}
    BY <1>1 DEF HolderOwnsFile
  <1>2. ASSUME NEW s \in Sessions, NEW p \in Phases, Goto(s, p)
        PROVE  W' = (W \ {s}) \cup {t \in {s} : p \in {"held", "relread", "reltrash"}}
    BY <1>2 DEF Goto, Holds
  <1>3. ASSUME pc' = pc PROVE W' = W
    BY <1>3 DEF Holds
  <1>4. ASSUME NEW s \in Sessions,
               CreateLands(s) \/ CreateLost(s) \/ CreateRefused(s)
        PROVE  W' = W
    <2>1. ~Holds(s)
      BY <1>4 DEF CreateLands, CreateLost, CreateRefused, Holds
    <2>2. \E p \in {"readback", "exited"} : Goto(s, p)
      BY <1>4 DEF CreateLands, CreateLost, CreateRefused, Fail
    <2>3. QED
      BY <1>2, <2>1, <2>2
  <1>5. ASSUME NEW s \in Sessions, ReadBack(s)
        PROVE  W' = W \/ (W = {} /\ W' = {s})
    <2>1. ~Holds(s)
      BY <1>5 DEF ReadBack, Holds
    <2>2. CASE Ours(s) /\ Goto(s, "held")
      <3>1. W = {}
        BY <2>1, <2>2 DEF Ours, HolderOwnsFile
      <3>2. W' = (W \ {s}) \cup {s}
        BY <1>2, <2>2
      <3>3. QED
        BY <3>1, <3>2
    <2>3. CASE Goto(s, "exited")
      BY <1>2, <2>1, <2>3
    <2>4. QED
      BY <1>5, <2>2, <2>3 DEF ReadBack, GiveUp
  <1>6. ASSUME NEW s \in Sessions, BeginRelease(s) \/ ReleaseRead(s) \/ ReleaseTrash(s)
        PROVE  W' = W \/ (W = {s} /\ W' = {})
    <2>1. W = {s}
      BY <1>1, <1>6 DEF BeginRelease, ReleaseRead, ReleaseTrash, Holds
    <2>2. \E p \in {"relread", "reltrash", "exited"} : Goto(s, p)
      BY <1>6 DEF BeginRelease, ReleaseRead, ReleaseTrash, Fail
    <2>3. QED
      BY <1>2, <2>1, <2>2
  <1>7. ASSUME NEW s \in Sessions, Crash(s) \/ Interrupt(s)
        PROVE  W' = W \/ (W = {s} /\ W' = {})
    <2>1. Goto(s, "crashed") \/ Goto(s, "signalled")
      BY <1>7 DEF Crash, Interrupt, Die
    <2>2. W' = W \ {s}
      BY <1>2, <2>1
    <2>3. QED
      BY <1>1, <2>2
  <1>8. CASE OperatorInspects \/ OperatorClears
    BY <1>3, <1>8 DEF OperatorInspects, OperatorClears
  <1>9. ASSUME NEW s \in Sessions, Hang(s) PROVE W' = W
    BY <1>3, <1>9 DEF Hang
  <1>10. QED
    BY <1>4, <1>5, <1>6, <1>7, <1>8, <1>9 DEF Next, Step, Call, Others

LEMMA RefinementStep == IInv /\ [Next]_vars => [Abstract!Next]_Writers
  <1> SUFFICES ASSUME IInv, [Next]_vars PROVE [Abstract!Next]_Writers
    OBVIOUS
  <1>1. CASE UNCHANGED vars
    BY <1>1 DEF vars, Writers, Holds
  <1>2. CASE Next /\ careless
    <2>1. careless'
      BY <1>2 DEF Next, Step, Call, Others, Hang, CreateLands, CreateLost, CreateRefused, ReadBack, BeginRelease,
                  ReleaseRead, ReleaseTrash, Crash, Interrupt, Die, OperatorInspects, OperatorClears
    <2>2. QED
      BY <1>2, <2>1 DEF Writers
  <1>3. CASE Next /\ ~careless /\ careless'
    <2>1. Writers' = {}
      BY <1>3 DEF Writers
    <2>2. Writers = {} \/ \E s \in Sessions : Writers = {s}
      BY <1>3 DEF Writers, IInv, HolderOwnsFile
    <2>3. QED
      BY <2>1, <2>2 DEF Abstract!Next, Abstract!Leave
  <1>4. CASE Next /\ ~careless /\ ~careless'
    BY <1>4, CarefulStep
  <1>5. QED
    BY <1>1, <1>2, <1>3, <1>4 DEF IInv, TypeOK

\* The lock file implements the abstract single writer.
THEOREM LockImplementsSingleWriter == Spec => ImplementsSingleWriter
  <1>1. Init => Abstract!Init
    BY RefinementInit
  <1>2. IInv /\ [Next]_vars => [Abstract!Next]_Writers
    BY RefinementStep
  <1>3. QED
    BY <1>1, <1>2, LockInvariant, PTL DEF Spec, ImplementsSingleWriter, Abstract!Spec

-----------------------------------------------------------------------------
LEMMA GapStep ==
  TypeOK /\ ForeignTrashOnlyInGap /\ [Next]_vars => ForeignTrashOnlyInGap'
  <1> SUFFICES ASSUME TypeOK, ForeignTrashOnlyInGap, [Next]_vars
               PROVE  ForeignTrashOnlyInGap'
    OBVIOUS
  <1> USE DEF TypeOK, Phases, ForeignTrashOnlyInGap
  <1>1. ASSUME NEW s \in Sessions, CreateLands(s) PROVE ForeignTrashOnlyInGap'
    BY <1>1, LockConstants DEF CreateLands, Goto, Fail
  <1>2. ASSUME NEW s \in Sessions, CreateLost(s) \/ CreateRefused(s)
        PROVE  ForeignTrashOnlyInGap'
    BY <1>2 DEF CreateLost, CreateRefused, Goto, Fail
  <1>3. ASSUME NEW s \in Sessions, ReadBack(s) PROVE ForeignTrashOnlyInGap'
    BY <1>3 DEF ReadBack, GiveUp, Goto
  <1>4. ASSUME NEW s \in Sessions, BeginRelease(s) PROVE ForeignTrashOnlyInGap'
    BY <1>4 DEF BeginRelease, Goto
  <1>5. ASSUME NEW s \in Sessions, ReleaseRead(s) PROVE ForeignTrashOnlyInGap'
    BY <1>5 DEF ReleaseRead, Ours, Goto, Fail
  <1>6. ASSUME NEW s \in Sessions, ReleaseTrash(s) PROVE ForeignTrashOnlyInGap'
    BY <1>6 DEF ReleaseTrash, Robbed, Goto, Fail
  <1>7. ASSUME NEW s \in Sessions, Crash(s) \/ Interrupt(s) PROVE ForeignTrashOnlyInGap'
    BY <1>7 DEF Crash, Interrupt, Die, Goto
  <1>8. CASE OperatorInspects
    BY <1>8 DEF OperatorInspects
  <1>9. CASE OperatorClears
    BY <1>9 DEF OperatorClears
  <1>10. CASE UNCHANGED vars
    BY <1>10 DEF vars
  <1>11. ASSUME NEW s \in Sessions, Hang(s)
        PROVE  ForeignTrashOnlyInGap'
    BY <1>11 DEF Hang
  <1>12. QED
    BY <1>1, <1>2, <1>3, <1>4, <1>5, <1>6, <1>7, <1>8, <1>9, <1>10, <1>11
       DEF Next, Step, Call, Others

\* Whatever the operator does, a session can be about to trash somebody
\* else's lock only after its own was taken away between check and trash.
THEOREM ForeignTrashOnlyInGapHolds == Spec => []ForeignTrashOnlyInGap
  <1>1. Init => ForeignTrashOnlyInGap
    BY DEF Init, ForeignTrashOnlyInGap
  <1>2. TypeOK /\ ForeignTrashOnlyInGap /\ [Next]_vars => ForeignTrashOnlyInGap'
    BY GapStep
  <1>3. QED
    BY <1>1, <1>2, TypeCorrect, PTL DEF Spec
=============================================================================
