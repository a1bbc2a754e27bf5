--------------------------- MODULE HelperSessionProofs --------------------------
(***************************************************************************)
(* However many lines git writes and however far ahead of the answers, the *)
(* command loop keeps its lock from list for-push to its end: the refs it  *)
(* applies a batch to are those git was told, and it leaves no lock behind *)
(* that it could release.                                                  *)
(*                                                                         *)
(* The argument: past the lock's acquisition the flag lock is true, so the *)
(* file is ours and no rival may change the refs; every exit goes through  *)
(* the release as long as the flag is true.                                *)
(*                                                                         *)
(* The second part is about what the helper owes git: it applies only what *)
(* git meant, its answers are those git waits for, and success is honest.  *)
(* The argument: there is a trace of git's states that explains the lines  *)
(* still in the pipe, and at its start git agrees with the helper.         *)
(***************************************************************************)
EXTENDS HelperSession, SequenceTheorems, TLAPS

\* The lock file and the refs behind it, while the helper counts on them.
Locked ==
    /\ pc \in {"scan", "check", "batch", "rescan", "push", "release"} => lock
    /\ lock => lockFile = "ours"
    /\ lock /\ pc \notin {"scan", "release", "hung", "gone"} => advertised = rivals

\* Who has left a lock behind.
Left ==
    /\ lockFile = "ours" => lock \/ stuck
    /\ pc = "gone" /\ lock => code = "killed"

IInv == TypeOK /\ Locked /\ Left

-----------------------------------------------------------------------------
LEMMA IdsAreIds ==
    ASSUME NEW S, NEW lines \in Seq([kind : S, id : 0..MaxLines])
    PROVE  Ids(lines) \in Seq(0..MaxLines)
<1>1. DOMAIN lines = 1..Len(lines) /\ Len(lines) \in Nat
  BY LenProperties
<1>2. ASSUME NEW i \in 1..Len(lines)
      PROVE  lines[i].id \in 0..MaxLines
  <2>1. lines[i] \in [kind : S, id : 0..MaxLines]
    BY ElementOfSeq, Zenon
  <2> QED
    BY <2>1
<1>3. Ids(lines) \in [1..Len(lines) -> 0..MaxLines]
  BY <1>1, <1>2, Zenon DEF Ids
<1>4. Ids(lines) \in UNION {[1..n -> 0..MaxLines] : n \in Nat}
  BY <1>1, <1>3
<1> QED
  BY <1>4, SeqDef, Zenon

\* What an answer leaves typed.
LEMMA AnswerTyped ==
    ASSUME TypeOK, NEW reply \in Request, Answer(reply)
    PROVE  /\ pc' = "command" /\ pc' \in Phases
           /\ asked' \in Seq(Request) /\ unfit' \subseteq Request
           /\ batch' = <<>> /\ done' = <<>>
           /\ batch' \in Seq(Entry)
           /\ done' \in Seq(0..MaxLines)
BY DEF TypeOK, Answer, Phases

LEMMA InvInit == Init => IInv
<1> SUFFICES ASSUME Init PROVE IInv
  OBVIOUS
<1>1. /\ MaxLines \in Nat /\ MaxRivals \in Nat /\ Capacity \in Nat
      /\ 0 \in 0..MaxLines /\ 0 \in 0..MaxRivals
  BY SessionConstants DEF SessionConstants
<1>2. /\ pipe \in Seq(Line) /\ Len(pipe) <= Capacity /\ asked \in Seq(Request)
      /\ batch \in Seq(Entry)
      /\ done \in Seq(0..MaxLines)
  BY <1>1 DEF Init
<1>3. git \in GitState
      /\ git.entries <= git.lines
  BY <1>1, EmptySeq DEF Init, GitState
<1>4. TypeOK
  BY <1>1, <1>2, <1>3 DEF Init, TypeOK, Phases
<1> QED
  BY <1>4 DEF Init, IInv, Locked, Left

-----------------------------------------------------------------------------
\* A line that was read is a line, and the rest of the pipe is one still.
LEMMA TakeTyped ==
    ASSUME TypeOK, NEW phase, Take(phase)
    PROVE  /\ Next1 \in Line /\ pc = phase
           /\ pipe' \in Seq(Line) /\ Len(pipe') <= Capacity
<1>1. pipe \in Seq(Line) /\ pipe # <<>> /\ pipe' = Tail(pipe) /\ pc = phase /\ Len(pipe) <= Capacity
  BY DEF TypeOK, Take
<1>2. Head(pipe) \in Line /\ Tail(pipe) \in Seq(Line) /\ Len(Tail(pipe)) = Len(pipe) - 1
      /\ Len(pipe) \in Nat
  BY <1>1
<1> QED
  BY <1>1, <1>2, SessionConstants DEF Next1, SessionConstants

\* Reading a line.
LEMMA ReadTyped ==
    ASSUME TypeOK,
           \/ ReadOption \/ ReadCapabilities \/ ReadList \/ ReadBatch \/ ReadEnd
           \/ InBatch \/ BatchEnds \/ InFetch \/ EndOfInput
    PROVE  TypeOK'
<1> DEFINE Quiet == /\ asked' \in Seq(Request) /\ unfit' \subseteq Request
                    /\ pc' \in Phases /\ batch' \in Seq(Entry)
                    /\ opts' \in [poisoned : BOOLEAN, check : BOOLEAN]
                    /\ code' \in {"running", "success", "failure", "killed"}
                    /\ pipe' \in Seq(Line) /\ Len(pipe') <= Capacity
<1>1. ASSUME Quiet, KeepForRead PROVE TypeOK'
  BY <1>1 DEF TypeOK, KeepForRead, gitVars, remoteVars
<1>2. \A kind \in Kinds : Bid(kind) \in Request
  BY EmptySeq DEF Bid, Request
<1>3. \A e \in Line : e.kind \notin Options \cup {"blank"} => e \in Entry /\ <<e>> \in Seq(Entry)
  BY DEF Line, Entry
<1>4. \A e \in Line : e.kind \notin Options \cup {"blank"} => Append(batch, e) \in Seq(Entry)
  BY <1>3 DEF TypeOK
<1>5. CASE ReadOption
  <2>1. Next1.kind \in Kinds /\ Next1.kind \in Options /\ pipe' \in Seq(Line) /\ Len(pipe') <= Capacity
    BY <1>5, TakeTyped DEF ReadOption, Line
  <2>2. Answer(Bid(Next1.kind))
    BY <1>5 DEF ReadOption
  <2>3. opts' \in [poisoned : BOOLEAN, check : BOOLEAN]
    BY <1>5 DEF ReadOption, Observe, TypeOK
  <2> QED
    BY <1>1, <1>2, <1>5, <2>1, <2>2, <2>3, AnswerTyped DEF ReadOption, TypeOK
<1>6. CASE ReadCapabilities
  <2>1. Answer(Bid("capabilities")) /\ "capabilities" \in Kinds
    BY <1>6 DEF ReadCapabilities, Kinds
  <2> QED
    BY <1>1, <1>2, <1>6, <2>1, TakeTyped, AnswerTyped DEF ReadCapabilities, TypeOK
<1>7. CASE ReadList
  BY <1>1, <1>7, TakeTyped DEF ReadList, Goto, TypeOK, Phases
<1>8. CASE ReadBatch
  BY <1>1, <1>3, <1>8, TakeTyped DEF ReadBatch, Goto, Exit, TypeOK, Phases, Options
<1>9. CASE ReadEnd
  BY <1>1, <1>9, TakeTyped DEF ReadEnd, Goto, Exit, TypeOK, Phases
<1>10. CASE InBatch
  BY <1>1, <1>4, <1>10, TakeTyped DEF InBatch, Goto, Observe, TypeOK, Phases
<1>11. CASE BatchEnds
  <2>1. [cmd |-> "push", ids |-> Ids(batch), vouch |-> FALSE] \in Request
    BY IdsAreIds DEF TypeOK, Entry, Request, Kinds
  <2>2. CASE AnswerPush(Ids(batch)) /\ UNCHANGED code
    BY <1>1, <1>11, <2>1, <2>2, TakeTyped, AnswerTyped DEF BatchEnds, AnswerPush, TypeOK
  <2>3. CASE (Goto("rescan") \/ Exit("failure")) /\ UNCHANGED batch
             /\ code' \in {code, "failure"}
    BY <1>1, <1>11, <2>3, TakeTyped DEF BatchEnds, Goto, Exit, TypeOK, Phases
  <2> QED
    BY <1>11, <2>2, <2>3 DEF BatchEnds, Exit
<1>12. CASE InFetch
  BY <1>1, <1>4, <1>12, TakeTyped DEF InFetch, Goto, Exit, TypeOK, Phases, Options
<1>13. CASE EndOfInput
  BY <1>1, <1>13 DEF EndOfInput, Goto, Exit, TypeOK, Phases
<1> QED
  BY <1>5, <1>6, <1>7, <1>8, <1>9, <1>10, <1>11, <1>12, <1>13

\* Making a remote call.
LEMMA CallTyped ==
    ASSUME TypeOK,
           \/ Survey \/ Prepare \/ AcquireLock \/ ScanForPush \/ TellRefs
           \/ Rescan \/ PushOne \/ TellStatus \/ FetchAll \/ Release \/ Killed \/ Hang
    PROVE  TypeOK'
<1> DEFINE Quiet == /\ asked' \in Seq(Request) /\ unfit' \subseteq Request
                    /\ pc' \in Phases /\ batch' \in Seq(Entry) /\ done' \in Seq(0..MaxLines)
                    /\ code' \in {"running", "success", "failure", "killed"}
           Remote == /\ {lock', marked', damaged', stuck'} \subseteq BOOLEAN
                     /\ lockFile' \in {"none", "ours", "rival"}
                     /\ applied' \subseteq 0..MaxLines
                     /\ rivals' \in 0..MaxRivals /\ advertised' \in 0..MaxRivals
<1>1. ASSUME Quiet, Remote, KeepForCall PROVE TypeOK'
  BY <1>1 DEF TypeOK, KeepForCall, gitVars
<1>2. ASSUME Quiet, UNCHANGED <<lock, remoteVars>>, KeepForCall PROVE TypeOK'
  BY <1>2 DEF TypeOK, KeepForCall, gitVars, remoteVars
<1>3. Bid("list") \in Request /\ Bid("listForPush") \in Request
  BY EmptySeq DEF Bid, Request, Kinds
<1>4. \A ids \in Seq(0..MaxLines) : [cmd |-> "push", ids |-> ids, vouch |-> FALSE] \in Request
  BY DEF Request, Kinds
<1>5. Ids(batch) \in Seq(0..MaxLines)
  BY IdsAreIds DEF TypeOK, Entry
<1>6. \A how : Exit(how) => pc' \in Phases /\ code' = how /\ UNCHANGED <<unfit, asked>>
  BY DEF Exit, Goto, Phases
<1>7. \A phase \in Phases : Goto(phase) => pc' \in Phases /\ UNCHANGED <<unfit, asked>>
  BY DEF Goto
<1>8. <<>> \in Seq(Entry) /\ <<>> \in Seq(0..MaxLines)
  BY EmptySeq
<1>9. CASE Survey
  BY <1>2, <1>3, <1>6, <1>8, <1>9, AnswerTyped DEF Survey, TypeOK, KeepEmpty
<1>10. CASE Prepare
  <2>1. marked' \in BOOLEAN
    BY <1>10 DEF Prepare, TypeOK
  <2> QED
    BY <1>1, <1>6, <1>7, <1>10, <2>1 DEF Prepare, TypeOK, Phases
<1>11. CASE AcquireLock
  BY <1>1, <1>6, <1>7, <1>11 DEF AcquireLock, TypeOK, Phases
<1>12. CASE ScanForPush
  BY <1>1, <1>6, <1>7, <1>12 DEF ScanForPush, TypeOK, Phases
<1>13. CASE TellRefs
  BY <1>2, <1>3, <1>6, <1>8, <1>13, AnswerTyped DEF TellRefs, TypeOK, KeepEmpty
<1>14. CASE Rescan
  BY <1>2, <1>4, <1>5, <1>6, <1>7, <1>8, <1>14, AnswerTyped
     DEF Rescan, AnswerPush, TypeOK, Phases
<1>15. CASE PushOne
  <2>1. Head(batch) \in Entry /\ Tail(batch) \in Seq(Entry)
    BY <1>15 DEF PushOne, TypeOK
  <2>2. Head(batch).id \in 0..MaxLines
    BY <2>1 DEF Entry
  <2>3. Append(done, Head(batch).id) \in Seq(0..MaxLines)
    BY <2>2 DEF TypeOK
  <2>4. applied' \subseteq 0..MaxLines
    BY <1>15, <2>2 DEF PushOne, TypeOK
  <2> QED
    BY <1>1, <1>7, <1>15, <2>1, <2>3, <2>4 DEF PushOne, TypeOK, Phases
<1>16. CASE TellStatus
  BY <1>2, <1>4, <1>16, AnswerTyped DEF TellStatus, AnswerPush, TypeOK
<1>17. CASE FetchAll
  <2>1. [cmd |-> "fetch", ids |-> Ids(batch), vouch |-> opts.check] \in Request
    BY <1>5 DEF Request, Kinds, TypeOK
  <2> QED
    BY <1>2, <1>6, <1>8, <1>17, <2>1, AnswerTyped DEF FetchAll, TypeOK
<1>18. CASE Release
  BY <1>1, <1>7, <1>18 DEF Release, TypeOK, Phases
<1>19. CASE Killed
  BY <1>2, <1>7, <1>19 DEF Killed, TypeOK, Phases
<1>20. CASE Hang
  BY <1>2, <1>7, <1>20 DEF Hang, TypeOK, Phases
<1> QED
  BY <1>9, <1>10, <1>11, <1>12, <1>13, <1>14, <1>15, <1>16, <1>17, <1>18, <1>19, <1>20

\* What others do.
LEMMA OthersTyped ==
    ASSUME TypeOK, (\E kind \in Kinds : GitWrites(kind)) \/ GitLeaves \/ Rival
    PROVE  TypeOK'
<1> USE DEF GitState
<1>1. CASE Rival
  BY <1>1, SessionConstants DEF Rival, TypeOK, gitVars, SessionConstants
<1>2. CASE GitLeaves
  BY <1>2 DEF GitLeaves, TypeOK, remoteVars
<1>3. ASSUME NEW kind \in Kinds, GitWrites(kind) PROVE TypeOK'
  <2>1. /\ git.lines < MaxLines /\ git.entries + 1 \in 1..MaxLines
        /\ git.lines + 1 \in 0..MaxLines /\ git.entries \in 0..MaxLines
        /\ 1..MaxLines \subseteq 0..MaxLines /\ Len(pipe) < Capacity
    BY <1>3, SessionConstants DEF GitWrites, TypeOK, SessionConstants
  <2>2. pipe' \in Seq(Line) /\ Len(pipe') <= Capacity
    <3>1. [kind |-> kind, id |-> IF Belongs(kind) THEN git.entries + 1 ELSE 0] \in Line
      BY <2>1, SessionConstants DEF Line, SessionConstants
    <3> QED
      BY <1>3, <2>1, <3>1, SessionConstants DEF GitWrites, TypeOK, SessionConstants
  <2> DEFINE GitTyped ==
         /\ git' \in GitState
         /\ git'.entries <= git'.lines
         /\ asked' \in Seq(Request) /\ meant' \subseteq 1..MaxLines
  <2>3. Append(git.batch, git.entries + 1) \in Seq(1..MaxLines) /\ <<>> \in Seq(1..MaxLines)
    BY <2>1, EmptySeq DEF TypeOK
  <2>4. ASSUME GitAdds(kind) PROVE GitTyped
    <3>1. git'.mode = IF git.mode # "command" THEN git.mode
                      ELSE IF kind \in {"push", "badPush"} THEN "push" ELSE "fetch"
      BY <2>4 DEF GitAdds, TypeOK
    <3>2. git'.sound \in BOOLEAN
      BY <2>4 DEF GitAdds, TypeOK
    <3>3. git'.batch \in Seq(1..MaxLines)
      BY <2>3, <2>4 DEF GitAdds, TypeOK
    <3>4. git'.lines = git.lines + 1 /\ git'.entries = git.entries + 1
      BY <2>4 DEF GitAdds, TypeOK
    <3>5. git'.poison \in BOOLEAN /\ git'.check \in BOOLEAN
      BY <2>4 DEF GitAdds, TypeOK
    <3>6. git'.mode \in {"command", "push", "fetch", "bye"}
      BY <3>1 DEF TypeOK
    <3>7. git' \in GitState
      BY <2>1, <2>4, <3>1, <3>2, <3>3, <3>4, <3>5, <3>6 DEF GitAdds, TypeOK
    <3> QED
      BY <2>1, <2>4, <3>4, <3>7 DEF GitAdds, TypeOK
  <2>5. ASSUME git.mode # "command", GitEndsBatch PROVE GitTyped
    <3>1. git.batch \in Seq(0..MaxLines)
      BY <2>1, SeqMonotonic DEF TypeOK
    <3>2. git.mode \in Kinds
      BY <2>5, <1>3 DEF GitWrites, TypeOK, Kinds
    <3>3. [cmd |-> git.mode, ids |-> git.batch, vouch |-> git.mode = "fetch" /\ git.check]
          \in Request
      BY <3>1, <3>2 DEF Request, TypeOK
    <3>4. Range(git.batch) \subseteq 1..MaxLines
      <4>1. git.batch \in [1..Len(git.batch) -> 1..MaxLines]
            /\ DOMAIN git.batch = 1..Len(git.batch)
        BY LenProperties DEF TypeOK
      <4> QED
        BY <4>1, Zenon DEF Range
    <3>5. git' = [git EXCEPT !.mode = "command", !.lines = git.lines + 1, !.batch = <<>>]
      BY <2>5 DEF GitEndsBatch, TypeOK
    <3>8. git'.lines = git.lines + 1 /\ git'.entries = git.entries
      BY <3>5 DEF TypeOK
    <3>9. git' \in GitState
      BY <2>1, <2>3, <3>5 DEF TypeOK
    <3>10. git'.entries <= git'.lines
      BY <2>1, <3>8, SessionConstants DEF TypeOK, SessionConstants
    <3>6. asked' \in Seq(Request)
      BY <2>5, <3>3 DEF GitEndsBatch, Expects, TypeOK
    <3>7. meant' \subseteq 1..MaxLines
      BY <2>5, <3>4 DEF GitEndsBatch, TypeOK
    <3> QED
      BY <3>6, <3>7, <3>9, <3>10
  <2>6. ASSUME GitBids(kind) PROVE GitTyped
    <3>1. Bid(kind) \in Request
      BY EmptySeq DEF Bid, Request
    <3>2. asked' \in Seq(Request) /\ meant' \subseteq 1..MaxLines
      <4>1. Append(asked, Bid(kind)) \in Seq(Request)
        BY <3>1 DEF TypeOK
      <4> QED
        BY <2>6, <4>1 DEF GitBids, Expects, TypeOK
    <3>3. git'.poison \in BOOLEAN /\ git'.check \in BOOLEAN
      BY <2>6 DEF GitBids, TypeOK
    <3>4. git'.lines = git.lines + 1 /\ git'.entries = git.entries
      BY <2>6 DEF GitBids, TypeOK
    <3>5. git' \in GitState
      BY <2>1, <2>6, <3>3, <3>4 DEF GitBids, TypeOK
    <3>6. git'.entries <= git'.lines
      BY <2>1, <3>4, SessionConstants DEF TypeOK, SessionConstants
    <3> QED
      BY <3>2, <3>5, <3>6
  <2>7. GitTyped
    BY <1>3, <2>4, <2>5, <2>6 DEF GitWrites
  <2> QED
    BY <1>3, <2>2, <2>7 DEF GitWrites, TypeOK, remoteVars
<1> QED
  BY <1>1, <1>2, <1>3

-----------------------------------------------------------------------------
\* The flag and the file go together through every step.
LEMMA LockStep ==
    ASSUME IInv, [Next]_vars
    PROVE  (Locked /\ Left)'
<1> USE DEF IInv, Locked, Left, Goto, Exit, Answer, AnswerPush, KeepForRead, KeepForCall,
            KeepEmpty, Take, remoteVars, gitVars
<1>1. CASE UNCHANGED vars
  BY <1>1 DEF vars
<1>2. CASE \E kind \in Kinds : GitWrites(kind)
  BY <1>2 DEF GitWrites
<1>3. CASE GitLeaves \/ Rival
  BY <1>3 DEF GitLeaves, Rival
<1>4. CASE ReadOption \/ ReadCapabilities \/ ReadList \/ ReadBatch \/ ReadEnd
  BY <1>4 DEF ReadOption, ReadCapabilities, ReadList, ReadBatch, ReadEnd
<1>5. CASE InBatch \/ BatchEnds \/ InFetch \/ EndOfInput
  BY <1>5 DEF InBatch, BatchEnds, InFetch, EndOfInput
<1>6. CASE Survey \/ TellRefs \/ Rescan
  BY <1>6 DEF Survey, TellRefs, Rescan
<1>12. CASE Prepare
  BY <1>12 DEF Prepare
<1>7. CASE AcquireLock
  BY <1>7 DEF AcquireLock
<1>8. CASE ScanForPush
  BY <1>8 DEF ScanForPush
<1>9. CASE PushOne \/ TellStatus \/ FetchAll
  BY <1>9 DEF PushOne, TellStatus, FetchAll
<1>10. CASE Release
  BY <1>10 DEF Release
<1>11. CASE Killed \/ Hang
  BY <1>11 DEF Killed, Hang, Calling
<1> QED
  BY <1>1, <1>2, <1>3, <1>4, <1>5, <1>6, <1>7, <1>8, <1>9, <1>10, <1>11, <1>12 DEF Next, Step

LEMMA InvStep == IInv /\ [Next]_vars => IInv'
<1> SUFFICES ASSUME IInv, [Next]_vars PROVE IInv'
  OBVIOUS
<1>1. TypeOK'
  <2>1. CASE UNCHANGED vars
    BY <2>1 DEF IInv, TypeOK, vars, gitVars, remoteVars
  <2> QED
    BY <2>1, ReadTyped, CallTyped, OthersTyped DEF IInv, Next, Step
<1> QED
  BY <1>1, LockStep DEF IInv

LEMMA Invariant == Spec => []IInv
BY InvInit, InvStep, PTL DEF Spec

-----------------------------------------------------------------------------
\* The command loop (main.go loopEnv) stays within its types for any number of
\* lines, any pipe, any number of changes by others.
THEOREM TypeCorrect == Spec => []TypeOK
<1>1. IInv => TypeOK
  BY DEF IInv
<1> QED
  BY <1>1, Invariant, PTL

\* A batch is applied to the refs git was told when it made it (list for-push
\* and the push that follows it are under one lock).
THEOREM BatchMeetsAdvertisedHolds == Spec => []BatchMeetsAdvertised
<1>1. IInv => BatchMeetsAdvertised
  BY DEF IInv, Locked, BatchMeetsAdvertised
<1> QED
  BY <1>1, Invariant, PTL

\* Every return of the loop releases the lock (the deferred release), wherever
\* it is and whatever failed, but a lock it does not know that it made.
THEOREM LockFreedOnExitHolds == Spec => []LockFreedOnExit
<1>1. IInv => LockFreedOnExit
  BY DEF IInv, Left, LockFreedOnExit
<1> QED
  BY <1>1, Invariant, PTL
-----------------------------------------------------------------------------
(***************************************************************************)
(* The rest is about the two ends of the pipe, of which each sees only     *)
(* what the other wrote.  git's state as of each line still in the pipe is *)
(* written down as a sequence of snapshots, oldest first; the oldest one   *)
(* is git as the helper knows it, and agrees with the helper's own state.  *)
(***************************************************************************)
Modes == {"command", "push", "fetch", "bye"}

\* due: how many of the requests still unanswered git had made by then.
Snapshot == [mode : Modes, batch : Seq(0..MaxLines), sound : BOOLEAN, poison : BOOLEAN,
             check : BOOLEAN, due : Nat]

\* git is within a batch exactly when it has written some of it.
Whole(a) == a.batch = <<>> <=> a.mode \in {"command", "bye"}

Now(gs, q) == [mode |-> gs.mode, batch |-> gs.batch, sound |-> gs.sound,
               poison |-> gs.poison, check |-> gs.check, due |-> Len(q)]

Within(mode, kind) ==
    \/ mode = "command" /\ kind \in Begins
    \/ mode = "push" /\ kind \notin Options \cup {"blank"}
    \/ mode = "fetch" /\ kind # "blank"

\* Line l takes git from a to b: what GitWrites does, as snapshots show it.
Adds(a, l, b) ==
    /\ Within(a.mode, l.kind)
    /\ b.mode = IF a.mode # "command" THEN a.mode
                ELSE IF l.kind \in {"push", "badPush"} THEN "push" ELSE "fetch"
    /\ b.batch = Append(a.batch, l.id)
    /\ b.sound <=> (a.sound \/ a.batch = <<>>) /\ l.kind = b.mode
    /\ b.poison <=> a.poison
    /\ b.check <=> a.check
    /\ b.due = a.due

Ends(a, l, b, q, m) ==
    /\ a.mode \in {"push", "fetch"} /\ l.kind = "blank"
    /\ b.mode = "command" /\ b.batch = <<>>
    /\ b.poison <=> a.poison
    /\ b.check <=> a.check
    /\ b.due = a.due + 1 /\ b.due <= Len(q)
    /\ q[b.due].cmd = a.mode /\ q[b.due].ids = a.batch
    /\ q[b.due].vouch <=> a.mode = "fetch" /\ a.check
    /\ a.mode = "push" /\ a.sound /\ ~a.poison => Range(a.batch) \subseteq m

Bids(a, l, b, q) ==
    /\ ~Within(a.mode, l.kind)
    /\ l.kind = "blank" => a.mode = "command"
    /\ b.mode = IF l.kind = "blank" THEN "bye" ELSE a.mode
    /\ b.batch = a.batch
    /\ b.sound <=> a.sound
    /\ b.poison <=> a.poison \/ l.kind = "poison"
    /\ b.check <=> IF a.mode = "push" THEN a.check
                   ELSE (a.check /\ l.kind # "checkOff") \/ l.kind = "checkOn"
    /\ IF a.mode = "command" /\ l.kind # "blank"
       THEN b.due = a.due + 1 /\ b.due <= Len(q) /\ q[b.due] = Bid(l.kind)
       ELSE b.due = a.due

Follows(a, l, b, q, m) ==
    /\ a.mode # "bye"
    /\ Adds(a, l, b) \/ Ends(a, l, b, q, m) \/ Bids(a, l, b, q)

\* g tells how git came to write the lines p and to be as it is now, with the
\* requests q unanswered and the updates m meant.
Trace(g, p, now, q, m) ==
    /\ g \in Seq(Snapshot) /\ Len(g) = Len(p) + 1
    /\ \A i \in 1..Len(g) : Whole(g[i])
    /\ g[Len(g)] = now
    /\ \A i \in 1..Len(p) : Follows(g[i], p[i], g[i + 1], q, m)
    /\ \A i, j \in 1..Len(g) : i <= j => g[i].due <= g[j].due

\* git was as in a when it had written what the helper has read.
Upto(a) == \E g : Trace(g, pipe, Now(git, asked), asked, meant) /\ g[1] = a

Lower(a) == [a EXCEPT !.due = @ - 1]
LowerAll(g) == [i \in 1..Len(g) |-> Lower(g[i])]

LEMMA TraceRead ==
    ASSUME NEW p \in Seq(Line), p # <<>>, NEW g, NEW now, NEW q, NEW m,
           Trace(g, p, now, q, m)
    PROVE  /\ Trace(Tail(g), Tail(p), now, q, m)
           /\ g[2] \in Snapshot /\ Whole(g[2]) /\ Tail(g)[1] = g[2]
           /\ Follows(g[1], Head(p), g[2], q, m)
<1>1. /\ g \in Seq(Snapshot) /\ Len(g) = Len(p) + 1 /\ Len(p) \in Nat /\ Len(p) >= 1
      /\ Tail(g) \in Seq(Snapshot) /\ Len(Tail(g)) = Len(p) /\ Len(Tail(p)) = Len(p) - 1
      /\ Head(p) = p[1]
  BY DEF Trace
<1>2. \A i \in 1..Len(p) : Tail(g)[i] = g[i + 1]
  BY <1>1
<1>3. \A i \in 1..Len(p) - 1 : Tail(p)[i] = p[i + 1]
  BY <1>1
<1>4. /\ \A i \in 1..Len(Tail(g)) : Whole(Tail(g)[i])
      /\ Tail(g)[Len(Tail(g))] = now
  BY <1>1, <1>2 DEF Trace
<1>5. \A i \in 1..Len(Tail(p)) : Follows(Tail(g)[i], Tail(p)[i], Tail(g)[i + 1], q, m)
  BY <1>1, <1>2, <1>3 DEF Trace
<1>6. \A i, j \in 1..Len(Tail(g)) : i <= j => Tail(g)[i].due <= Tail(g)[j].due
  BY <1>1, <1>2 DEF Trace
<1>7. g[2] \in Snapshot /\ Whole(g[2]) /\ Tail(g)[1] = g[2]
  BY <1>1, <1>2 DEF Trace
<1>8. Follows(g[1], Head(p), g[2], q, m)
  BY <1>1 DEF Trace
<1> QED
  BY <1>1, <1>4, <1>5, <1>6, <1>7, <1>8 DEF Trace

LEMMA LowerTyped ==
    ASSUME NEW a \in Snapshot, a.due >= 1
    PROVE  /\ Lower(a) \in Snapshot /\ Lower(a).due = a.due - 1
           /\ Lower(a).mode = a.mode /\ Lower(a).batch = a.batch /\ Lower(a).sound = a.sound
           /\ Lower(a).poison = a.poison /\ Lower(a).check = a.check
BY DEF Lower, Snapshot

\* Answering the oldest request leaves the others as they were asked.
LEMMA FollowsAnswered ==
    ASSUME NEW q \in Seq(Request), q # <<>>, NEW m, NEW l,
           NEW a \in Snapshot, NEW b \in Snapshot, a.due >= 1, b.due >= 1,
           Follows(a, l, b, q, m)
    PROVE  Follows(Lower(a), l, Lower(b), Tail(q), m)
<1>1. /\ Len(q) \in Nat /\ Len(Tail(q)) = Len(q) - 1
      /\ \A k \in 1..Len(q) - 1 : Tail(q)[k] = q[k + 1]
  OBVIOUS
<1>2. /\ Lower(a).due = a.due - 1 /\ Lower(a).mode = a.mode /\ Lower(a).batch = a.batch
      /\ Lower(a).sound = a.sound /\ Lower(a).poison = a.poison /\ Lower(a).check = a.check
  BY LowerTyped
<1>3. /\ Lower(b).due = b.due - 1 /\ Lower(b).mode = b.mode /\ Lower(b).batch = b.batch
      /\ Lower(b).sound = b.sound /\ Lower(b).poison = b.poison /\ Lower(b).check = b.check
  BY LowerTyped
<1>4. a.due \in Nat /\ b.due \in Nat
  BY DEF Snapshot
<1>5. b.due = a.due + 1 /\ b.due <= Len(q) => Tail(q)[b.due - 1] = q[b.due]
  BY <1>1, <1>4
<1>6. CASE Adds(a, l, b)
  BY <1>2, <1>3, <1>6 DEF Adds, Follows
<1>7. CASE Ends(a, l, b, q, m)
  BY <1>1, <1>2, <1>3, <1>4, <1>5, <1>7 DEF Ends, Follows
<1>8. CASE Bids(a, l, b, q)
  BY <1>1, <1>2, <1>3, <1>4, <1>5, <1>8 DEF Bids, Follows
<1> QED
  BY <1>6, <1>7, <1>8 DEF Follows

LEMMA TraceAnswer ==
    ASSUME NEW p \in Seq(Line), NEW g, NEW now, NEW q \in Seq(Request), NEW m,
           q # <<>>, Trace(g, p, now, q, m), g[1].due >= 1
    PROVE  Trace(LowerAll(g), p, Lower(now), Tail(q), m) /\ LowerAll(g)[1] = Lower(g[1])
<1> DEFINE h == LowerAll(g)
<1> USE DEF LowerAll
<1>1. g \in Seq(Snapshot) /\ Len(g) = Len(p) + 1 /\ Len(p) \in Nat
  BY DEF Trace
<1>2. \A i \in 1..Len(g) : g[i] \in Snapshot /\ g[i].due >= 1
  <2>1. \A a \in Snapshot : a.due \in Nat
    BY DEF Snapshot
  <2>2. \A i \in 1..Len(g) : g[i] \in Snapshot
    BY <1>1, ElementOfSeq
  <2>3. \A i \in 1..Len(g) : g[1].due <= g[i].due
    BY <1>1 DEF Trace
  <2> QED
    BY <1>1, <2>1, <2>2, <2>3
<1>3. \A i \in 1..Len(g) : Lower(g[i]) \in Snapshot
  BY <1>2, LowerTyped
<1>4. h \in Seq(Snapshot) /\ Len(h) = Len(g)
  BY <1>1, <1>3
<1>5. \A i \in 1..Len(h) : Whole(h[i])
  BY <1>2, <1>4, LowerTyped DEF Trace, Whole
<1>6. h[Len(h)] = Lower(now)
  BY <1>1, <1>4 DEF Trace
<1>7. \A i \in 1..Len(p) : Follows(h[i], p[i], h[i + 1], Tail(q), m)
  BY <1>1, <1>2, <1>4, FollowsAnswered DEF Trace
<1>8. \A i, j \in 1..Len(h) : i <= j => h[i].due <= h[j].due
  <2>1. \A i \in 1..Len(g) : g[i].due \in Nat /\ h[i].due = g[i].due - 1
    BY <1>2, LowerTyped DEF Snapshot
  <2>2. \A i, j \in 1..Len(g) : i <= j => g[i].due <= g[j].due
    BY DEF Trace
  <2>3. \A i, j \in 1..Len(g) : i <= j => h[i].due <= h[j].due
    BY <2>1, <2>2
  <2> QED
    BY <1>4, <2>3
<1>9. h[1] = Lower(g[1])
  BY <1>1
<1> HIDE DEF LowerAll
<1> QED
  BY <1>1, <1>4, <1>5, <1>6, <1>7, <1>8, <1>9 DEF Trace

\* A new request, and more updates meant, change nothing of what was written.
LEMMA FollowsOn ==
    ASSUME NEW q \in Seq(Request), NEW q2 \in Seq(Request), NEW m, NEW m2, m \subseteq m2,
           q2 = q \/ \E r \in Request : q2 = Append(q, r),
           NEW l, NEW a \in Snapshot, NEW b \in Snapshot, Follows(a, l, b, q, m)
    PROVE  Follows(a, l, b, q2, m2)
<1>1. Len(q) \in Nat /\ Len(q) <= Len(q2) /\ \A k \in 1..Len(q) : q2[k] = q[k]
  OBVIOUS
<1>2. a.due \in Nat
  BY DEF Snapshot
<1>3. b.due = a.due + 1 /\ b.due <= Len(q) => b.due \in 1..Len(q)
  BY <1>1, <1>2
<1>4. CASE Adds(a, l, b)
  BY <1>4 DEF Follows
<1>5. CASE Ends(a, l, b, q, m)
  <2>1. b.due <= Len(q2) /\ q2[b.due] = q[b.due]
    BY <1>1, <1>2, <1>3, <1>5 DEF Ends
  <2> QED
    BY <1>5, <2>1 DEF Ends, Follows
<1>6. CASE Bids(a, l, b, q)
  <2>1. a.mode = "command" /\ l.kind # "blank" => b.due <= Len(q2) /\ q2[b.due] = q[b.due]
    BY <1>1, <1>2, <1>3, <1>6 DEF Bids
  <2> QED
    BY <1>6, <2>1 DEF Bids, Follows
<1> QED
  BY <1>4, <1>5, <1>6 DEF Follows

LEMMA TraceWrite ==
    ASSUME NEW p \in Seq(Line), NEW l \in Line, NEW g, NEW now, NEW now2 \in Snapshot,
           NEW q \in Seq(Request), NEW q2 \in Seq(Request), NEW m, NEW m2, m \subseteq m2,
           q2 = q \/ \E r \in Request : q2 = Append(q, r),
           Trace(g, p, now, q, m), Follows(now, l, now2, q2, m2), Whole(now2),
           now.due <= now2.due
    PROVE  Trace(Append(g, now2), Append(p, l), now2, q2, m2) /\ Append(g, now2)[1] = g[1]
<1> DEFINE h == Append(g, now2)
           n == Len(p)
<1>1. /\ g \in Seq(Snapshot) /\ Len(g) = n + 1 /\ n \in Nat /\ g[n + 1] = now
      /\ h \in Seq(Snapshot) /\ Len(h) = n + 2 /\ Len(Append(p, l)) = n + 1
  BY DEF Trace
<1>2. /\ \A i \in 1..n + 1 : h[i] = g[i]
      /\ h[n + 2] = now2
  BY <1>1
<1>3. /\ \A i \in 1..n : Append(p, l)[i] = p[i]
      /\ Append(p, l)[n + 1] = l
  BY <1>1
<1>4. \A a \in Snapshot : a.due \in Nat
  BY DEF Snapshot
<1> HIDE DEF h
<1>5. \A i \in 1..Len(h) : Whole(h[i])
  BY <1>1, <1>2 DEF Trace
<1>6. \A i \in 1..n : Follows(h[i], p[i], h[i + 1], q2, m2)
  <2> SUFFICES ASSUME NEW i \in 1..n PROVE Follows(h[i], p[i], h[i + 1], q2, m2)
    OBVIOUS
  <2>1. Follows(g[i], p[i], g[i + 1], q, m)
    BY <1>1 DEF Trace
  <2>2. g[i] \in Snapshot /\ g[i + 1] \in Snapshot
    BY <1>1
  <2>3. Follows(g[i], p[i], g[i + 1], q2, m2)
    BY <2>1, <2>2, FollowsOn
  <2>4. h[i] = g[i] /\ h[i + 1] = g[i + 1]
    BY <1>1, <1>2
  <2> QED
    BY <2>3, <2>4, Zenon
<1>7. Follows(h[n + 1], Append(p, l)[n + 1], h[n + 2], q2, m2)
  BY <1>1, <1>2, <1>3
<1>8. \A i \in 1..Len(Append(p, l)) : Follows(h[i], Append(p, l)[i], h[i + 1], q2, m2)
  <2> SUFFICES ASSUME NEW i \in 1..Len(Append(p, l))
               PROVE  Follows(h[i], Append(p, l)[i], h[i + 1], q2, m2)
    OBVIOUS
  <2>1. CASE i \in 1..n
    BY <1>3, <1>6, <2>1
  <2>2. CASE i = n + 1
    <3>1. i + 1 = n + 2
      BY <1>1, <2>2
    <3> QED
      BY <1>7, <2>2, <3>1
  <2> QED
    BY <1>1, <2>1, <2>2
<1>9. \A i, j \in 1..Len(h) : i <= j => h[i].due <= h[j].due
  <2>1. \A i, j \in 1..n + 1 : i <= j => g[i].due <= g[j].due
    BY <1>1 DEF Trace
  <2>2. \A i \in 1..n + 1 : g[i].due \in Nat /\ g[i].due <= now2.due
    <3>1. \A i \in 1..n + 1 : g[i] \in Snapshot /\ g[i].due <= now.due
      BY <1>1, <2>1
    <3>2. now \in Snapshot
      BY <1>1, <3>1
    <3> QED
      BY <1>4, <3>1, <3>2
  <2>3. now2.due \in Nat
    BY <1>4
  <2> QED
    BY <1>1, <1>2, <2>1, <2>2, <2>3
<1>10. h[1] = g[1] /\ h[Len(h)] = now2
  BY <1>1, <1>2
<1> QED
  BY <1>1, <1>5, <1>8, <1>9, <1>10 DEF Trace, h

LEMMA NowTyped ==
    ASSUME NEW gs \in GitState, NEW q \in Seq(Request)
    PROVE  Now(gs, q) \in Snapshot
<1>1. gs.batch \in Seq(0..MaxLines)
  <2>1. gs.batch \in Seq(1..MaxLines) /\ 1..MaxLines \subseteq 0..MaxLines
    BY SessionConstants DEF GitState, SessionConstants
  <2> QED
    BY <2>1, SeqMonotonic
<1>2. Len(q) \in Nat
  OBVIOUS
<1> QED
  BY <1>1, <1>2 DEF GitState, Snapshot, Now, Modes

\* What git does when it writes is what the snapshots say.
LEMMA GitFollows ==
    ASSUME TypeOK, Whole(Now(git, asked)), NEW kind \in Kinds, GitWrites(kind),
           NEW l, l = [kind |-> kind, id |-> IF Belongs(kind) THEN git.entries + 1 ELSE 0]
    PROVE  /\ Follows(Now(git, asked), l, Now(git, asked)', asked', meant')
           /\ Whole(Now(git, asked)') /\ meant \subseteq meant'
           /\ Len(asked) <= Len(asked')
           /\ asked' = asked \/ \E r \in Request : asked' = Append(asked, r)
<1> DEFINE a == Now(git, asked)
           b == Now(git, asked)'
<1> USE DEF Now
<1>1. /\ git \in GitState /\ asked \in Seq(Request) /\ Len(asked) \in Nat
      /\ git.mode # "bye"
  BY DEF TypeOK, GitWrites
<1>2. Belongs(kind) <=> Within(a.mode, l.kind)
  BY DEF Belongs, Within
<1>3. CASE GitAdds(kind)
  <2>1. /\ Within(a.mode, l.kind) /\ l.id = git.entries + 1 /\ l.kind = kind
        /\ asked' = asked /\ meant' = meant
    BY <1>2, <1>3 DEF GitAdds
  <2>2. /\ git'.mode = IF git.mode # "command" THEN git.mode
                       ELSE IF kind \in {"push", "badPush"} THEN "push" ELSE "fetch"
        /\ git'.batch = Append(git.batch, git.entries + 1)
        /\ git'.sound = ((git.sound \/ git.batch = <<>>) /\ kind = git'.mode)
        /\ git'.poison = git.poison /\ git'.check = git.check
    BY <1>1, <1>3 DEF GitAdds, GitState
  <2>3. Adds(a, l, b)
    BY <2>1, <2>2 DEF Adds
  <2>4. git'.batch # <<>> /\ git'.mode \notin {"command", "bye"}
    <3>1. git.batch \in Seq(1..MaxLines)
      BY <1>1 DEF GitState
    <3>2. Append(git.batch, git.entries + 1) # <<>>
      BY <3>1
    <3>3. git'.mode \notin {"command", "bye"}
      BY <1>1, <2>2
    <3> QED
      BY <2>2, <3>2, <3>3
  <2> QED
    BY <1>1, <2>1, <2>3, <2>4 DEF Follows, Whole
<1>4. CASE kind = "blank" /\ git.mode # "command" /\ GitEndsBatch
  <2> DEFINE r == [cmd |-> git.mode, ids |-> git.batch, vouch |-> git.mode = "fetch" /\ git.check]
  <2>1. r \in Request
    <3>1. git.batch \in Seq(0..MaxLines)
      BY <1>1, NowTyped DEF Snapshot
    <3>2. git.mode \in Kinds
      BY <1>1, <1>4 DEF GitState, Kinds
    <3> QED
      BY <1>1, <3>1, <3>2 DEF Request, GitState
  <2>2. asked' = Append(asked, r)
    BY <1>4 DEF GitEndsBatch, Expects
  <2>3. Len(asked') = Len(asked) + 1 /\ asked'[Len(asked) + 1] = r
    BY <1>1, <2>1, <2>2
  <2>4. /\ git'.mode = "command" /\ git'.batch = <<>>
        /\ git'.poison = git.poison /\ git'.check = git.check
    BY <1>1, <1>4 DEF GitEndsBatch, GitState
  <2>5. meant \subseteq meant'
        /\ (git.mode = "push" /\ git.sound /\ ~git.poison => Range(git.batch) \subseteq meant')
    BY <1>4 DEF GitEndsBatch
  <2>6. git.mode \in {"push", "fetch"}
    BY <1>1, <1>4 DEF GitState
  <2>7. /\ r.cmd = git.mode /\ r.ids = git.batch
        /\ r.vouch <=> git.mode = "fetch" /\ git.check
    OBVIOUS
  <2> HIDE DEF r
  <2>8. b.due = a.due + 1 /\ b.due <= Len(asked') /\ asked'[b.due] = r
    BY <1>1, <2>3
  <2>9. /\ b.mode = "command" /\ b.batch = <<>> /\ b.poison = a.poison /\ b.check = a.check
        /\ a.mode = git.mode /\ a.batch = git.batch /\ a.check = git.check
        /\ a.sound = git.sound /\ a.poison = git.poison
    BY <2>4
  <2>10. l.kind = "blank"
    BY <1>4
  <2> HIDE DEF a, b
  <2>11. Ends(a, l, b, asked', meant')
    BY <2>5, <2>6, <2>7, <2>8, <2>9, <2>10 DEF Ends
  <2> USE DEF a, b, r
  <2> QED
    BY <1>1, <2>1, <2>2, <2>3, <2>4, <2>5, <2>11 DEF Follows, Whole
<1>5. CASE ~(kind = "blank" /\ git.mode # "command") /\ GitBids(kind)
  <2>1. ~Within(a.mode, l.kind) /\ l.kind = kind /\ meant' = meant
    BY <1>2, <1>5 DEF GitBids
  <2>2. /\ git'.mode = IF kind = "blank" THEN "bye" ELSE git.mode
        /\ git'.batch = git.batch
        /\ git'.sound <=> git.sound
        /\ git'.poison <=> git.poison \/ kind = "poison"
        /\ git'.check <=> IF git.mode = "push" THEN git.check
                          ELSE (git.check /\ kind # "checkOff") \/ kind = "checkOn"
    BY <1>1, <1>5 DEF GitBids, GitState
  <2>3. Whole(b)
    BY <1>5, <2>2 DEF Whole
  <2>4. CASE git.mode = "command" /\ kind # "blank"
    <3>1. asked' = Append(asked, Bid(kind)) /\ Bid(kind) \in Request
      BY <1>5, <2>4, EmptySeq DEF GitBids, Expects, Bid, Request
    <3>2. Len(asked') = Len(asked) + 1 /\ asked'[Len(asked) + 1] = Bid(kind)
      BY <1>1, <3>1
    <3>3. Bids(a, l, b, asked')
      BY <1>1, <2>1, <2>2, <2>4, <3>2 DEF Bids
    <3> QED
      BY <1>1, <2>1, <2>3, <3>1, <3>2, <3>3 DEF Follows
  <2>5. CASE ~(git.mode = "command" /\ kind # "blank")
    <3>1. asked' = asked
      BY <1>5, <2>5 DEF GitBids
    <3>2. Bids(a, l, b, asked')
      BY <1>1, <1>5, <2>1, <2>2, <2>5, <3>1 DEF Bids
    <3> QED
      BY <1>1, <2>1, <2>3, <3>1, <3>2 DEF Follows
  <2> QED
    BY <2>4, <2>5
<1> QED
  BY <1>3, <1>4, <1>5 DEF GitWrites

-----------------------------------------------------------------------------
\* The snapshot the helper is at, and the moves of either end.
LEMMA TraceEnds ==
    ASSUME NEW p \in Seq(Line), NEW g, NEW now, NEW q, NEW m, Trace(g, p, now, q, m)
    PROVE  /\ g[1] \in Snapshot /\ Whole(g[1]) /\ g[1].due <= now.due /\ Whole(now)
           /\ p = <<>> => g[1] = now
           /\ g[1].mode = "bye" => p = <<>>
<1>1. g \in Seq(Snapshot) /\ Len(g) = Len(p) + 1 /\ Len(p) \in Nat /\ g[Len(g)] = now
  BY DEF Trace
<1>2. g[1] \in Snapshot /\ Whole(g[1]) /\ Whole(now)
  BY <1>1 DEF Trace
<1>3. g[1].due <= now.due
  BY <1>1 DEF Trace
<1>4. p # <<>> => g[1].mode # "bye"
  BY <1>1 DEF Trace, Follows
<1> QED
  BY <1>1, <1>2, <1>3, <1>4

LEMMA UptoTyped ==
    ASSUME TypeOK, NEW a, Upto(a)
    PROVE  /\ a \in Snapshot /\ Whole(a) /\ a.due <= Len(asked)
           /\ pipe = <<>> => a = Now(git, asked)
           /\ Whole(Now(git, asked))
<1>1. PICK g : Trace(g, pipe, Now(git, asked), asked, meant) /\ g[1] = a
  BY DEF Upto
<1> QED
  BY <1>1, TraceEnds DEF TypeOK, Now

\* git writes no more after its farewell.
LEMMA AfterBye ==
    ASSUME pipe' \in Seq(Line), NEW a, Upto(a)', a.mode = "bye"
    PROVE  a = Now(git', asked')
<1>1. PICK g : Trace(g, pipe', Now(git', asked'), asked', meant') /\ g[1] = a
  BY DEF Upto, Now
<1> QED
  BY <1>1, TraceEnds

LEMMA Stays ==
    ASSUME NEW a, Upto(a), UNCHANGED <<pipe, git, asked, meant>>
    PROVE  Upto(a)'
BY DEF Upto, Now

LEMMA Reads ==
    ASSUME TypeOK, NEW a, Upto(a), NEW phase, Take(phase), UNCHANGED <<git, meant>>
    PROVE  \E b \in Snapshot :
              /\ Whole(b) /\ Follows(a, Next1, b, asked, meant)
              /\ asked' = asked => Upto(b)'
              /\ asked # <<>> /\ asked' = Tail(asked) /\ b.due >= 1 => Upto(Lower(b))'
<1> DEFINE now == Now(git, asked)
<1>1. PICK g : Trace(g, pipe, now, asked, meant) /\ g[1] = a
  BY DEF Upto
<1>2. /\ pipe \in Seq(Line) /\ pipe # <<>> /\ pipe' = Tail(pipe) /\ Next1 = Head(pipe)
      /\ asked \in Seq(Request)
  BY DEF TypeOK, Take, Next1
<1>3. PICK b \in Snapshot : b = g[2]
  BY <1>1, <1>2, TraceRead
<1>4. /\ Trace(Tail(g), Tail(pipe), now, asked, meant)
      /\ Whole(b) /\ Tail(g)[1] = b /\ Follows(a, Next1, b, asked, meant)
  BY <1>1, <1>2, <1>3, TraceRead
<1>5. ASSUME asked' = asked PROVE Upto(b)'
  BY <1>2, <1>4, <1>5 DEF Upto, Now
<1>6. ASSUME asked # <<>>, asked' = Tail(asked), b.due >= 1 PROVE Upto(Lower(b))'
  <2>1. /\ Trace(LowerAll(Tail(g)), Tail(pipe), Lower(now), Tail(asked), meant)
        /\ LowerAll(Tail(g))[1] = Lower(b)
    <3>1. Tail(pipe) \in Seq(Line)
      BY <1>2
    <3> HIDE DEF now
    <3> QED
      BY <1>2, <1>4, <1>6, <3>1, TraceAnswer
  <2>2. Now(git, asked)' = Lower(now)
    BY <1>2, <1>6 DEF Now, Lower
  <2> QED
    BY <1>2, <1>6, <2>1, <2>2 DEF Upto
<1> QED
  BY <1>3, <1>4, <1>5, <1>6

LEMMA Answers ==
    ASSUME TypeOK, NEW a, Upto(a), a.due >= 1, asked # <<>>, asked' = Tail(asked),
           UNCHANGED <<pipe, git, meant>>
    PROVE  Upto(Lower(a))'
<1>1. PICK g : Trace(g, pipe, Now(git, asked), asked, meant) /\ g[1] = a
  BY DEF Upto
<1>2. pipe \in Seq(Line) /\ asked \in Seq(Request)
  BY DEF TypeOK
<1>3. /\ Trace(LowerAll(g), pipe, Lower(Now(git, asked)), Tail(asked), meant)
      /\ LowerAll(g)[1] = Lower(a)
  BY <1>1, <1>2, TraceAnswer
<1>4. Now(git, asked)' = Lower(Now(git, asked))
  BY <1>2 DEF Now, Lower
<1> QED
  BY <1>3, <1>4 DEF Upto

LEMMA Writes ==
    ASSUME TypeOK, TypeOK', NEW a, Upto(a), NEW kind \in Kinds, GitWrites(kind)
    PROVE  /\ Upto(a)' /\ meant \subseteq meant'
           /\ asked' = asked \/ \E r \in Request : asked' = Append(asked, r)
<1>1. PICK g : Trace(g, pipe, Now(git, asked), asked, meant) /\ g[1] = a
  BY DEF Upto
<1>2. Whole(Now(git, asked))
  BY UptoTyped
<1>3. PICK l : l = [kind |-> kind, id |-> IF Belongs(kind) THEN git.entries + 1 ELSE 0]
  OBVIOUS
<1>4. pipe' = Append(pipe, l) /\ l \in Line
  <2>1. pipe' = Append(pipe, l)
    BY <1>3 DEF GitWrites
  <2>2. git.entries + 1 \in 0..MaxLines
    BY SessionConstants DEF SessionConstants, GitWrites, TypeOK, GitState
  <2> QED
    BY <1>3, <2>1, <2>2, SessionConstants DEF Line, SessionConstants
<1>5. /\ Follows(Now(git, asked), l, Now(git, asked)', asked', meant')
      /\ Whole(Now(git, asked)') /\ meant \subseteq meant'
      /\ Len(asked) <= Len(asked')
      /\ asked' = asked \/ \E r \in Request : asked' = Append(asked, r)
  BY <1>2, <1>3, GitFollows
<1>6. Now(git, asked)' \in Snapshot
  BY NowTyped DEF TypeOK
<1>7. PICK now2 \in Snapshot : now2 = Now(git, asked)'
  BY <1>6
<1>8. Now(git, asked).due <= now2.due
  BY <1>5, <1>7 DEF Now
<1>9. pipe \in Seq(Line) /\ asked \in Seq(Request) /\ asked' \in Seq(Request)
  BY DEF TypeOK
<1>10. Trace(Append(g, now2), Append(pipe, l), now2, asked', meant') /\ Append(g, now2)[1] = g[1]
  BY <1>1, <1>4, <1>5, <1>7, <1>8, <1>9, TraceWrite
<1>11. Upto(a)'
  BY <1>1, <1>4, <1>7, <1>10 DEF Upto
<1> QED
  BY <1>5, <1>11

-----------------------------------------------------------------------------
\* The ids of a batch.
LEMMA IdsLen ==
    ASSUME NEW lines \in Seq(Entry)
    PROVE  /\ Ids(lines) \in Seq(0..MaxLines) /\ Len(Ids(lines)) = Len(lines)
           /\ \A i \in 1..Len(lines) : Ids(lines)[i] = lines[i].id
<1>1. Ids(lines) \in Seq(0..MaxLines)
  BY IdsAreIds DEF Entry
<1>2. DOMAIN lines = 1..Len(lines) /\ Len(lines) \in Nat
  BY LenProperties
<1>3. DOMAIN Ids(lines) = 1..Len(lines) /\ \A i \in 1..Len(lines) : Ids(lines)[i] = lines[i].id
  BY <1>2, Zenon DEF Ids
<1>4. Len(Ids(lines)) = Len(lines)
  BY <1>1, <1>2, <1>3
<1> QED
  BY <1>1, <1>3, <1>4

LEMMA IdsAppend ==
    ASSUME NEW lines \in Seq(Entry), NEW e \in Entry
    PROVE  Ids(Append(lines, e)) = Append(Ids(lines), e.id)
<1> DEFINE n == Len(lines)
           s == Ids(Append(lines, e))
           t == Append(Ids(lines), e.id)
<1>1. /\ Append(lines, e) \in Seq(Entry) /\ Len(Append(lines, e)) = n + 1 /\ n \in Nat
      /\ \A i \in 1..n : Append(lines, e)[i] = lines[i]
      /\ Append(lines, e)[n + 1] = e
  OBVIOUS
<1>2. e.id \in 0..MaxLines
  BY DEF Entry
<1>3. /\ s \in Seq(0..MaxLines) /\ Len(s) = n + 1
      /\ \A i \in 1..n + 1 : s[i] = Append(lines, e)[i].id
  BY <1>1, IdsLen
<1>4. /\ Ids(lines) \in Seq(0..MaxLines) /\ Len(Ids(lines)) = n
      /\ \A i \in 1..n : Ids(lines)[i] = lines[i].id
  BY IdsLen
<1>5. t \in Seq(0..MaxLines) /\ Len(t) = n + 1
      /\ (\A i \in 1..n : t[i] = Ids(lines)[i]) /\ t[n + 1] = e.id
  BY <1>1, <1>2, <1>4
<1> HIDE DEF s, t
<1>6. \A i \in 1..n + 1 : s[i] = t[i]
  BY <1>1, <1>3, <1>4, <1>5
<1>7. s = t
  BY <1>3, <1>5, <1>6, SeqEqual
<1> QED
  BY <1>7 DEF s, t

LEMMA IdsFirst ==
    ASSUME NEW e \in Entry
    PROVE  Ids(<<e>>) = Append(<<>>, e.id)
<1>1. <<>> \in Seq(Entry) /\ <<e>> = Append(<<>>, e)
  OBVIOUS
<1>2. Ids(<<>>) = <<>>
  <2>1. Ids(<<>>) \in Seq(0..MaxLines) /\ Len(Ids(<<>>)) = 0
    BY <1>1, IdsLen
  <2> QED
    BY <2>1
<1> QED
  BY <1>1, <1>2, IdsAppend

\* A status line for the head of what is left.
LEMMA IdsDone ==
    ASSUME NEW lines \in Seq(Entry), lines # <<>>, NEW d \in Seq(0..MaxLines)
    PROVE  /\ Append(d, Head(lines).id) \o Ids(Tail(lines)) = d \o Ids(lines)
           /\ Head(lines).id \in Range(Ids(lines))
           /\ Range(Ids(Tail(lines))) \subseteq Range(Ids(lines))
<1> DEFINE n == Len(lines)
           x == Append(d, Head(lines).id)
           t == Ids(Tail(lines))
           u == Ids(lines)
<1>1. /\ n \in Nat /\ n >= 1 /\ Head(lines) = lines[1] /\ lines[1] \in Entry
      /\ Tail(lines) \in Seq(Entry) /\ Len(Tail(lines)) = n - 1
      /\ \A i \in 1..n - 1 : Tail(lines)[i] = lines[i + 1]
  OBVIOUS
<1>2. u \in Seq(0..MaxLines) /\ Len(u) = n /\ \A i \in 1..n : u[i] = lines[i].id
  BY IdsLen
<1>3. t \in Seq(0..MaxLines) /\ Len(t) = n - 1 /\ \A i \in 1..n - 1 : t[i] = u[i + 1]
  <2>1. /\ t \in Seq(0..MaxLines) /\ Len(t) = Len(Tail(lines))
        /\ \A i \in 1..Len(Tail(lines)) : t[i] = Tail(lines)[i].id
    BY <1>1, IdsLen, Zenon
  <2>2. \A i \in 1..n - 1 : i + 1 \in 1..n /\ i \in 1..Len(Tail(lines))
    BY <1>1
  <2>3. \A i \in 1..n - 1 : t[i] = u[i + 1]
    BY <1>1, <1>2, <2>1, <2>2, Zenon
  <2> QED
    BY <1>1, <2>1, <2>3
<1>4. Head(lines).id \in 0..MaxLines
  BY <1>1 DEF Entry
<1>5. /\ x \in Seq(0..MaxLines) /\ Len(d) \in Nat /\ Len(x) = Len(d) + 1
      /\ (\A i \in 1..Len(d) : x[i] = d[i]) /\ x[Len(d) + 1] = u[1]
  BY <1>1, <1>2, <1>4
<1> HIDE DEF x, t, u
<1>6. /\ x \o t \in Seq(0..MaxLines) /\ Len(x \o t) = Len(d) + n
      /\ \A i \in 1..Len(d) + n : (x \o t)[i] = IF i <= Len(x) THEN x[i] ELSE t[i - Len(x)]
  <2>1. /\ x \o t \in Seq(0..MaxLines) /\ Len(x \o t) = Len(x) + Len(t)
        /\ \A i \in 1..Len(x) + Len(t) : (x \o t)[i] = IF i <= Len(x) THEN x[i] ELSE t[i - Len(x)]
    BY <1>3, <1>5, ConcatProperties, Zenon
  <2>2. Len(x) + Len(t) = Len(d) + n
    BY <1>1, <1>3, <1>5
  <2> QED
    BY <2>1, <2>2, Zenon
<1>7. /\ d \o u \in Seq(0..MaxLines) /\ Len(d \o u) = Len(d) + n
      /\ \A i \in 1..Len(d) + n : (d \o u)[i] = IF i <= Len(d) THEN d[i] ELSE u[i - Len(d)]
  <2>1. /\ d \o u \in Seq(0..MaxLines) /\ Len(d \o u) = Len(d) + Len(u)
        /\ \A i \in 1..Len(d) + Len(u) : (d \o u)[i] = IF i <= Len(d) THEN d[i] ELSE u[i - Len(d)]
    BY <1>2, ConcatProperties, Zenon
  <2>2. Len(u) = n
    BY <1>2
  <2> QED
    BY <2>1, <2>2, Zenon
<1>8. ASSUME NEW i \in 1..Len(d) + n PROVE (x \o t)[i] = (d \o u)[i]
  <2>1. CASE i <= Len(d)
    BY <1>5, <1>6, <1>7, <2>1
  <2>2. CASE i = Len(d) + 1
    BY <1>1, <1>5, <1>6, <1>7, <2>2
  <2>3. CASE i > Len(d) + 1
    <3>1. i - Len(x) \in 1..n - 1 /\ (i - Len(x)) + 1 = i - Len(d)
      BY <1>1, <1>5, <2>3
    <3>2. t[i - Len(x)] = u[i - Len(d)]
      BY <1>3, <3>1
    <3>3. ~(i <= Len(x)) /\ ~(i <= Len(d))
      BY <1>1, <1>5, <2>3
    <3>4. (x \o t)[i] = t[i - Len(x)]
      BY <1>6, <3>3, Zenon
    <3>5. (d \o u)[i] = u[i - Len(d)]
      BY <1>7, <3>3, Zenon
    <3> QED
      BY <3>2, <3>4, <3>5, Zenon
  <2>4. i <= Len(d) \/ i = Len(d) + 1 \/ i > Len(d) + 1
    BY <1>1, <1>5
  <2> QED
    BY <2>1, <2>2, <2>3, <2>4, Zenon
<1>9. x \o t = d \o u
  BY <1>6, <1>7, <1>8, SeqEqual
<1>10. DOMAIN u = 1..n /\ DOMAIN t = 1..n - 1
  BY <1>2, <1>3, LenProperties
<1>11. u[1] \in Range(u)
  BY <1>1, <1>10 DEF Range
<1>12. Range(t) \subseteq Range(u)
  BY <1>1, <1>3, <1>10 DEF Range
<1>13. Head(lines).id = u[1]
  BY <1>1, <1>2
<1> QED
  BY <1>9, <1>11, <1>12, <1>13 DEF x, t, u

\* All the lines of a batch are push lines.
AllPush(lines) == \A i \in 1..Len(lines) : lines[i].kind = "push"

LEMMA RangeAllPush ==
    ASSUME NEW lines \in Seq(Entry)
    PROVE  (\A l \in Range(lines) : l.kind = "push") <=> AllPush(lines)
<1>1. DOMAIN lines = 1..Len(lines)
  BY LenProperties
<1> QED
  BY <1>1, Zenon DEF Range, AllPush

-----------------------------------------------------------------------------
Over == pipe = <<>> /\ input # "open"

Awaits(reply) == asked # <<>> /\ Fits(reply)

PushReply(ids) == [cmd |-> "push", ids |-> ids, vouch |-> FALSE]
FetchReply(ids) == [cmd |-> "fetch", ids |-> ids, vouch |-> opts.check]

\* The helper is where git was in a, and has one request to answer while it is
\* at work on it.  Only a fetch that git broke off is served without a request.
Agrees(a) ==
    /\ pc \notin {"release", "hung", "gone"} => /\ code = "running"
                                                /\ opts.poisoned <=> a.poison
                                                /\ opts.check <=> a.check
    /\ pc = "command" => a.due = 0 /\ (a.mode = "command" \/ (Over /\ a.mode = "fetch"))
    /\ pc = "batch" => /\ a.due = 0 /\ a.mode = "push" /\ a.batch = Ids(batch)
                       /\ a.sound <=> AllPush(batch)
    /\ pc = "fetching" => a.due = 0 /\ a.mode = "fetch" /\ a.batch = Ids(batch)
    /\ pc \in {"survey", "prepare", "lock", "scan", "check", "rescan", "push"}
          => a.due = 1 /\ a.mode = "command"
    /\ pc = "survey" => Awaits(Bid("list"))
    /\ pc \in {"prepare", "lock", "scan", "check"} => Awaits(Bid("listForPush"))
    /\ pc = "rescan" => Awaits(PushReply(Ids(batch)))
    /\ pc = "push" => Awaits(PushReply(done \o Ids(batch)))
    /\ pc \in {"rescan", "push"} => Range(Ids(batch)) \subseteq meant
    /\ pc = "fetch" => \/ Over /\ a.mode = "fetch" /\ a.due = 0
                       \/ a.mode = "command" /\ a.due = 1 /\ Awaits(FetchReply(Ids(batch)))

\* The helper and git are in step.
InStep == \E a : Upto(a) /\ Agrees(a)

\* What git is owed holds, whatever the next step of either is.
Owed == InStep /\ AnswersFit /\ OnlyWhatGitMeant /\ HonestExit

LEMMA AnswerAwaited ==
    ASSUME NEW reply, Awaits(reply), Answer(reply)
    PROVE  /\ unfit' = unfit /\ asked # <<>> /\ asked' = Tail(asked) /\ pc' = "command"
           /\ batch' = <<>> /\ done' = <<>>
BY DEF Awaits, Answer

\* The helper is ready for the next command.
LEMMA ReadyAgain ==
    ASSUME NEW a, pc' = "command", code' = "running",
           opts'.poisoned <=> a.poison, opts'.check <=> a.check,
           a.due = 0, a.mode = "command" \/ (Over' /\ a.mode = "fetch")
    PROVE  Agrees(a)'
BY DEF Agrees

LEMMA Leaving ==
    ASSUME NEW a, NEW how, Exit(how)
    PROVE  Agrees(a)' /\ code' = how /\ UNCHANGED <<unfit, asked>>
BY DEF Agrees, Exit, Goto

-----------------------------------------------------------------------------
\* Every step keeps the helper and git in step, answers fit, and success true.
\* What such a step leaves: a is where git was, for the helper, after it.
Good(a) == Upto(a)' /\ Agrees(a)' /\ unfit' = unfit /\ HonestExit'

LEMMA GoodExit ==
    ASSUME NEW a, Upto(a)', Exit("failure")
    PROVE  Good(a)
BY Leaving DEF Good, HonestExit

\* What a line does to git, by the kind of line and where git was.
LEMMA FollowsBid ==
    ASSUME NEW a, NEW l, NEW b, NEW q, NEW m, Follows(a, l, b, q, m),
           a.mode = "command", l.kind \notin Begins \cup {"blank"}
    PROVE  /\ b.mode = "command" /\ b.due = a.due + 1
           /\ b.due <= Len(q) /\ q[b.due] = Bid(l.kind)
           /\ b.poison <=> a.poison \/ l.kind = "poison"
           /\ b.check <=> (a.check /\ l.kind # "checkOff") \/ l.kind = "checkOn"
BY DEF Follows, Adds, Ends, Bids, Within

LEMMA FollowsBye ==
    ASSUME NEW a, NEW l, NEW b, NEW q, NEW m, Follows(a, l, b, q, m),
           a.mode = "command", l.kind = "blank"
    PROVE  b.mode = "bye" /\ b.due = a.due
BY DEF Follows, Adds, Ends, Bids, Within, Begins

LEMMA FollowsBegin ==
    ASSUME NEW a, NEW l, NEW b, NEW q, NEW m, Follows(a, l, b, q, m),
           a.mode = "command", a.batch = <<>>, l.kind \in Begins
    PROVE  /\ b.mode = IF l.kind \in {"push", "badPush"} THEN "push" ELSE "fetch"
           /\ b.batch = Append(<<>>, l.id) /\ b.due = a.due
           /\ b.sound <=> l.kind = b.mode
           /\ b.poison <=> a.poison
           /\ b.check <=> a.check
BY DEF Follows, Adds, Ends, Bids, Within, Begins

LEMMA FollowsMore ==
    ASSUME NEW a, NEW l, NEW b, NEW q, NEW m, Follows(a, l, b, q, m),
           a.mode \in {"push", "fetch"}, a.batch # <<>>, Within(a.mode, l.kind)
    PROVE  /\ b.mode = a.mode /\ b.batch = Append(a.batch, l.id) /\ b.due = a.due
           /\ b.sound <=> a.sound /\ l.kind = a.mode
           /\ b.poison <=> a.poison
           /\ b.check <=> a.check
BY DEF Follows, Adds, Ends, Bids, Within

LEMMA FollowsOption ==
    ASSUME NEW a \in Snapshot, NEW l, NEW b \in Snapshot, NEW q, NEW m, Follows(a, l, b, q, m),
           a.mode = "push", l.kind \in Options
    PROVE  /\ b.mode = a.mode /\ b.batch = a.batch /\ b.due = a.due
           /\ b.sound <=> a.sound
           /\ b.poison <=> a.poison \/ l.kind = "poison"
           /\ b.check <=> a.check
BY DEF Follows, Adds, Ends, Bids, Within, Options

LEMMA FollowsEnd ==
    ASSUME NEW a, NEW l, NEW b, NEW q, NEW m, Follows(a, l, b, q, m),
           a.mode \in {"push", "fetch"}, l.kind = "blank"
    PROVE  /\ b.mode = "command" /\ b.due = a.due + 1 /\ b.due <= Len(q)
           /\ q[b.due].cmd = a.mode /\ q[b.due].ids = a.batch
           /\ q[b.due].vouch <=> a.mode = "fetch" /\ a.check
           /\ a.mode = "push" /\ a.sound /\ ~a.poison => Range(a.batch) \subseteq m
           /\ b.poison <=> a.poison
           /\ b.check <=> a.check
BY DEF Follows, Adds, Ends, Bids, Within

LEMMA OptsSet ==
    ASSUME NEW o \in [poisoned : BOOLEAN, check : BOOLEAN], NEW x \in BOOLEAN
    PROVE  /\ [o EXCEPT !.check = x].check = x /\ [o EXCEPT !.check = x].poisoned = o.poisoned
           /\ [o EXCEPT !.poisoned = @ \/ x].check = o.check
           /\ [o EXCEPT !.poisoned = @ \/ x].poisoned = (o.poisoned \/ x)
OBVIOUS

\* Reading a command that is answered at once.
LEMMA ReadAnswered ==
    ASSUME TypeOK, HonestExit, NEW a, Upto(a), Agrees(a),
           ReadOption \/ ReadCapabilities
    PROVE  \E b : Good(b)
<1>0. PICK k \in Kinds : k = Next1.kind
  BY TakeTyped DEF ReadOption, ReadCapabilities, Line
<1>1. /\ Take("command") /\ pc = "command" /\ pipe # <<>> /\ k \in Options \cup {"capabilities"}
      /\ Answer(Bid(k)) /\ UNCHANGED <<git, meant, input, code>>
      /\ ReadOption \/ opts' = opts
      /\ k # "capabilities" \/ opts' = opts
  BY <1>0 DEF ReadOption, ReadCapabilities, Take, KeepForRead, gitVars, Options
<1>2. PICK b \in Snapshot :
         /\ Whole(b) /\ Follows(a, Next1, b, asked, meant)
         /\ asked # <<>> /\ asked' = Tail(asked) /\ b.due >= 1 => Upto(Lower(b))'
  BY <1>1, Reads
<1>3. a \in Snapshot /\ a.due = 0 /\ a.mode = "command" /\ code = "running"
      /\ (opts.poisoned <=> a.poison) /\ (opts.check <=> a.check)
  BY <1>1, UptoTyped DEF Agrees, Over
<1>4. /\ b.mode = "command" /\ b.due = 1 /\ 1 <= Len(asked) /\ asked[1] = Bid(k)
      /\ b.poison <=> (a.poison \/ k = "poison")
      /\ b.check <=> ((a.check /\ k # "checkOff") \/ k = "checkOn")
  <2>1. k \notin Begins \cup {"blank"}
    BY <1>1 DEF Begins, Options
  <2> QED
    BY <1>0, <1>2, <1>3, <2>1, FollowsBid
<1>5. asked # <<>> /\ Head(asked) = Bid(k)
  BY <1>4 DEF TypeOK
<1>6. Awaits(Bid(k))
  BY <1>5 DEF Awaits, Fits, Bid
<1>7. unfit' = unfit /\ asked' = Tail(asked) /\ pc' = "command"
  BY <1>1, <1>6, AnswerAwaited
<1>8. Upto(Lower(b))'
  BY <1>2, <1>4, <1>5, <1>7
<1>9. (opts'.poisoned <=> b.poison) /\ (opts'.check <=> b.check)
  <2>0. opts \in [poisoned : BOOLEAN, check : BOOLEAN]
    BY DEF TypeOK
  <2>1. CASE k \in {"checkOn", "checkOff"}
    <3>0. ReadOption /\ Next1.kind = k
      BY <1>0, <2>1 DEF ReadCapabilities
    <3>1. opts' = [opts EXCEPT !.check = (k = "checkOn")]
      BY <2>1, <3>0, Zenon DEF ReadOption
    <3>2. /\ opts'.check = (k = "checkOn")
          /\ opts'.poisoned = opts.poisoned
      <4>1. (k = "checkOn") \in BOOLEAN
        OBVIOUS
      <4> QED
        BY <2>0, <3>1, <4>1, OptsSet, Zenon
    <3> QED
      BY <1>3, <1>4, <2>1, <3>2
  <2>2. CASE k \in Options \ {"checkOn", "checkOff"}
    <3>0. ReadOption /\ Next1.kind = k
      BY <1>0, <2>2 DEF ReadCapabilities, Options
    <3>1. opts' = [opts EXCEPT !.poisoned = @ \/ k = "poison"]
      BY <2>2, <3>0, Zenon DEF ReadOption, Observe
    <3>2. /\ opts'.check = opts.check
          /\ opts'.poisoned = (opts.poisoned \/ k = "poison")
      <4>1. (k = "poison") \in BOOLEAN
        OBVIOUS
      <4> QED
        BY <2>0, <3>1, <4>1, OptsSet, Zenon
    <3> QED
      BY <1>3, <1>4, <2>2, <3>2
  <2>3. CASE k = "capabilities"
    BY <1>1, <1>3, <1>4, <2>3
  <2> QED
    BY <1>1, <2>1, <2>2, <2>3
<1>10. /\ Lower(b).mode = "command" /\ Lower(b).due = 0
       /\ Lower(b).poison = b.poison /\ Lower(b).check = b.check
  BY <1>4, LowerTyped
<1>11. Agrees(Lower(b))'
  BY <1>1, <1>3, <1>7, <1>9, <1>10, ReadyAgain
<1> QED
  BY <1>1, <1>3, <1>7, <1>8, <1>11 DEF Good, HonestExit

\* Reading the line that starts a command, or ends the session.
LEMMA ReadBegins ==
    ASSUME TypeOK, HonestExit, NEW a, Upto(a), Agrees(a),
           ReadList \/ ReadBatch \/ ReadEnd
    PROVE  \E b : Good(b)
<1>0. PICK k \in Kinds : k = Next1.kind
  BY TakeTyped DEF ReadList, ReadBatch, ReadEnd, Line
<1>1. /\ Take("command") /\ pc = "command" /\ pipe # <<>> /\ Next1 \in Line
      /\ UNCHANGED <<git, meant, input>> /\ opts' = opts /\ asked' = asked /\ unfit' = unfit
      /\ done' = <<>>
  BY TakeTyped DEF ReadList, ReadBatch, ReadEnd, Take, KeepForRead, gitVars, Goto, Exit
<1>2. PICK b \in Snapshot : Whole(b) /\ Follows(a, Next1, b, asked, meant) /\ Upto(b)'
  BY <1>1, Reads
<1>3. a \in Snapshot /\ Whole(a) /\ a.due = 0 /\ a.mode = "command" /\ code = "running"
      /\ (opts.poisoned <=> a.poison) /\ (opts.check <=> a.check)
  BY <1>1, UptoTyped DEF Agrees, Over
<1>4. a.batch = <<>> /\ asked \in Seq(Request)
  BY <1>3 DEF Whole, TypeOK
<1>5. CASE ReadList
  <2>1. /\ k \in {"list", "listForPush"} /\ code' = code
        /\ pc' = IF k = "list" THEN "survey" ELSE "prepare"
    BY <1>0, <1>5 DEF ReadList, Goto
  <2>2. /\ b.mode = "command" /\ b.due = 1 /\ 1 <= Len(asked) /\ asked[1] = Bid(k)
        /\ (b.poison <=> a.poison) /\ (b.check <=> a.check)
    BY <1>0, <1>2, <1>3, <2>1, FollowsBid DEF Begins
  <2>3. Awaits(Bid(k))'
    <3>1. asked # <<>> /\ Head(asked) = Bid(k)
      BY <1>4, <2>2
    <3> QED
      BY <1>1, <3>1 DEF Awaits, Fits, Bid
  <2>4. Agrees(b)'
    BY <1>1, <1>3, <2>1, <2>2, <2>3 DEF Agrees
  <2> QED
    BY <1>1, <1>2, <1>3, <2>1, <2>4 DEF Good, HonestExit
<1>6. CASE Exit("failure")
  BY <1>2, <1>6, GoodExit
<1>7. CASE k = "blank" /\ Exit("success")
  <2>1. b.mode = "bye" /\ b.due = 0
    BY <1>0, <1>2, <1>3, <1>7, FollowsBye
  <2>2. b = Now(git', asked')
    BY <1>1, <1>2, <2>1, TakeTyped, AfterBye
  <2>3. git'.mode = "bye" /\ Len(asked') = 0
    BY <2>1, <2>2 DEF Now
  <2>4. asked' = <<>>
    BY <1>1, <1>4, <2>3
  <2> QED
    BY <1>2, <1>7, <2>3, <2>4, Leaving DEF Good, HonestExit
<1>8. CASE ReadBatch /\ k \in {"push", "badPush"} /\ lock
  <2>1. pc' = "batch" /\ batch' = <<Next1>> /\ code' = code
    BY <1>0, <1>8 DEF ReadBatch, Goto
  <2>2. /\ b.mode = "push" /\ b.due = 0 /\ b.batch = Append(<<>>, Next1.id)
        /\ b.sound <=> k = "push"
        /\ (b.poison <=> a.poison) /\ (b.check <=> a.check)
    BY <1>0, <1>2, <1>3, <1>4, <1>8, FollowsBegin DEF Begins
  <2>3. Next1 \in Entry
    BY <1>0, <1>1, <1>8 DEF Line, Entry, Options
  <2>4. Ids(batch') = b.batch
    BY <2>1, <2>2, <2>3, IdsFirst
  <2>5. AllPush(batch') <=> k = "push"
    BY <1>0, <2>1 DEF AllPush
  <2>6. Agrees(b)'
    BY <1>1, <1>3, <2>1, <2>2, <2>4, <2>5 DEF Agrees
  <2> QED
    BY <1>1, <1>2, <1>3, <2>1, <2>6 DEF Good, HonestExit
<1>9. CASE ReadBatch /\ k = "fetch"
  <2>1. pc' = "fetching" /\ batch' = <<Next1>> /\ code' = code
    BY <1>0, <1>9 DEF ReadBatch, Goto
  <2>2. /\ b.mode = "fetch" /\ b.due = 0 /\ b.batch = Append(<<>>, Next1.id)
        /\ (b.poison <=> a.poison) /\ (b.check <=> a.check)
    <3>1. Next1.kind \in Begins /\ Next1.kind \notin {"push", "badPush"} /\ Next1.kind = k
      BY <1>0, <1>9 DEF Begins
    <3> QED
      BY <1>2, <1>3, <1>4, <1>9, <3>1, FollowsBegin
  <2>3. Next1 \in Entry
    BY <1>0, <1>1, <1>9 DEF Line, Entry, Options
  <2>4. Ids(batch') = b.batch
    BY <2>1, <2>2, <2>3, IdsFirst
  <2>5. Agrees(b)'
    BY <1>1, <1>3, <2>1, <2>2, <2>4 DEF Agrees
  <2> QED
    BY <1>1, <1>2, <1>3, <2>1, <2>5 DEF Good, HonestExit
<1> QED
  BY <1>0, <1>5, <1>6, <1>7, <1>8, <1>9 DEF ReadBatch, ReadEnd

LEMMA AllPushMore ==
    ASSUME NEW lines \in Seq(Entry), NEW e \in Entry
    PROVE  AllPush(Append(lines, e)) <=> AllPush(lines) /\ e.kind = "push"
<1>1. /\ Len(lines) \in Nat /\ Len(Append(lines, e)) = Len(lines) + 1
      /\ \A i \in 1..Len(lines) : Append(lines, e)[i] = lines[i]
      /\ Append(lines, e)[Len(lines) + 1] = e
  OBVIOUS
<1> QED
  BY <1>1 DEF AllPush

\* Reading on within a batch of pushes.
LEMMA ReadInBatch ==
    ASSUME TypeOK, HonestExit, NEW a, Upto(a), Agrees(a), InBatch
    PROVE  \E b : Good(b)
<1>0. PICK k \in Kinds : k = Next1.kind
  BY TakeTyped DEF InBatch, Line
<1>1. /\ Take("batch") /\ pc = "batch" /\ pc' = "batch" /\ pipe # <<>> /\ Next1 \in Line
      /\ UNCHANGED <<git, meant, input>> /\ code' = code /\ asked' = asked /\ unfit' = unfit
      /\ k # "blank"
  BY <1>0, TakeTyped DEF InBatch, Take, KeepForRead, gitVars, Goto
<1>2. PICK b \in Snapshot : Whole(b) /\ Follows(a, Next1, b, asked, meant) /\ Upto(b)'
  BY <1>1, Reads
<1>3. /\ a \in Snapshot /\ Whole(a) /\ a.due = 0 /\ a.mode = "push" /\ a.batch = Ids(batch)
      /\ code = "running"
      /\ (opts.poisoned <=> a.poison) /\ (opts.check <=> a.check) /\ (a.sound <=> AllPush(batch))
  BY <1>1, UptoTyped DEF Agrees
<1>4. a.batch # <<>> /\ batch \in Seq(Entry) /\ opts \in [poisoned : BOOLEAN, check : BOOLEAN]
  BY <1>3 DEF Whole, TypeOK
<1>5. CASE k \in Options
  <2>1. batch' = batch
    BY <1>0, <1>5 DEF InBatch
  <2>2. opts' = [opts EXCEPT !.poisoned = @ \/ k = "poison"]
    BY <1>0, <1>5, Zenon DEF InBatch, Observe
  <2>3. /\ opts'.check = opts.check
        /\ opts'.poisoned = (opts.poisoned \/ k = "poison")
    <3>1. (k = "poison") \in BOOLEAN
      OBVIOUS
    <3> QED
      BY <1>4, <2>2, <3>1, OptsSet, Zenon
  <2>4. /\ b.mode = "push" /\ b.batch = a.batch /\ b.due = 0
        /\ b.sound <=> a.sound
        /\ b.poison <=> (a.poison \/ k = "poison")
        /\ b.check <=> a.check
    BY <1>0, <1>2, <1>3, <1>5, FollowsOption
  <2>5. Agrees(b)'
    BY <1>1, <1>3, <2>1, <2>3, <2>4 DEF Agrees
  <2> QED
    BY <1>1, <1>2, <1>3, <2>5 DEF Good, HonestExit
<1>6. CASE k \notin Options
  <2>1. batch' = Append(batch, Next1) /\ opts' = opts
    BY <1>0, <1>6 DEF InBatch
  <2>2. Within(a.mode, Next1.kind)
    BY <1>0, <1>1, <1>3, <1>6 DEF Within
  <2>3. /\ b.mode = "push" /\ b.batch = Append(a.batch, Next1.id) /\ b.due = 0
        /\ b.sound <=> (a.sound /\ Next1.kind = "push")
        /\ b.poison <=> a.poison
        /\ b.check <=> a.check
    BY <1>2, <1>3, <1>4, <2>2, FollowsMore
  <2>4. Next1 \in Entry
    BY <1>0, <1>1, <1>6 DEF Line, Entry
  <2>5. Ids(batch') = b.batch
    BY <1>3, <1>4, <2>1, <2>3, <2>4, IdsAppend
  <2>6. AllPush(batch') <=> b.sound
    BY <1>3, <1>4, <2>1, <2>3, <2>4, AllPushMore
  <2>7. Agrees(b)'
    BY <1>1, <1>3, <2>1, <2>3, <2>5, <2>6 DEF Agrees
  <2> QED
    BY <1>1, <1>2, <1>3, <2>7 DEF Good, HonestExit
<1> QED
  BY <1>5, <1>6

\* Reading on within a batch of fetches.
LEMMA ReadInFetch ==
    ASSUME TypeOK, HonestExit, NEW a, Upto(a), Agrees(a), InFetch
    PROVE  \E b : Good(b)
<1>0. PICK k \in Kinds : k = Next1.kind
  BY TakeTyped DEF InFetch, Line
<1>1. /\ Take("fetching") /\ pc = "fetching" /\ pipe # <<>> /\ Next1 \in Line
      /\ UNCHANGED <<git, meant, input>> /\ opts' = opts /\ asked' = asked /\ unfit' = unfit
  BY TakeTyped DEF InFetch, Take, KeepForRead, gitVars, Goto, Exit
<1>2. PICK b \in Snapshot : Whole(b) /\ Follows(a, Next1, b, asked, meant) /\ Upto(b)'
  BY <1>1, Reads
<1>3. /\ a \in Snapshot /\ Whole(a) /\ a.due = 0 /\ a.mode = "fetch" /\ a.batch = Ids(batch)
      /\ code = "running"
      /\ (opts.poisoned <=> a.poison) /\ (opts.check <=> a.check)
  BY <1>1, UptoTyped DEF Agrees
<1>4. a.batch # <<>> /\ batch \in Seq(Entry) /\ asked \in Seq(Request)
  BY <1>3 DEF Whole, TypeOK
<1>5. CASE k = "fetch"
  <2>1. batch' = Append(batch, Next1) /\ pc' = "fetching" /\ code' = code
    BY <1>0, <1>5 DEF InFetch, Goto
  <2>2. Within(a.mode, Next1.kind)
    BY <1>0, <1>3, <1>5 DEF Within
  <2>3. /\ b.mode = "fetch" /\ b.batch = Append(a.batch, Next1.id) /\ b.due = 0
        /\ b.poison <=> a.poison
        /\ b.check <=> a.check
    BY <1>2, <1>3, <1>4, <2>2, FollowsMore
  <2>4. Next1 \in Entry
    BY <1>0, <1>1, <1>5 DEF Line, Entry, Options
  <2>5. Ids(batch') = b.batch
    BY <1>3, <1>4, <2>1, <2>3, <2>4, IdsAppend
  <2>6. Agrees(b)'
    BY <1>1, <1>3, <2>1, <2>3, <2>5 DEF Agrees
  <2> QED
    BY <1>1, <1>2, <1>3, <2>1, <2>6 DEF Good, HonestExit
<1>6. CASE k = "blank"
  <2>1. batch' = batch /\ pc' = "fetch" /\ code' = code
    BY <1>0, <1>6 DEF InFetch, Goto
  <2>2. /\ b.mode = "command" /\ b.due = 1 /\ 1 <= Len(asked)
        /\ asked[1].cmd = "fetch" /\ asked[1].ids = a.batch
        /\ asked[1].vouch <=> a.check
        /\ b.poison <=> a.poison
        /\ b.check <=> a.check
    <3>1. Next1.kind = "blank" /\ a.mode \in {"push", "fetch"} /\ b.due \in Nat
      BY <1>0, <1>2, <1>3, <1>6 DEF Snapshot
    <3> QED
      BY <1>2, <1>3, <3>1, FollowsEnd
  <2>3. asked # <<>> /\ Head(asked) = asked[1]
    BY <1>4, <2>2
  <2>4. /\ FetchReply(Ids(batch))'.cmd = Head(asked)'.cmd
        /\ FetchReply(Ids(batch))'.ids = Head(asked)'.ids
        /\ FetchReply(Ids(batch))'.vouch => Head(asked)'.vouch
    BY <1>1, <1>3, <2>1, <2>2, <2>3 DEF FetchReply
  <2>5. Awaits(FetchReply(Ids(batch)))'
    BY <1>1, <2>3, <2>4 DEF Awaits, Fits
  <2>6. Agrees(b)'
    BY <1>1, <1>3, <2>1, <2>2, <2>5 DEF Agrees
  <2> QED
    BY <1>1, <1>2, <1>3, <2>1, <2>6 DEF Good, HonestExit
<1>7. CASE Exit("failure")
  BY <1>2, <1>7, GoodExit
<1> QED
  BY <1>0, <1>5, <1>6, <1>7 DEF InFetch

\* The blank line at the end of a batch of pushes.
LEMMA ReadBatchEnds ==
    ASSUME TypeOK, HonestExit, NEW a, Upto(a), Agrees(a), BatchEnds
    PROVE  \E b : Good(b)
<1>1. /\ Take("batch") /\ pc = "batch" /\ pipe # <<>> /\ Next1 \in Line /\ Next1.kind = "blank"
      /\ UNCHANGED <<git, meant, input>> /\ opts' = opts
  BY TakeTyped DEF BatchEnds, Take, KeepForRead, gitVars
<1>2. PICK b \in Snapshot :
         /\ Whole(b) /\ Follows(a, Next1, b, asked, meant)
         /\ asked' = asked => Upto(b)'
         /\ asked # <<>> /\ asked' = Tail(asked) /\ b.due >= 1 => Upto(Lower(b))'
  BY <1>1, Reads
<1>3. /\ a \in Snapshot /\ Whole(a) /\ a.due = 0 /\ a.mode = "push" /\ a.batch = Ids(batch)
      /\ code = "running"
      /\ (opts.poisoned <=> a.poison) /\ (opts.check <=> a.check) /\ (a.sound <=> AllPush(batch))
  BY <1>1, UptoTyped DEF Agrees
<1>4. batch \in Seq(Entry) /\ asked \in Seq(Request)
  BY DEF TypeOK
<1>5. /\ b.mode = "command" /\ b.due = 1 /\ 1 <= Len(asked)
      /\ asked[1].cmd = "push" /\ asked[1].ids = Ids(batch)
      /\ a.sound /\ ~a.poison => Range(Ids(batch)) \subseteq meant
      /\ b.poison <=> a.poison
      /\ b.check <=> a.check
  BY <1>1, <1>2, <1>3, FollowsEnd
<1>6. asked # <<>> /\ Head(asked) = asked[1]
  BY <1>4, <1>5
<1>7. /\ PushReply(Ids(batch)).cmd = "push" /\ PushReply(Ids(batch)).ids = Ids(batch)
      /\ ~PushReply(Ids(batch)).vouch
  BY DEF PushReply
<1>8. CASE Exit("failure")
  <2>1. Upto(b)'
    BY <1>2, <1>8, Leaving
  <2> QED
    BY <1>8, <2>1, GoodExit
<1>9. CASE opts.poisoned /\ AnswerPush(Ids(batch)) /\ code' = code
  <2>1. Awaits(PushReply(Ids(batch)))
    BY <1>5, <1>6, <1>7 DEF Awaits, Fits
  <2>2. unfit' = unfit /\ asked' = Tail(asked) /\ pc' = "command"
    BY <1>9, <2>1, AnswerAwaited DEF AnswerPush, PushReply
  <2>3. Upto(Lower(b))'
    BY <1>2, <1>5, <1>6, <2>2
  <2>4. /\ Lower(b).mode = "command" /\ Lower(b).due = 0
        /\ Lower(b).poison = b.poison /\ Lower(b).check = b.check
    BY <1>5, LowerTyped
  <2>5. Agrees(Lower(b))'
    BY <1>1, <1>3, <1>5, <1>9, <2>2, <2>4, ReadyAgain
  <2> QED
    BY <1>3, <1>9, <2>2, <2>3, <2>5 DEF Good, HonestExit
<1>10. CASE /\ \A l \in Range(batch) : l.kind = "push"
            /\ ~opts.poisoned /\ Goto("rescan") /\ batch' = batch /\ code' = code
  <2>1. asked' = asked /\ unfit' = unfit /\ pc' = "rescan"
    BY <1>10 DEF Goto
  <2>2. AllPush(batch)
    BY <1>4, <1>10, RangeAllPush
  <2>3. Range(Ids(batch))' \subseteq meant'
    BY <1>1, <1>3, <1>5, <1>10, <2>2
  <2>4. Awaits(PushReply(Ids(batch)))'
    <3>1. /\ PushReply(Ids(batch))'.cmd = Head(asked)'.cmd
          /\ PushReply(Ids(batch))'.ids = Head(asked)'.ids
          /\ ~PushReply(Ids(batch))'.vouch
      BY <1>5, <1>6, <1>10, <2>1 DEF PushReply
    <3> QED
      BY <1>6, <2>1, <3>1 DEF Awaits, Fits
  <2>5. Agrees(b)'
    BY <1>1, <1>3, <1>5, <1>10, <2>1, <2>3, <2>4 DEF Agrees
  <2>6. Upto(b)'
    BY <1>2, <2>1
  <2> QED
    BY <1>3, <1>10, <2>1, <2>5, <2>6 DEF Good, HonestExit
<1> QED
  BY <1>8, <1>9, <1>10 DEF BatchEnds

\* The pipe is empty and will stay so.
LEMMA ReadNothing ==
    ASSUME TypeOK, HonestExit, NEW a, Upto(a), Agrees(a), EndOfInput
    PROVE  \E b : Good(b)
<1>1. /\ Over /\ Over'
      /\ UNCHANGED <<pipe, input, git, meant>> /\ opts' = opts /\ batch' = batch
      /\ asked' = asked /\ unfit' = unfit
  BY DEF EndOfInput, Over, KeepForRead, gitVars, Goto, Exit
<1>2. Upto(a)' /\ a = Now(git, asked) /\ asked \in Seq(Request)
  BY <1>1, Stays, UptoTyped DEF Over, TypeOK
<1>3. CASE Exit("failure")
  BY <1>2, <1>3, GoodExit
<1>4. CASE pc = "command" /\ input = "eof" /\ Exit("success")
  <2>1. a.due = 0 /\ a.mode \in {"command", "fetch"}
    BY <1>4 DEF Agrees
  <2>2. git.mode # "push" /\ Len(asked) = 0
    BY <1>2, <2>1 DEF Now
  <2>3. asked = <<>>
    BY <1>2, <2>2
  <2>4. asked' = <<>> /\ git'.mode # "push" /\ input' = "eof"
    BY <1>1, <1>4, <2>2, <2>3
  <2> QED
    BY <1>2, <1>4, <2>4, Leaving DEF Good, HonestExit
<1>5. CASE pc = "fetching" /\ Goto("fetch") /\ code' = code
  <2>1. pc' = "fetch" /\ a.due = 0 /\ a.mode = "fetch" /\ code = "running"
        /\ (opts.poisoned <=> a.poison) /\ (opts.check <=> a.check)
    BY <1>5 DEF Agrees, Goto
  <2>2. Agrees(a)'
    BY <1>1, <1>5, <2>1 DEF Agrees
  <2> QED
    BY <1>1, <1>2, <1>5, <2>1, <2>2 DEF Good, HonestExit
<1> QED
  BY <1>3, <1>4, <1>5 DEF EndOfInput

-----------------------------------------------------------------------------
\* The calls, which leave the pipe and git alone.
LEMMA CallKeeps ==
    ASSUME TypeOK, NEW a, Upto(a), KeepForCall
    PROVE  /\ a \in Snapshot /\ asked \in Seq(Request) /\ a.due <= Len(asked)
           /\ UNCHANGED <<pipe, opts, input, git, meant>>
           /\ asked' = asked => Upto(a)'
BY UptoTyped, Stays DEF KeepForCall, gitVars, TypeOK

\* A call after which the one request the helper is at work on is answered.
LEMMA CallAnswers ==
    ASSUME TypeOK, HonestExit, NEW a, Upto(a), Agrees(a), KeepForCall, code' = code,
           pc \notin {"release", "hung", "gone"}, a.due = 1, a.mode = "command",
           NEW reply, Awaits(reply), Answer(reply)
    PROVE  Good(Lower(a))
<1>1. /\ unfit' = unfit /\ asked # <<>> /\ asked' = Tail(asked) /\ pc' = "command"
  BY AnswerAwaited
<1>2. /\ a \in Snapshot /\ UNCHANGED <<pipe, opts, input, git, meant>>
  BY CallKeeps
<1>3. Upto(Lower(a))'
  BY <1>1, <1>2, Answers
<1>4. /\ code = "running"
      /\ (opts.poisoned <=> a.poison) /\ (opts.check <=> a.check)
  BY DEF Agrees
<1>5. /\ Lower(a).mode = "command" /\ Lower(a).due = 0
      /\ Lower(a).poison = a.poison /\ Lower(a).check = a.check
  BY <1>2, LowerTyped
<1>6. Agrees(Lower(a))'
  BY <1>2, <1>4, <1>5, <1>1, ReadyAgain
<1> QED
  BY <1>1, <1>3, <1>4, <1>6 DEF Good, HonestExit

\* A call after which the helper is still at work on it.
LEMMA CallGoesOn ==
    ASSUME TypeOK, HonestExit, NEW a, Upto(a), Agrees(a), KeepForCall, code' = code,
           pc \in {"prepare", "lock", "scan"}, NEW phase \in {"lock", "scan", "check"},
           Goto(phase)
    PROVE  Good(a)
<1>1. /\ Upto(a)' /\ UNCHANGED <<opts, input>> /\ asked' = asked /\ unfit' = unfit /\ pc' = phase
  BY CallKeeps DEF Goto
<1>2. /\ code = "running" /\ a.due = 1 /\ a.mode = "command" /\ Awaits(Bid("listForPush"))
      /\ (opts.poisoned <=> a.poison) /\ (opts.check <=> a.check)
  BY DEF Agrees
<1>3. Awaits(Bid("listForPush"))'
  BY <1>1, <1>2 DEF Awaits, Fits
<1>4. Agrees(a)'
  BY <1>1, <1>2, <1>3 DEF Agrees
<1> QED
  BY <1>1, <1>2, <1>4 DEF Good, HonestExit

LEMMA CallFails ==
    ASSUME TypeOK, NEW a, Upto(a), KeepForCall, Exit("failure")
    PROVE  Good(a)
<1>1. Upto(a)'
  BY CallKeeps, Leaving
<1> QED
  BY <1>1, GoodExit

\* The calls made for a list.
LEMMA CallsForList ==
    ASSUME TypeOK, HonestExit, NEW a, Upto(a), Agrees(a),
           Survey \/ Prepare \/ AcquireLock \/ ScanForPush \/ TellRefs
    PROVE  (\E b : Good(b)) /\ applied' = applied
<1>1. KeepForCall /\ applied' = applied
  BY DEF Survey, Prepare, AcquireLock, ScanForPush, TellRefs, remoteVars
<1>2. CASE Exit("failure")
  BY <1>1, <1>2, CallFails
<1>3. CASE pc = "survey" /\ Answer(Bid("list")) /\ code' = code
  <2>1. a.due = 1 /\ a.mode = "command" /\ Awaits(Bid("list"))
    BY <1>3 DEF Agrees
  <2> QED
    BY <1>1, <1>3, <2>1, CallAnswers
<1>4. CASE pc = "check" /\ Answer(Bid("listForPush")) /\ code' = code
  <2>1. a.due = 1 /\ a.mode = "command" /\ Awaits(Bid("listForPush"))
    BY <1>4 DEF Agrees
  <2> QED
    BY <1>1, <1>4, <2>1, CallAnswers
<1>5. CASE /\ pc \in {"prepare", "lock", "scan"} /\ code' = code
           /\ \E phase \in {"lock", "scan", "check"} : Goto(phase)
  BY <1>1, <1>5, CallGoesOn
<1> QED
  BY <1>1, <1>2, <1>3, <1>4, <1>5 DEF Survey, Prepare, AcquireLock, ScanForPush, TellRefs

\* The calls made for a batch, those that change no ref.
LEMMA CallsForBatch ==
    ASSUME TypeOK, HonestExit, NEW a, Upto(a), Agrees(a), Rescan \/ TellStatus \/ FetchAll
    PROVE  (\E b : Good(b)) /\ applied' = applied
<1>1. KeepForCall /\ applied' = applied /\ batch \in Seq(Entry) /\ done \in Seq(0..MaxLines)
  BY DEF Rescan, TellStatus, FetchAll, remoteVars, TypeOK
<1>2. CASE Exit("failure")
  BY <1>1, <1>2, CallFails
<1>3. Ids(batch) \in Seq(0..MaxLines)
  BY <1>1, IdsLen
<1>4. CASE pc = "rescan" /\ AnswerPush(Ids(batch)) /\ code' = code
  <2>1. a.due = 1 /\ a.mode = "command" /\ Awaits(PushReply(Ids(batch)))
    BY <1>4 DEF Agrees
  <2>2. Answer(PushReply(Ids(batch)))
    BY <1>4 DEF AnswerPush, PushReply
  <2> QED
    BY <1>1, <1>4, <2>1, <2>2, CallAnswers
<1>5. CASE pc = "rescan" /\ Goto("push") /\ batch' = batch /\ code' = code /\ done' = <<>>
  <2>1. /\ code = "running" /\ a.due = 1 /\ a.mode = "command" /\ Awaits(PushReply(Ids(batch)))
        /\ (opts.poisoned <=> a.poison) /\ (opts.check <=> a.check)
        /\ Range(Ids(batch)) \subseteq meant
    BY <1>5 DEF Agrees
  <2>2. /\ Upto(a)' /\ UNCHANGED <<opts, input, meant>> /\ asked' = asked /\ unfit' = unfit
        /\ pc' = "push"
    BY <1>1, <1>5, CallKeeps DEF Goto
  <2>3. <<>> \o Ids(batch) = Ids(batch)
    BY <1>3
  <2>4. (done \o Ids(batch))' = Ids(batch)
    BY <1>5, <2>3
  <2>5. PushReply(done \o Ids(batch))' = PushReply(Ids(batch))
    BY <1>5, <2>3 DEF PushReply
  <2>6. Awaits(PushReply(done \o Ids(batch)))'
    BY <2>1, <2>2, <2>5 DEF Awaits, Fits
  <2>7. Agrees(a)'
    BY <1>5, <2>1, <2>2, <2>6 DEF Agrees
  <2> QED
    BY <1>1, <1>5, <2>1, <2>2, <2>7 DEF Good, HonestExit
<1>6. CASE pc = "push" /\ batch = <<>> /\ AnswerPush(done) /\ code' = code
  <2>1. a.due = 1 /\ a.mode = "command" /\ Awaits(PushReply(done \o Ids(batch)))
    BY <1>6 DEF Agrees
  <2>2. Ids(batch) = <<>>
    <3>1. Len(Ids(batch)) = Len(batch) /\ Len(batch) = 0
      BY <1>1, <1>6, IdsLen
    <3> QED
      BY <1>3, <3>1
  <2>3. done \o Ids(batch) = done
    BY <1>1, <2>2
  <2>4. Awaits(PushReply(done))
    BY <2>1, <2>3
  <2>5. Answer(PushReply(done))
    BY <1>6 DEF AnswerPush, PushReply
  <2> QED
    BY <1>1, <1>6, <2>1, <2>4, <2>5, CallAnswers
<1>7. CASE pc = "fetch" /\ Answer(FetchReply(Ids(batch))) /\ code' = code
  <2>1. \/ Over /\ a.mode = "fetch" /\ a.due = 0
        \/ a.mode = "command" /\ a.due = 1 /\ Awaits(FetchReply(Ids(batch)))
    BY <1>7 DEF Agrees
  <2>2. CASE a.mode = "command" /\ a.due = 1 /\ Awaits(FetchReply(Ids(batch)))
    BY <1>1, <1>7, <2>2, CallAnswers
  <2>3. CASE Over /\ a.mode = "fetch" /\ a.due = 0
    <3>1. a = Now(git, asked)
      BY <2>3, UptoTyped DEF Over
    <3>2. asked \in Seq(Request) /\ Len(asked) = 0
      BY <2>3, <3>1 DEF Now, TypeOK
    <3>3. asked = <<>>
      BY <3>2
    <3>4. Fits(FetchReply(Ids(batch)))
      BY <2>3, <3>3 DEF Fits, FetchReply, Over
    <3>5. asked' = asked /\ unfit' = unfit /\ pc' = "command"
      BY <1>7, <3>3, <3>4, Zenon DEF Answer
    <3>6. Upto(a)' /\ UNCHANGED <<pipe, input, opts>>
      BY <1>1, <3>5, CallKeeps
    <3>7. /\ code = "running" /\ (opts.poisoned <=> a.poison) /\ (opts.check <=> a.check)
      BY <1>7 DEF Agrees
    <3>8. Over'
      BY <2>3, <3>6 DEF Over
    <3>9. opts'.poisoned <=> a.poison
      BY <3>6, <3>7
    <3>10. opts'.check <=> a.check
      BY <3>6, <3>7
    <3>11. pc' = "command" /\ code' = "running" /\ a.due = 0 /\ a.mode = "fetch"
      BY <1>7, <2>3, <3>5, <3>7
    <3>12. Agrees(a)'
      BY <3>8, <3>9, <3>10, <3>11, ReadyAgain, Zenon
    <3> QED
      BY <1>1, <1>7, <3>5, <3>6, <3>7, <3>12 DEF Good, HonestExit
  <2> QED
    BY <2>1, <2>2, <2>3
<1> QED
  BY <1>1, <1>2, <1>4, <1>5, <1>6, <1>7 DEF Rescan, TellStatus, FetchAll, FetchReply

\* An entry is applied: one that git meant, and it has its status line.
LEMMA CallsForEntry ==
    ASSUME TypeOK, HonestExit, OnlyWhatGitMeant, NEW a, Upto(a), Agrees(a), PushOne
    PROVE  (\E b : Good(b)) /\ OnlyWhatGitMeant'
<1>1. /\ KeepForCall /\ batch \in Seq(Entry) /\ batch # <<>> /\ done \in Seq(0..MaxLines)
      /\ batch' = Tail(batch) /\ done' = Append(done, Head(batch).id) /\ code' = code
      /\ pc = "push" /\ pc' = "push" /\ asked' = asked /\ unfit' = unfit
      /\ applied' \in {applied, applied \cup {Head(batch).id}}
  BY DEF PushOne, TypeOK, Goto
<1>2. /\ code = "running" /\ a.due = 1 /\ a.mode = "command"
      /\ Awaits(PushReply(done \o Ids(batch)))
      /\ (opts.poisoned <=> a.poison) /\ (opts.check <=> a.check)
      /\ Range(Ids(batch)) \subseteq meant
  BY <1>1 DEF Agrees
<1>3. Upto(a)' /\ UNCHANGED <<opts, input, meant>>
  BY <1>1, CallKeeps
<1>4. /\ Append(done, Head(batch).id) \o Ids(Tail(batch)) = done \o Ids(batch)
      /\ Head(batch).id \in Range(Ids(batch))
      /\ Range(Ids(Tail(batch))) \subseteq Range(Ids(batch))
  BY <1>1, IdsDone
<1>5. PushReply(done \o Ids(batch))' = PushReply(done \o Ids(batch))
  BY <1>1, <1>4 DEF PushReply
<1>6. Awaits(PushReply(done \o Ids(batch)))'
  BY <1>1, <1>2, <1>3, <1>5 DEF Awaits, Fits
<1>7. Range(Ids(batch))' \subseteq meant'
  BY <1>1, <1>2, <1>3, <1>4
<1>8. Agrees(a)'
  BY <1>1, <1>2, <1>3, <1>6, <1>7 DEF Agrees
<1>9. OnlyWhatGitMeant'
  BY <1>1, <1>2, <1>3, <1>4 DEF OnlyWhatGitMeant
<1> QED
  BY <1>1, <1>2, <1>3, <1>8, <1>9 DEF Good, HonestExit

-----------------------------------------------------------------------------
\* The steps of others, and the end.
LEMMA OwedWrites ==
    ASSUME TypeOK, TypeOK', Owed, NEW kind \in Kinds, GitWrites(kind)
    PROVE  Owed'
<1>1. PICK a : Upto(a) /\ Agrees(a)
  BY DEF Owed, InStep
<1>2. /\ Upto(a)' /\ meant \subseteq meant'
      /\ asked' = asked \/ \E r \in Request : asked' = Append(asked, r)
  BY <1>1, Writes
<1>3. /\ UNCHANGED <<pc, opts, batch, done, code, unfit, input, applied>> /\ input = "open"
  BY DEF GitWrites, remoteVars
<1>4. asked # <<>> => asked' # <<>> /\ Head(asked') = Head(asked)
  <2>1. asked \in Seq(Request)
    BY DEF TypeOK
  <2> QED
    BY <1>2, <2>1
<1>5. ~Over
  BY <1>3 DEF Over
<1>6. /\ Awaits(Bid("list")) => Awaits(Bid("list"))'
      /\ Awaits(Bid("listForPush")) => Awaits(Bid("listForPush"))'
      /\ Awaits(PushReply(Ids(batch))) => Awaits(PushReply(Ids(batch)))'
      /\ Awaits(PushReply(done \o Ids(batch))) => Awaits(PushReply(done \o Ids(batch)))'
      /\ Awaits(FetchReply(Ids(batch))) => Awaits(FetchReply(Ids(batch)))'
  BY <1>3, <1>4 DEF Awaits, Fits, FetchReply
<1>7. Agrees(a)'
  BY <1>1, <1>2, <1>3, <1>5, <1>6 DEF Agrees
<1>8. OnlyWhatGitMeant' /\ AnswersFit'
  BY <1>2, <1>3 DEF Owed, OnlyWhatGitMeant, AnswersFit
<1>9. HonestExit'
  BY <1>3 DEF Owed, HonestExit, GitWrites
<1> QED
  BY <1>2, <1>7, <1>8, <1>9 DEF Owed, InStep

LEMMA OwedOthers ==
    ASSUME TypeOK, Owed, GitLeaves \/ Rival \/ Killed \/ Hang \/ Release \/ UNCHANGED vars
    PROVE  Owed'
<1>1. PICK a : Upto(a) /\ Agrees(a)
  BY DEF Owed, InStep
<1>2. /\ UNCHANGED <<pipe, git, asked, meant, opts, batch, done, unfit, applied>>
      /\ input' = input \/ input = "open"
      /\ \/ pc' = pc /\ code' = code
         \/ pc' \in {"hung", "gone"} /\ code' \in {code, "killed"} /\ input' = input
  BY DEF GitLeaves, Rival, Killed, Hang, Release, KeepForCall, Goto, gitVars, remoteVars, vars
<1>3. Upto(a)'
  BY <1>1, <1>2, Stays
<1>4. Agrees(a)'
  <2>1. CASE pc' = pc /\ code' = code
    <3>1. /\ Awaits(Bid("list")) => Awaits(Bid("list"))'
          /\ Awaits(Bid("listForPush")) => Awaits(Bid("listForPush"))'
          /\ Awaits(PushReply(Ids(batch))) => Awaits(PushReply(Ids(batch)))'
          /\ Awaits(PushReply(done \o Ids(batch))) => Awaits(PushReply(done \o Ids(batch)))'
          /\ Awaits(FetchReply(Ids(batch))) => Awaits(FetchReply(Ids(batch)))'
      BY <1>2 DEF Awaits, Fits, FetchReply
    <3>2. Over => Over'
      BY <1>2 DEF Over
    <3> QED
      BY <1>1, <1>2, <2>1, <3>1, <3>2 DEF Agrees
  <2>2. CASE pc' \in {"hung", "gone"}
    BY <2>2 DEF Agrees
  <2> QED
    BY <1>2, <2>1, <2>2
<1>5. OnlyWhatGitMeant' /\ AnswersFit' /\ HonestExit'
  BY <1>2 DEF Owed, OnlyWhatGitMeant, AnswersFit, HonestExit
<1> QED
  BY <1>3, <1>4, <1>5 DEF Owed, InStep

\* What reads a line, or finds that there is none, changes no ref.
LEMMA ReadsApplyNothing ==
    ASSUME \/ ReadOption \/ ReadCapabilities \/ ReadList \/ ReadBatch \/ ReadEnd
           \/ InBatch \/ BatchEnds \/ InFetch \/ EndOfInput
    PROVE  UNCHANGED <<applied, meant>>
<1>1. KeepForRead
  BY DEF ReadOption, ReadCapabilities, ReadList, ReadBatch, ReadEnd, InBatch, BatchEnds,
         InFetch, EndOfInput
<1> QED
  BY <1>1 DEF KeepForRead, gitVars, remoteVars

LEMMA OwedStep == IInv /\ IInv' /\ Owed /\ [Next]_vars => Owed'
<1> SUFFICES ASSUME TypeOK, TypeOK', Owed, [Next]_vars PROVE Owed'
  BY DEF IInv
<1>1. /\ HonestExit /\ OnlyWhatGitMeant /\ AnswersFit
  BY DEF Owed
<1>2. PICK a : Upto(a) /\ Agrees(a)
  BY DEF Owed, InStep
<1>3. ASSUME NEW b, Good(b), OnlyWhatGitMeant' PROVE Owed'
  BY <1>1, <1>3 DEF Owed, Good, InStep, AnswersFit
<1>4. CASE \E kind \in Kinds : GitWrites(kind)
  BY <1>4, OwedWrites
<1>5. CASE GitLeaves \/ Rival \/ Killed \/ Hang \/ Release \/ UNCHANGED vars
  BY <1>5, OwedOthers
<1>6. CASE \/ ReadOption \/ ReadCapabilities \/ ReadList \/ ReadBatch \/ ReadEnd
           \/ InBatch \/ BatchEnds \/ InFetch \/ EndOfInput
  <2>1. OnlyWhatGitMeant'
    BY <1>1, <1>6, ReadsApplyNothing DEF OnlyWhatGitMeant
  <2>2. \E b : Good(b)
    BY <1>1, <1>2, <1>6, ReadAnswered, ReadBegins, ReadInBatch, ReadBatchEnds, ReadInFetch,
       ReadNothing
  <2> QED
    BY <1>3, <2>1, <2>2
<1>7. CASE \/ Survey \/ Prepare \/ AcquireLock \/ ScanForPush \/ TellRefs
           \/ Rescan \/ TellStatus \/ FetchAll
  <2>1. (\E b : Good(b)) /\ applied' = applied
    BY <1>1, <1>2, <1>7, CallsForList, CallsForBatch
  <2>2. meant' = meant
    BY <1>7 DEF Survey, Prepare, AcquireLock, ScanForPush, TellRefs, Rescan, TellStatus,
                FetchAll, KeepForCall, gitVars
  <2>3. OnlyWhatGitMeant'
    BY <1>1, <2>1, <2>2 DEF OnlyWhatGitMeant
  <2> QED
    BY <1>3, <2>1, <2>3
<1>8. CASE PushOne
  BY <1>1, <1>2, <1>3, <1>8, CallsForEntry
<1> QED
  BY <1>4, <1>5, <1>6, <1>7, <1>8 DEF Next, Step

LEMMA OwedInit == Init => Owed
<1> SUFFICES ASSUME Init PROVE Owed
  OBVIOUS
<1>1. TypeOK
  BY InvInit DEF IInv
<1> DEFINE a == Now(git, asked)
<1>2. a \in Snapshot
  BY <1>1, NowTyped DEF TypeOK
<1>3. /\ a.mode = "command" /\ a.batch = <<>> /\ a.due = 0 /\ ~a.poison /\ ~a.check
  BY DEF Init, Now
<1>4. Whole(a)
  BY <1>3 DEF Whole
<1> HIDE DEF a
<1>5. Trace(<<a>>, <<>>, a, asked, meant)
  <2>1. <<a>> \in Seq(Snapshot) /\ Len(<<a>>) = 1 /\ <<a>>[1] = a /\ Len(<<>>) = 0
    BY <1>2
  <2>2. a.due <= a.due
    BY <1>3
  <2> QED
    BY <1>4, <2>1, <2>2 DEF Trace
<1>6. Upto(a)
  <2>1. pipe = <<>> /\ <<a>>[1] = a
    BY DEF Init
  <2> QED
    BY <1>5, <2>1 DEF Upto, a
<1>7. Agrees(a)
  BY <1>3 DEF Agrees, Init
<1> QED
  BY <1>6, <1>7 DEF Owed, InStep, Init, AnswersFit, OnlyWhatGitMeant, HonestExit

LEMMA OwedAlways == Spec => []Owed
<1>1. Init => Owed
  BY OwedInit
<1>2. IInv /\ IInv' /\ Owed /\ [Next]_vars => Owed'
  BY OwedStep
<1> QED
  BY <1>1, <1>2, Invariant, PTL DEF Spec

\* The remote's refs change only as git meant.  main.go runs a batch when it has
\* read its blank line and no option it cannot obey, with the lines of that batch.
THEOREM OnlyWhatGitMeantHolds == Spec => []OnlyWhatGitMeant
<1>1. Owed => OnlyWhatGitMeant
  BY DEF Owed
<1> QED
  BY <1>1, OwedAlways, PTL

\* The answers of the command loop are those git waits for, in its order.
THEOREM AnswersFitHolds == Spec => []AnswersFit
<1>1. Owed => AnswersFit
  BY DEF Owed
<1> QED
  BY <1>1, OwedAlways, PTL

\* The loop returns no error only when git owes and is owed nothing.
THEOREM HonestExitHolds == Spec => []HonestExit
<1>1. Owed => HonestExit
  BY DEF Owed
<1> QED
  BY <1>1, OwedAlways, PTL

=============================================================================
