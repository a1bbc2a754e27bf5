------------------------------ MODULE WriterLock ------------------------------
(***************************************************************************)
(* The single-writer lock of a remote: the file <root>/.lock, created      *)
(* exclusively by AcquireLock, verified by read-back, and removed by       *)
(* Release (internal/repo/lock.go).  A session is one git-remote-proton    *)
(* process that was asked to push; its nonce is modelled by the session    *)
(* itself, since a fresh random nonce names one attempt.                   *)
(*                                                                         *)
(* Every call on the transport may fail, and a failed create or trash may  *)
(* or may not have taken effect.  A session may die between any two calls, *)
(* and any call may never return: the code sets no time limit.             *)
(* There is no takeover in the code: a lock left behind is removed by an   *)
(* operator, who looks first and clears later.                             *)
(***************************************************************************)
CONSTANTS
    Sessions,           \* the helper processes (and their nonces)
    Absent,             \* no .lock on the remote
    Garbage,            \* a .lock whose body does not parse
    MisreportedCreate   \* TRUE: a create that was skipped may say Committed

ASSUME LockConstants ==
    /\ Absent \notin Sessions
    /\ Garbage \notin Sessions
    /\ Absent # Garbage
    /\ MisreportedCreate \in BOOLEAN

VARIABLES
    lockFile,      \* what .lock holds: Absent, Garbage or a session's nonce
    pc,            \* where each session is
    released,      \* sessions that called Release
    faulted,       \* sessions one of whose calls failed
    opSaw,         \* the lock the operator decided to clear, or Absent
    careless,      \* the operator decided to clear the lock of a live session
    lostInGap,     \* sessions whose lock went away between check and trash
    hung           \* sessions one of whose calls never returns

vars == <<lockFile, pc, released, faulted, opSaw, careless, lostInGap, hung>>

Phases == {"start", "readback", "held", "relread", "reltrash",
           "exited", "signalled", "crashed"}

\* A session between a verified acquisition and the end of its release.
Holds(s) == pc[s] \in {"held", "relread", "reltrash"}

Gone(s) == pc[s] \in {"exited", "signalled", "crashed"}

TypeOK ==
    /\ lockFile \in Sessions \cup {Absent, Garbage}
    /\ pc \in [Sessions -> Phases]
    /\ released \in SUBSET Sessions
    /\ faulted \in SUBSET Sessions
    /\ opSaw \in Sessions \cup {Absent, Garbage}
    /\ careless \in BOOLEAN
    /\ lostInGap \in SUBSET Sessions
    /\ hung \in SUBSET Sessions

-----------------------------------------------------------------------------
\* The remote may already hold a lock: one that does not parse, or one of a
\* session that died earlier.
Init ==
    /\ lockFile \in Sessions \cup {Absent, Garbage}
    /\ pc = [s \in Sessions |-> IF s = lockFile THEN "crashed" ELSE "start"]
    /\ released = {}
    /\ faulted = {}
    /\ opSaw = Absent
    /\ careless = FALSE
    /\ lostInGap = {}
    /\ hung = {}

Goto(s, phase) == pc' = [pc EXCEPT ![s] = phase]

\* An error the session reports; the process ends without touching .lock.
Fail(s) ==
    /\ Goto(s, "exited")
    /\ faulted' = faulted \cup {s}

-----------------------------------------------------------------------------
(***************************************************************************)
(* AcquireLock.  CreateExclusive either takes effect or not; Committed     *)
(* goes on to the read-back, every other answer ends the attempt, also     *)
(* when the create did take effect and only its answer was lost.           *)
(***************************************************************************)
CreateLands(s) ==
    /\ pc[s] = "start"
    /\ lockFile = Absent
    /\ lockFile' = s
    /\ \/ Goto(s, "readback") /\ UNCHANGED faulted
       \/ Fail(s)
    /\ UNCHANGED <<released, opSaw, careless, lostInGap>>

CreateLost(s) ==
    /\ pc[s] = "start"
    /\ Fail(s)
    /\ UNCHANGED <<lockFile, released, opSaw, careless, lostInGap>>

CreateRefused(s) ==
    /\ pc[s] = "start"
    /\ lockFile # Absent
    /\ \/ Goto(s, "exited")
       \/ MisreportedCreate /\ Goto(s, "readback")
    /\ UNCHANGED <<lockFile, released, faulted, opSaw, careless, lostInGap>>

\* Mutant of Ours: any lock that is there counts as ours.
OursIfPresent(s) == lockFile # Absent

\* The read-back accepts only a lock that parses and carries our nonce.
Ours(s) == lockFile = s

\* A read-back that shows another's lock, or fails, leaves .lock as it is.
GiveUp(s) ==
    /\ Goto(s, "exited")
    /\ UNCHANGED lockFile

ReadBack(s) ==
    /\ pc[s] = "readback"
    /\ \/ /\ Ours(s)
          /\ Goto(s, "held")
          /\ UNCHANGED <<lockFile, faulted>>
       \/ ~Ours(s) /\ GiveUp(s) /\ UNCHANGED faulted
       \/ GiveUp(s) /\ faulted' = faulted \cup {s}
    /\ UNCHANGED <<released, opSaw, careless, lostInGap>>

-----------------------------------------------------------------------------
\* Mutant of BeginRelease: a return of the command loop that releases nothing.
BeginReleaseSkipped(s) ==
    /\ pc[s] = "held"
    /\ Goto(s, "exited")
    /\ UNCHANGED <<lockFile, released, faulted, opSaw, careless, lostInGap>>

(***************************************************************************)
(* Every return of the command loop runs the deferred Release: read the    *)
(* lock, then trash it if it still carries our nonce.                      *)
(***************************************************************************)
BeginRelease(s) ==
    /\ pc[s] = "held"
    /\ Goto(s, "relread")
    /\ released' = released \cup {s}
    /\ UNCHANGED <<lockFile, faulted, opSaw, careless, lostInGap>>

ReleaseRead(s) ==
    /\ pc[s] = "relread"
    /\ \/ Goto(s, IF Ours(s) THEN "reltrash" ELSE "exited") /\ UNCHANGED faulted
       \/ Fail(s)
    /\ UNCHANGED <<lockFile, released, opSaw, careless, lostInGap>>

\* Those who lose their lock to somebody else while between check and trash.
Robbed(by) == {t \in Sessions \ {by} : lockFile = t /\ pc[t] = "reltrash"}

\* Trash removes whatever carries the name by now.
ReleaseTrash(s) ==
    /\ pc[s] = "reltrash"
    /\ \/ /\ lockFile' = Absent
          /\ lostInGap' = lostInGap \cup Robbed(s)
          /\ \/ Goto(s, "exited") /\ UNCHANGED faulted
             \/ Fail(s)
       \/ UNCHANGED <<lockFile, lostInGap>> /\ Fail(s)
    /\ UNCHANGED <<released, opSaw, careless>>

\* A kill or a power loss ends the process anywhere.  So does an interrupt
\* (git's Ctrl-C reaches the helper's process group): the program installs no
\* signal handler, and Go's default disposition does not run deferred calls.
Die(s, how) ==
    /\ pc[s] \notin {"start", "exited", "signalled", "crashed"}
    /\ Goto(s, how)
    /\ UNCHANGED <<lockFile, released, faulted, opSaw, careless, lostInGap>>

Crash(s) == Die(s, "crashed")

Interrupt(s) == Die(s, "signalled")

\* The child of the session's next call never exits, so the call never returns
\* (waitDelay only bounds what follows an exit).  One that had its effect first
\* is, for the others, one that returned before the next one hung.
Hang(s) ==
    /\ pc[s] \notin {"exited", "signalled", "crashed"}
    /\ s \notin hung
    /\ hung' = hung \cup {s}
    /\ UNCHANGED <<lockFile, pc, released, faulted, opSaw, careless, lostInGap>>

-----------------------------------------------------------------------------
(***************************************************************************)
(* The operator of the error messages: "if that process is gone, remove it *)
(* with the Proton CLI".  Looking and clearing are two steps.  One who     *)
(* decides to clear the lock of a session that is alive is careless.       *)
(***************************************************************************)
OperatorInspects ==
    /\ opSaw = Absent
    /\ lockFile # Absent
    /\ opSaw' = lockFile
    /\ careless' = (careless \/ (lockFile \in Sessions /\ ~Gone(lockFile)))
    /\ UNCHANGED <<lockFile, pc, released, faulted, lostInGap>>

OperatorClears ==
    /\ opSaw # Absent
    /\ lockFile' = Absent
    /\ opSaw' = Absent
    /\ lostInGap' = lostInGap
                      \cup {s \in Sessions : lockFile = s /\ pc[s] = "reltrash"}
    /\ UNCHANGED <<pc, released, faulted, careless>>

-----------------------------------------------------------------------------
Call(s) ==
    \/ CreateLands(s)
    \/ CreateLost(s)
    \/ CreateRefused(s)
    \/ ReadBack(s)
    \/ BeginRelease(s)
    \/ ReleaseRead(s)
    \/ ReleaseTrash(s)

Step(s) == s \notin hung /\ Call(s) /\ UNCHANGED hung

Others ==
    /\ \/ \E s \in Sessions : Crash(s) \/ Interrupt(s)
       \/ OperatorInspects
       \/ OperatorClears
    /\ UNCHANGED hung

Next == (\E s \in Sessions : Step(s) \/ Hang(s)) \/ Others

Spec == Init /\ [][Next]_vars

\* A live helper process whose calls return takes its next step; it may still
\* crash, and whether a call returns is Hang's choice.
FairSpec == Spec /\ \A s \in Sessions : WF_vars(Step(s))

-----------------------------------------------------------------------------
\* Until an operator clears the lock of a live session, at most one session at
\* a time believes it may write to the remote, and the .lock it relies on is on
\* the remote and is its own (AcquireLock, Release).
MutualExclusion ==
    ~careless => \A s, t \in Sessions : Holds(s) /\ Holds(t) => s = t

HolderOwnsFile == ~careless => \A s \in Sessions : Holds(s) => lockFile = s

\* No takeover: the lock of a session that is still running leaves the remote
\* only by that session's own release, or by a careless operator.
NoTakeover ==
    [][\A s \in Sessions :
          (~careless /\ lockFile = s /\ ~Gone(s) /\ lockFile' # s) => ReleaseTrash(s)]_vars

\* The lock file implements the abstract promise: acquiring is verified before
\* the session counts as a writer, and it stops counting before or when its
\* lock leaves the remote.  A careless operator ends the promise.
Writers == IF careless THEN {} ELSE {s \in Sessions : Holds(s)}

Abstract == INSTANCE SingleWriter WITH writers <- Writers

ImplementsSingleWriter == Abstract!Spec

\* Release can be about to trash a lock that is no longer its own only through
\* the window its comment documents: the lock it had checked was taken away
\* before its trash, by the operator or by another session in that window.
ForeignTrashOnlyInGap ==
    \A s \in Sessions :
        pc[s] = "reltrash" /\ lockFile # s => s \in lostInGap

\* A session whose calls all return and succeed, and which is not killed, does
\* not leave its lock behind: the command loop releases on every exit.
LockFreed ==
    \A s \in Sessions :
        (lockFile = s) ~>
            \/ lockFile # s
            \/ s \in faulted \cup hung
            \/ pc[s] \in {"crashed", "signalled"}

\* What the comment in the command loop says of its exits: a session that has
\* ended by returning, and whose lock is on the remote, tried to release it.
ReleaseOnEveryExit ==
    \A s \in Sessions : pc[s] = "exited" /\ lockFile = s => s \in released

=============================================================================
