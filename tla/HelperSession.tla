---------------------------- MODULE HelperSession -----------------------------
(***************************************************************************)
(* The command loop of the remote helper (cmd/git-remote-proton/main.go:   *)
(* loopEnv, internal/protocol): the lines git writes into a pipe, the      *)
(* state they leave in the helper, the remote calls each command makes, in *)
(* their order, and the answer it gets.                                    *)
(*                                                                         *)
(* git may write any lines, ahead of the answers too, and close the pipe   *)
(* or break off anywhere; every remote call may fail, or never return, for *)
(* the code sets no time limit; other helpers take the lock in turn.  What *)
(* the calls do in detail is in modules of their own: Bootstrap,           *)
(* WriterLock, PushSession, ReadCheck, Fetch.                              *)
(***************************************************************************)
EXTENDS Sequences, Naturals, SequencesExt

CONSTANTS
    MaxLines,   \* how many lines git writes
    Capacity,   \* how many of them the pipe holds
    MaxRivals   \* how many times another helper changes the refs

ASSUME SessionConstants ==
    /\ MaxLines \in Nat /\ Capacity \in Nat \ {0} /\ MaxRivals \in Nat

\* poison: an option whose rejection git ignores; checkOn, checkOff: option
\* check-connectivity; badPush, badFetch: begin like one but do not parse.
Options == {"poison", "harmless", "checkOn", "checkOff"}
Kinds == Options \cup {"capabilities", "list", "listForPush", "push", "badPush",
                       "fetch", "badFetch", "blank", "unknown"}
Line == [kind : Kinds, id : 0..MaxLines]
Entry == [kind : Kinds \ (Options \cup {"blank"}), id : 0..MaxLines]

\* What git waits for: the command, the lines of its batch, and whether it had
\* asked that the connectivity be vouched for.
Request == [cmd : Kinds, ids : Seq(0..MaxLines), vouch : BOOLEAN]
Bid(kind) == [cmd |-> kind, ids |-> <<>>, vouch |-> FALSE]

GitState == [mode : {"command", "push", "fetch", "bye"},
             lines : 0..MaxLines, entries : 0..MaxLines, batch : Seq(1..MaxLines),
             sound : BOOLEAN, poison : BOOLEAN, check : BOOLEAN]

Phases == {"command", "batch", "fetching",                          \* reading
           "prepare", "lock", "scan", "check",                      \* list for-push
           "survey", "rescan", "push", "fetch", "release", "hung", "gone"}

\* Where the helper makes remote calls, or has git look at the local repository.
Calling == {"survey", "prepare", "lock", "scan", "check", "rescan", "push", "fetch", "release"}

VARIABLES
    pipe,       \* lines written and not read
    input,      \* "open", closed ("eof"), or "broken"
    git,        \* where git is: mode, lines and batch lines written, batch, options
    asked,      \* requests of git not answered
    meant,      \* updates of complete batches git sent with no poison before
    pc,
    opts,       \* poisoned, check: the options in force in the helper
    batch,      \* lines of the batch being read, or entries not yet applied
    done,       \* entries of the batch that have their status line
    lock,       \* the helper has a lock to release
    code,       \* how the helper ended
    lockFile,   \* whose .lock is on the remote
    marked,     \* the remote folder is a repo
    damaged,    \* it has a file under refs/ that is no valid ref
    applied,    \* the updates that are on the remote
    rivals,     \* changes other helpers made to it
    advertised, \* rivals, as they were when git was told the refs to push to
    stuck,      \* the remote call that left our .lock behind failed
    unfit       \* answers that were not what git waited for

gitVars == <<input, git, meant>>
remoteVars == <<lockFile, marked, damaged, applied, rivals, advertised, stuck>>
vars == <<pipe, asked, pc, opts, batch, done, lock, code, unfit, gitVars, remoteVars>>

TypeOK ==
    /\ pipe \in Seq(Line) /\ Len(pipe) <= Capacity
    /\ input \in {"open", "eof", "broken"}
    /\ git \in GitState
    /\ git.entries <= git.lines
    /\ asked \in Seq(Request)
    /\ meant \subseteq 1..MaxLines /\ applied \subseteq 0..MaxLines
    /\ pc \in Phases
    /\ opts \in [poisoned : BOOLEAN, check : BOOLEAN]
    /\ batch \in Seq(Entry)
    /\ done \in Seq(0..MaxLines)
    /\ {lock, marked, damaged, stuck} \subseteq BOOLEAN
    /\ code \in {"running", "success", "failure", "killed"}
    /\ lockFile \in {"none", "ours", "rival"}
    /\ rivals \in 0..MaxRivals /\ advertised \in 0..MaxRivals
    /\ unfit \subseteq Request

Init ==
    /\ pipe = <<>> /\ input = "open"
    /\ git = [mode |-> "command", lines |-> 0, entries |-> 0, batch |-> <<>>, sound |-> TRUE,
              poison |-> FALSE, check |-> FALSE]
    /\ asked = <<>> /\ meant = {}
    /\ pc = "command"
    /\ opts = [poisoned |-> FALSE, check |-> FALSE]
    /\ batch = <<>> /\ done = <<>>
    /\ lock = FALSE /\ code = "running"
    /\ lockFile = "none"
    /\ marked \in BOOLEAN /\ damaged \in BOOLEAN /\ (damaged => marked)
    /\ applied = {} /\ rivals = 0 /\ advertised = 0 /\ stuck = FALSE
    /\ unfit = {}

-----------------------------------------------------------------------------
\* git (external).
Expects(request) == asked' = Append(asked, request)

\* The kinds of line that begin a batch or, as git sees it, belong to one.
Begins == {"push", "badPush", "fetch", "badFetch"}

Belongs(kind) ==
    \/ git.mode = "command" /\ kind \in Begins
    \/ git.mode = "push" /\ kind \notin Options \cup {"blank"}
    \/ git.mode = "fetch" /\ kind # "blank"

GitAdds(kind) ==
    LET mode == IF git.mode # "command" THEN git.mode
                ELSE IF kind \in {"push", "badPush"} THEN "push" ELSE "fetch"
    IN /\ Belongs(kind)
       /\ git' = [git EXCEPT !.mode = mode, !.entries = @ + 1, !.lines = @ + 1,
                             !.batch = Append(@, git.entries + 1),
                             !.sound = (@ \/ git.batch = <<>>) /\ kind = mode]
       /\ UNCHANGED <<asked, meant>>

GitEndsBatch ==
    /\ git' = [git EXCEPT !.mode = "command", !.lines = @ + 1, !.batch = <<>>]
    /\ Expects([cmd |-> git.mode, ids |-> git.batch,
                vouch |-> git.mode = "fetch" /\ git.check])
    /\ meant' = IF git.mode = "push" /\ git.sound /\ ~git.poison
                THEN meant \cup Range(git.batch) ELSE meant

GitBids(kind) ==
    /\ ~Belongs(kind)
    /\ git' = [git EXCEPT !.lines = @ + 1, !.mode = IF kind = "blank" THEN "bye" ELSE @,
                          !.poison = @ \/ kind = "poison",
                          !.check = IF git.mode = "push" THEN @
                                    ELSE (@ /\ kind # "checkOff") \/ kind = "checkOn"]
    /\ IF git.mode = "command" /\ kind # "blank"
       THEN Expects(Bid(kind)) ELSE UNCHANGED asked
    /\ UNCHANGED meant

GitWrites(kind) ==
    /\ input = "open" /\ git.mode # "bye"
    /\ git.lines < MaxLines /\ Len(pipe) < Capacity
    /\ \/ GitAdds(kind)
       \/ kind = "blank" /\ git.mode # "command" /\ GitEndsBatch
       \/ ~(kind = "blank" /\ git.mode # "command") /\ GitBids(kind)
    /\ pipe' = Append(pipe, [kind |-> kind, id |-> IF Belongs(kind) THEN git.entries + 1 ELSE 0])
    /\ UNCHANGED <<pc, opts, batch, done, lock, code, unfit, input, remoteVars>>

GitLeaves ==
    /\ input = "open"
    /\ input' \in {"eof", "broken"}
    /\ UNCHANGED <<pipe, git, asked, meant, pc, opts, batch, done, lock, code, unfit, remoteVars>>

\* Another helper, obeying the lock.
Rival ==
    /\ \/ lockFile = "none" /\ lockFile' = "rival" /\ UNCHANGED rivals
       \/ lockFile = "rival" /\ rivals < MaxRivals /\ rivals' = rivals + 1 /\ UNCHANGED lockFile
       \/ lockFile = "rival" /\ lockFile' = "none" /\ UNCHANGED rivals
    /\ UNCHANGED <<pipe, asked, pc, opts, batch, done, lock, code, unfit, gitVars,
                   marked, damaged, applied, advertised, stuck>>

-----------------------------------------------------------------------------
\* The helper.

\* An answer fits what git asked first; what git cut short may be answered to nobody.
Fits(reply) ==
    IF asked = <<>> THEN reply.cmd = "fetch" /\ input # "open"
    ELSE /\ reply.cmd = Head(asked).cmd /\ reply.ids = Head(asked).ids
         /\ reply.vouch => Head(asked).vouch

Answer(reply) ==
    /\ pc' = "command"
    /\ unfit' = IF Fits(reply) THEN unfit ELSE unfit \cup {reply}
    /\ asked' = IF asked = <<>> THEN <<>> ELSE Tail(asked)
    /\ batch' = <<>> /\ done' = <<>>

Goto(phase) == pc' = phase /\ UNCHANGED <<unfit, asked>>

\* Every return runs the deferred release of a lock that is held.
Exit(how) ==
    /\ Goto(IF lock THEN "release" ELSE "gone")
    /\ code' = how

\* What a step that reads a line leaves alone, and one that makes a call.
KeepForRead == done' = <<>> /\ UNCHANGED <<lock, gitVars, remoteVars>>
KeepForCall == UNCHANGED <<pipe, opts, gitVars>>
KeepEmpty == batch' = <<>> /\ done' = <<>>

Next1 == Head(pipe)

Take(phase) == pc = phase /\ pipe # <<>> /\ pipe' = Tail(pipe)

\* Options.Observe; inside a batch check-connectivity is not looked at.
Observe(kind) == opts' = [opts EXCEPT !.poisoned = @ \/ kind = "poison"]

ReadOption ==
    /\ Take("command")
    /\ Next1.kind \in Options
    /\ IF Next1.kind \in {"checkOn", "checkOff"}
       THEN opts' = [opts EXCEPT !.check = Next1.kind = "checkOn"]
       ELSE Observe(Next1.kind)
    /\ Answer(Bid(Next1.kind))
    /\ UNCHANGED code /\ KeepForRead

ReadCapabilities ==
    /\ Take("command")
    /\ Next1.kind = "capabilities"
    /\ Answer(Bid("capabilities"))
    /\ UNCHANGED <<opts, code>> /\ KeepForRead

ReadList ==
    /\ Take("command")
    /\ \/ Next1.kind = "list" /\ Goto("survey")
       \/ Next1.kind = "listForPush" /\ Goto("prepare")
    /\ UNCHANGED <<opts, batch, code>> /\ KeepForRead

\* No push without the lock that list for-push took; no fetch line that is malformed.
ReadBatch ==
    /\ Take("command")
    /\ \/ /\ Next1.kind \in {"push", "badPush"}
          /\ IF lock THEN Goto("batch") /\ batch' = <<Next1>> /\ UNCHANGED code
                     ELSE Exit("failure") /\ UNCHANGED batch
       \/ Next1.kind = "fetch" /\ Goto("fetching") /\ batch' = <<Next1>> /\ UNCHANGED code
       \/ Next1.kind = "badFetch" /\ Exit("failure") /\ UNCHANGED batch
    /\ UNCHANGED opts /\ KeepForRead

ReadEnd ==
    /\ Take("command")
    /\ \/ Next1.kind = "blank" /\ Exit("success")
       \/ Next1.kind = "unknown" /\ Exit("failure")
    /\ UNCHANGED <<opts, batch>> /\ KeepForRead

\* (Mutant) An option after the first push line is taken for one of them.
InBatchKeeping ==
    /\ Take("batch")
    /\ Next1.kind # "blank"
    /\ batch' = Append(batch, Next1) /\ UNCHANGED opts
    /\ Goto("batch")
    /\ UNCHANGED code /\ KeepForRead

InBatch ==
    /\ Take("batch")
    /\ Next1.kind # "blank"
    /\ IF Next1.kind \in Options THEN Observe(Next1.kind) /\ UNCHANGED batch
                                 ELSE batch' = Append(batch, Next1) /\ UNCHANGED opts
    /\ Goto("batch")
    /\ UNCHANGED code /\ KeepForRead

Ids(lines) == [i \in DOMAIN lines |-> lines[i].id]

AnswerPush(ids) == Answer([cmd |-> "push", ids |-> ids, vouch |-> FALSE])

\* (Mutant) A poisoned batch is dropped without a word.
BatchEndsMute ==
    /\ Take("batch")
    /\ Next1.kind = "blank"
    /\ \/ opts.poisoned /\ Goto("command") /\ UNCHANGED code
       \/ ~opts.poisoned /\ Goto("rescan") /\ UNCHANGED code
    /\ UNCHANGED <<opts, batch>> /\ KeepForRead

\* The blank line: ParsePushBatch of all the lines, then the poison.
BatchEnds ==
    /\ Take("batch")
    /\ Next1.kind = "blank"
    /\ \/ (\E l \in Range(batch) : l.kind # "push") /\ Exit("failure") /\ UNCHANGED batch
       \/ /\ \A l \in Range(batch) : l.kind = "push"
          /\ IF opts.poisoned THEN AnswerPush(Ids(batch)) ELSE Goto("rescan") /\ UNCHANGED batch
          /\ UNCHANGED code
    /\ UNCHANGED opts /\ KeepForRead

\* (Mutant) A fetch line that does not parse is dropped.
InFetchTolerant ==
    /\ Take("fetching")
    /\ batch' = (IF Next1.kind = "fetch" THEN Append(batch, Next1) ELSE batch)
    /\ Goto(IF Next1.kind = "blank" THEN "fetch" ELSE "fetching")
    /\ UNCHANGED <<opts, code>> /\ KeepForRead

InFetch ==
    /\ Take("fetching")
    /\ \/ Next1.kind = "fetch" /\ Goto("fetching") /\ batch' = Append(batch, Next1) /\ UNCHANGED code
       \/ Next1.kind = "blank" /\ Goto("fetch") /\ UNCHANGED <<batch, code>>
       \/ Next1.kind \notin {"fetch", "blank"} /\ Exit("failure") /\ UNCHANGED batch
    /\ UNCHANGED opts /\ KeepForRead

\* (Mutant) What arrived of a push batch is taken for all of it.
EndOfInputLenient ==
    /\ pipe = <<>> /\ input # "open"
    /\ \/ pc = "command" /\ Exit(IF input = "eof" THEN "success" ELSE "failure")
       \/ pc = "batch" /\ Goto("rescan") /\ UNCHANGED code
       \/ pc = "fetching" /\ Goto("fetch") /\ UNCHANGED code
    /\ UNCHANGED <<pipe, opts, batch>> /\ KeepForRead

\* (Mutant) A read error counts as the end of the session.
EndOfInputEasy ==
    /\ pipe = <<>> /\ input # "open"
    /\ \/ pc = "command" /\ Exit("success")
       \/ pc = "batch" /\ Exit("failure")
       \/ pc = "fetching" /\ Goto("fetch") /\ UNCHANGED code
    /\ UNCHANGED <<pipe, opts, batch>> /\ KeepForRead

\* Nothing comes any more: a push batch that was cut short is not applied, a
\* fetch batch is served as far as it came.
EndOfInput ==
    /\ pipe = <<>> /\ input # "open"
    /\ \/ pc = "command" /\ Exit(IF input = "eof" THEN "success" ELSE "failure")
       \/ pc = "batch" /\ Exit("failure")
       \/ pc = "fetching" /\ Goto("fetch") /\ UNCHANGED code
    /\ UNCHANGED <<pipe, opts, batch>> /\ KeepForRead

-----------------------------------------------------------------------------
RequireMarker == marked

\* A file under refs/ that may be a damaged ref.
ContentSkips == damaged

\* list: RequireMarker, ScanRefs, content skips, the Mac check, ReadHEAD.  It
\* changes nothing, and any of them may end it.
Survey ==
    /\ pc = "survey"
    /\ \/ RequireMarker /\ ~ContentSkips /\ Answer(Bid("list")) /\ UNCHANGED code
       \/ Exit("failure")
    /\ KeepForCall /\ KeepEmpty /\ UNCHANGED <<lock, remoteVars>>

\* list for-push: EnsureParents and Bootstrap.
Prepare ==
    /\ pc = "prepare"
    /\ \/ marked' = TRUE /\ Goto("lock") /\ UNCHANGED code
       \/ marked' \in {marked, TRUE} /\ Exit("failure")
    /\ KeepForCall
    /\ UNCHANGED <<batch, done, lock, lockFile, damaged, applied, rivals, advertised, stuck>>

\* (Mutant) The lock is noted only once the refs have been listed.
AcquireLockUnnoted ==
    /\ pc = "lock"
    /\ \/ lockFile = "none" /\ lockFile' = "ours" /\ Goto("scan") /\ UNCHANGED <<code, stuck>>
       \/ Exit("failure") /\ UNCHANGED <<lockFile, stuck>>
    /\ KeepForCall
    /\ UNCHANGED <<batch, done, lock, marked, damaged, applied, rivals, advertised>>

\* (Mutant) That another one holds the lock does not stop the helper.
AcquireLockAnyway ==
    /\ pc = "lock"
    /\ lockFile' = (IF lockFile = "none" THEN "ours" ELSE lockFile)
    /\ lock' = TRUE /\ Goto("scan")
    /\ KeepForCall
    /\ UNCHANGED <<batch, done, code, stuck, marked, damaged, applied, rivals, advertised>>

\* AcquireLock: refused by any lock there is, our own of an earlier list
\* for-push too; a failure may hide that the file was created.
AcquireLock ==
    /\ pc = "lock"
    /\ \/ /\ lockFile = "none" /\ lockFile' = "ours"
          /\ \/ lock' = TRUE /\ Goto("scan") /\ UNCHANGED <<code, stuck>>
             \/ stuck' = TRUE /\ Exit("failure") /\ UNCHANGED lock
       \/ Exit("failure") /\ UNCHANGED <<lock, lockFile, stuck>>
    /\ KeepForCall
    /\ UNCHANGED <<batch, done, marked, damaged, applied, rivals, advertised>>

\* ScanRefs, tolerant of files that are no refs.
ScanForPush ==
    /\ pc = "scan"
    /\ \/ advertised' = rivals /\ Goto("check") /\ UNCHANGED code
       \/ Exit("failure") /\ UNCHANGED advertised
    /\ KeepForCall
    /\ UNCHANGED <<batch, done, lock, lockFile, marked, damaged, applied, rivals, stuck>>

\* macPushCheck, and the refs are told.
TellRefs ==
    /\ pc = "check"
    /\ \/ Answer(Bid("listForPush")) /\ UNCHANGED code
       \/ Exit("failure")
    /\ KeepForCall /\ KeepEmpty /\ UNCHANGED <<lock, remoteVars>>

\* The second ScanRefs; then, on a Mac, the local refs, without which no entry
\* is applied.
Rescan ==
    /\ pc = "rescan"
    /\ \/ Exit("failure") /\ UNCHANGED batch
       \/ AnswerPush(Ids(batch)) /\ UNCHANGED code
       \/ Goto("push") /\ UNCHANGED <<batch, code>>
    /\ done' = <<>>
    /\ KeepForCall /\ UNCHANGED <<lock, remoteVars>>

\* Push: each entry is applied or not; a failure may hide that it was.
PushOne ==
    /\ pc = "push" /\ batch # <<>>
    /\ applied' \in {applied, applied \cup {Head(batch).id}}
    /\ batch' = Tail(batch) /\ done' = Append(done, Head(batch).id)
    /\ Goto("push")
    /\ KeepForCall
    /\ UNCHANGED <<lock, code, lockFile, marked, damaged, rivals, advertised, stuck>>

TellStatus ==
    /\ pc = "push" /\ batch = <<>>
    /\ AnswerPush(done)
    /\ KeepForCall /\ UNCHANGED <<lock, code, remoteVars>>

\* Fetch makes the closure of all the wants complete, or fails.
FetchAll ==
    /\ pc = "fetch"
    /\ \/ Answer([cmd |-> "fetch", ids |-> Ids(batch), vouch |-> opts.check]) /\ UNCHANGED code
       \/ Exit("failure") /\ batch' = <<>> /\ done' = <<>>
    /\ KeepForCall /\ UNCHANGED <<lock, remoteVars>>

\* The deferred release; its failure is only reported.
Release ==
    /\ pc = "release"
    /\ \/ lockFile' = "none" /\ UNCHANGED stuck
       \/ stuck' = TRUE /\ UNCHANGED lockFile
    /\ lock' = FALSE /\ Goto("gone")
    /\ KeepForCall
    /\ UNCHANGED <<batch, done, code, marked, damaged, applied, rivals, advertised>>

\* The process is killed, or writes an answer to a git that has gone.
Killed ==
    /\ pc # "gone"
    /\ Goto("gone") /\ code' = "killed"
    /\ KeepForCall /\ UNCHANGED <<batch, done, lock, remoteVars>>

\* The child of a call never exits, and no time limit ends the call (waitDelay
\* only bounds what follows an exit).  A call that had its effect first is, for
\* all others, one that returned before the next one hung.
Hang ==
    /\ pc \in Calling
    /\ Goto("hung")
    /\ KeepForCall /\ UNCHANGED <<batch, done, lock, code, remoteVars>>

Step ==
    \/ ReadOption \/ ReadCapabilities \/ ReadList \/ ReadBatch \/ ReadEnd
    \/ InBatch \/ BatchEnds \/ InFetch \/ EndOfInput
    \/ Survey \/ Prepare \/ AcquireLock \/ ScanForPush \/ TellRefs
    \/ Rescan \/ PushOne \/ TellStatus \/ FetchAll \/ Release

Next ==
    \/ \E kind \in Kinds : GitWrites(kind)
    \/ GitLeaves \/ Rival \/ Step \/ Hang \/ Killed

Spec == Init /\ [][Next]_vars

\* A helper that is not killed, and whose call returns, goes on; whether a call
\* returns is Hang's choice.
FairSpec == Spec /\ WF_vars(Step)

-----------------------------------------------------------------------------
\* The remote's refs change only as git meant: by an entry of a batch it ended
\* with the blank line, of push lines all, before which it had sent no option
\* that the helper does not support, also when it died half way through.
OnlyWhatGitMeant == applied \subseteq meant

\* Answers come in the order of what git asked, one to each; a push batch gets
\* a status for each of its entries, in order; connectivity is vouched for only
\* if git asked that, and then for every object of its batch.
AnswersFit == unfit = {}

\* The refs git was told, from which it made its batch, are those the batch is
\* applied to, but for what the same session has changed.
BatchMeetsAdvertised == pc = "push" => rivals = advertised

\* However the loop returns, our lock is gone, unless its release failed or its
\* creation had been reported as a failure.
LockFreedOnExit ==
    pc = "gone" /\ code # "killed" /\ lockFile = "ours" => stuck

\* Success means that git said farewell, or closed the pipe and not in the
\* middle of a push, and that nothing it asked is left unanswered.
HonestExit ==
    code = "success" =>
        /\ asked = <<>>
        /\ git.mode = "bye" \/ (input = "eof" /\ git.mode # "push")

\* git never waits for ever, but for a call that never returns: what it asks is
\* answered, or the helper ends.
Answered == asked # <<>> ~> (asked = <<>> \/ pc \in {"hung", "gone"})
=============================================================================
