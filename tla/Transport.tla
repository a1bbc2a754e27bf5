------------------------------- MODULE Transport -------------------------------
(***************************************************************************)
(* What a call of the transport is taken to have done                      *)
(* (internal/transport/cli.go): the exit code and the output of one run of *)
(* the CLI, read as an outcome.  An error stands above every outcome: the  *)
(* call has an unknown effect then.                                        *)
(*                                                                         *)
(* The runs the CLI can make are external: they say what is so, or break   *)
(* off, or print what cannot be read, whatever has been done by then.      *)
(***************************************************************************)
EXTENDS Integers, Sequences

Nodes == {"absent", "folder", "file"}

\* A process that never started has no exit code.
Codes == {"never", "zero", "other"}

\* The output: a node of a type, a type the helper does not know, a listing,
\* one of the two signatures, nothing at all, or anything else.
Texts == {"folder", "file", "otherType", "listing", "notFound", "exists", "nothing", "noise"}

Missing == -1

\* The counts of an upload summary: transferred, skipped, failed.
Counts == [1..3 -> {Missing, 0, 1}]

Broken == {[code |-> "never", says |-> "noise"], [code |-> "other", says |-> "noise"],
           [code |-> "zero", says |-> "noise"]}

-----------------------------------------------------------------------------
\* Stat: absence only on the signature, and a node only of a type it knows.
StatSays(run) ==
    IF run.code = "zero" /\ run.says \in {"folder", "file"} THEN run.says
    ELSE IF run.code = "other" /\ run.says = "notFound" THEN "absent"
    ELSE "error"

\* EnsureDir's create-folder; a name said to exist is looked at once more.
CreateFolderSays(run) ==
    IF run.code = "zero" THEN "made"
    ELSE IF run.says = "exists" THEN "contradiction"
    ELSE "error"

\* List: no output at all is a folder with nothing in it.
ListSays(run) ==
    IF run.code = "zero" /\ run.says = "listing" THEN "listing"
    ELSE IF run.code = "zero" /\ run.says = "nothing" THEN "empty"
    ELSE "error"

DownloadSays(run) == IF run.code = "zero" THEN "read" ELSE "error"

\* (Mutant) The exit code tells what an upload has done.
UploadSaysByCode(run) == IF run.code = "zero" THEN "committed" ELSE "error"

\* classifyUpload: by the counts, exactly, and never by the exit code.
UploadSays(run) ==
    IF \E i \in 1..3 : run.counts[i] = Missing THEN "error"
    ELSE IF run.counts = <<1, 0, 0>> THEN "committed"
    ELSE IF run.counts = <<0, 1, 0>> THEN "refused"
    ELSE "ambiguous"

-----------------------------------------------------------------------------
\* The runs there can be when the node is what it is.
InfoRuns(node) ==
    Broken \cup
    IF node = "absent" THEN {[code |-> "other", says |-> "notFound"]}
                       ELSE {[code |-> "zero", says |-> node], [code |-> "zero", says |-> "otherType"]}

\* create-folder; once it printed that the name existed where nothing was.
CreateFolderRuns(done) ==
    {[code |-> "other", says |-> "exists"], [code |-> "other", says |-> "noise"]}
    \cup IF done = "made" THEN {[code |-> "zero", says |-> "noise"]}
                          ELSE {[code |-> "never", says |-> "noise"]}

\* list: the output of a run that exits with zero may be lost from its first
\* byte on, when the pipe is given up (waitDelay).
ListRuns == Broken \cup {[code |-> "zero", says |-> "listing"], [code |-> "zero", says |-> "nothing"]}

DownloadRuns == Broken

\* upload: a transfer and a skip both exit with zero; a summary may be cut off.
UploadRuns(landed, existed) ==
    {run \in [code : Codes, counts : Counts] :
        /\ run.code = "never" => ~landed /\ run.counts = <<Missing, Missing, Missing>>
        /\ run.counts[1] = 1 => landed
        /\ run.counts[2] = 1 => existed
        /\ (\A i \in 1..3 : run.counts[i] # Missing)
              => run.counts = IF landed THEN <<1, 0, 0>>
                              ELSE IF existed THEN <<0, 1, 0>> ELSE <<0, 0, 1>>
        /\ run.code = "zero" => landed \/ existed}
=============================================================================
