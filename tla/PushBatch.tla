------------------------------- MODULE PushBatch -------------------------------
(***************************************************************************)
(* What Push decides about a batch as a whole (internal/repo/push.go,      *)
(* casefold.go, macpush.go): the preflight of phase 2, run to a fixed      *)
(* point, and the deletions and writes of phases 4 and 5 that may fail     *)
(* after it.  How names are compared is in RefNames.                       *)
(*                                                                         *)
(* An entry that is refused before any other matters (HEAD, ancestry,      *)
(* force, a name git does not allow, a destination given twice) takes no   *)
(* further part, so such an entry is simply not in the batch here.         *)
(* PushSession models those rules.                                         *)
(***************************************************************************)
EXTENDS RefNames

CONSTANT Cases      \* the pushes a run begins with

(***************************************************************************)
(* A push: refs is what the scan advertised and skipped the paths it       *)
(* declined; dels and writes are what git asks to delete and to write; mac *)
(* says that the local repository is one where names that share a key      *)
(* share a file.  There, mapped are the names that its refspecs give a     *)
(* tracking ref, named alike, and tracked those whose tracking ref exists. *)
(***************************************************************************)
Push == [refs : SUBSET Names, skipped : SUBSET Names,
         dels : SUBSET Names, writes : SUBSET Names,
         mac : BOOLEAN, mapped : SUBSET Names, tracked : SUBSET Names]

ASSUME BatchConstants == Cases \subseteq Push

\* The refs on the remote are files: none stands where a folder of another is.
ASSUME RefsAreFiles == \A p \in Cases : \A a, b \in p.refs : ~Nested(a, b)

VARIABLES
    push,      \* what this run is about
    stage,     \* where Push is
    valid,     \* valid.dels, valid.writes: the entries not refused
    paired,    \* creates the case rule or the Mac rule refused
    tried,     \* tried.dels, tried.writes: the entries attempted
    done,      \* done.dels, done.writes: the entries reported ok
    refs       \* the refs on the remote

vars == <<push, stage, valid, paired, tried, done, refs>>

Entries == [dels : SUBSET Names, writes : SUBSET Names]

NoEntries == [dels |-> {}, writes |-> {}]

TypeOK ==
    /\ push \in Push
    /\ stage \in {"validate", "df", "case", "mac", "pack", "delete", "write", "end"}
    /\ valid \in Entries /\ tried \in Entries /\ done \in Entries
    /\ paired \subseteq Names /\ refs \subseteq Names

Init ==
    /\ push \in Cases
    /\ stage = "validate"
    /\ valid = NoEntries /\ tried = NoEntries /\ done = NoEntries
    /\ paired = {}
    /\ refs = push.refs

-----------------------------------------------------------------------------
IsCreate(n) == n \notin push.refs

Creates(ws) == {n \in ws : IsCreate(n)}

-----------------------------------------------------------------------------
\* Occupancy: a skipped path of that name, above it, or beneath it.
Occupied(n) == \E s \in push.skipped : s = n \/ Nested(s, n)

Validate ==
    /\ stage = "validate"
    /\ valid' = [dels |-> push.dels \ push.skipped,
                 writes |-> {n \in push.writes : ~Occupied(n)}]
    /\ stage' = "df"
    /\ UNCHANGED <<push, paired, tried, done, refs>>

\* (Mutant) Deletions count whether refused or not.
FinalSetAsAsked(v) == (push.refs \ push.dels) \cup v.writes

\* batchFinalSet: the refs as the batch would leave them.
FinalSet(v) == (push.refs \ v.dels) \cup v.writes

DropWrites(set) == [valid EXCEPT !.writes = @ \ set]

\* dfPreflight: a create may not be nested with another ref of the final set.
DFPreflight ==
    /\ stage = "df"
    /\ valid' = DropWrites({n \in Creates(valid.writes) :
                               \E m \in FinalSet(valid) : Nested(n, m)})
    /\ stage' = "case"
    /\ UNCHANGED <<push, paired, tried, done, refs>>

\* (Mutant) A rename to the other normalisation form is not recognised.
RenameHalvesByCase(creates, v) ==
    {d \in (v.dels \cap push.refs) \ v.writes :
        \E x \in creates : Keys(CaseKey, d) = Keys(CaseKey, x)}

\* The deletions that are half of a rename to one of the creates: of a ref the
\* remote holds and no write still valid puts back.
RenameHalves(creates, v) ==
    {d \in (v.dels \cap push.refs) \ v.writes : \E x \in creates : SameKey(d, x)}

(***************************************************************************)
(* One pass of caseFixedPoint: creates that would be variants of another   *)
(* ref are refused, and with them the deletions they are renames of, which *)
(* may expose further creates to the next pass.                            *)
(***************************************************************************)
CaseRefused == {n \in Creates(valid.writes) : ConflictsIn(FinalSet(valid), n) # {}}

CasePass ==
    /\ stage = "case"
    /\ CaseRefused # {}
    /\ LET left == DropWrites(CaseRefused)
       IN valid' = [left EXCEPT !.dels = @ \ RenameHalves(CaseRefused, left)]
    /\ paired' = paired \cup CaseRefused
    /\ UNCHANGED <<push, stage, tried, done, refs>>

CaseSettled ==
    /\ stage = "case"
    /\ CaseRefused = {}
    /\ stage' = IF push.mac THEN "mac" ELSE "pack"
    /\ UNCHANGED <<push, valid, paired, tried, done, refs>>

-----------------------------------------------------------------------------
(***************************************************************************)
(* macPass.  A write must not share a file with a tracking ref that is     *)
(* there or that another write of the batch makes, an update also not with *)
(* one that the batch deletes, nor be a variant of a ref the remote would  *)
(* keep; and a deletion must not share its file with one that is there.    *)
(***************************************************************************)
\* Which refs of a set have a tracking ref (macLocalSide).
Tracked(set) == set \cap push.mapped

FileClashes(set, n) == IF Tracked({n}) # {} THEN ConflictsIn(Tracked(set), n) ELSE {}

MacBadWrite(n) ==
    \/ FileClashes(push.tracked \cup valid.writes, n) # {}
    \/ ~IsCreate(n) /\ FileClashes(valid.dels, n) \cup ConflictsIn(FinalSet(valid), n) # {}

MacBadDelete(d) == FileClashes(push.tracked, d) # {}

\* Part 2: the deletions that are the other half of a write refused.
MacHalves(bad, left) ==
    (left.dels \cap bad) \cup RenameHalves(Creates(bad), [left EXCEPT !.dels = @ \ bad])

\* (Mutant) A half that was refused in an earlier round counts once more.
MacPassRecounting ==
    /\ stage = "mac"
    /\ LET bad  == {n \in valid.writes : MacBadWrite(n)}
           left == DropWrites(bad)
           kept == MacHalves(bad, left) \cup {d \in push.dels : MacBadDelete(d)}
       IN /\ valid' = [left EXCEPT !.dels = @ \ kept]
          /\ paired' = paired \cup Creates(bad)
          /\ stage' = IF bad \cup kept = {} THEN "pack" ELSE "df"
    /\ UNCHANGED <<push, tried, done, refs>>

MacPass ==
    /\ stage = "mac"
    /\ LET bad    == {n \in valid.writes : MacBadWrite(n)}
           left   == DropWrites(bad)
           unlinks == {d \in left.dels : MacBadDelete(d)}
           kept   == left.dels \cap (MacHalves(bad, left) \cup unlinks)
       IN /\ valid' = [left EXCEPT !.dels = @ \ kept]
          /\ paired' = paired \cup Creates(bad)
          /\ stage' = IF bad \cup kept = {} THEN "pack" ELSE "df"
    /\ UNCHANGED <<push, tried, done, refs>>

-----------------------------------------------------------------------------
(***************************************************************************)
(* Phase 3: the pack is published, or every write fails and the deletions  *)
(* are carried out all the same.                                           *)
(***************************************************************************)
Pack ==
    /\ stage = "pack"
    /\ stage' = "delete"
    /\ \/ UNCHANGED valid
       \/ valid.writes # {} /\ valid' = DropWrites(valid.writes)
    /\ UNCHANGED <<push, paired, tried, done, refs>>

\* Phases 4 and 5.  A deletion or a write may be reported failed with or without
\* having taken effect.
Mark(record, kind, n) == [record EXCEPT ![kind] = @ \cup {n}]

Attempt(kind, n) ==
    /\ n \in valid[kind] \ tried[kind]
    /\ tried' = Mark(tried, kind, n)

Delete(n) ==
    /\ stage = "delete"
    /\ Attempt("dels", n)
    /\ \/ refs' = refs \ {n} /\ done' = Mark(done, "dels", n)
       \/ n \in push.refs /\ refs' \in {refs, refs \ {n}} /\ UNCHANGED done
    /\ UNCHANGED <<push, stage, valid, paired>>

DeletesDone ==
    /\ stage = "delete" /\ valid.dels = tried.dels
    /\ stage' = "write"
    /\ UNCHANGED <<push, valid, paired, tried, done, refs>>

\* What phase 5 knows to be on the remote.
Live == (push.refs \ done.dels) \cup done.writes

\* The refs the batch was to delete and did not.
Undeleted == push.dels \ done.dels

\* (Mutants) No re-check; none for updates.
RecheckedNever(n) == TRUE
RecheckedCreates(n) == IsCreate(n) => ConflictsIn(Live, n) = {}

\* The re-checks, for a deletion that failed since: of a create, against every
\* ref; of an update under the Mac rule, against those.
Rechecked(n) ==
    /\ IsCreate(n) => ConflictsIn(Live, n) = {}
    /\ (push.mac /\ ~IsCreate(n) /\ n \notin done.dels)
         => ConflictsIn(Live \cap Undeleted, n) = {}

\* The remote takes a ref file only where no folder is and no file is above it.
Fits(n) == \A m \in refs : ~Nested(n, m)

Write(n) ==
    /\ stage = "write"
    /\ Attempt("writes", n)
    /\ \/ Rechecked(n) /\ Fits(n) /\ refs' = refs \cup {n} /\ done' = Mark(done, "writes", n)
       \/ Rechecked(n) /\ Fits(n) /\ refs' = refs \cup {n} /\ UNCHANGED done
       \/ UNCHANGED <<refs, done>>
    /\ UNCHANGED <<push, stage, valid, paired>>

WritesDone ==
    /\ stage = "write" /\ valid.writes = tried.writes
    /\ stage' = "end"
    /\ UNCHANGED <<push, valid, paired, tried, done, refs>>

Next ==
    \/ Validate \/ DFPreflight \/ CasePass \/ CaseSettled \/ MacPass \/ Pack
    \/ \E n \in Names : Delete(n) \/ Write(n)
    \/ DeletesDone \/ WritesDone

Spec == Init /\ [][Next]_vars

-----------------------------------------------------------------------------
(* Properties. *)

(***************************************************************************)
(* No push adds a pair of names that a case- or normalisation-insensitive  *)
(* clone would confuse: two such names are on the remote only if both were *)
(* there before (the create rule, push.go caseFixedPoint and the phase 5   *)
(* re-check), whatever deletion or write fails and whatever reply is lost. *)
(***************************************************************************)
NoNewVariantPair ==
    \A a, b \in refs : Variants(a, b) => {a, b} \subseteq push.refs

(***************************************************************************)
(* Phase 5 finds a conflict only where a deletion that the preflight       *)
(* counted on has failed (push.go, the re-checks of phase 5): if all were  *)
(* reported done, nothing stands in the way of any write, of a refused     *)
(* deletion's ref included.                                                *)
(***************************************************************************)
RefusedOnlyAfterFailure ==
    (stage = "write" /\ valid.dels \subseteq done.dels) =>
        \A n \in valid.writes : Rechecked(n) /\ Fits(n)

(***************************************************************************)
(* A rename is refused whole: when the case rule or the Mac rule has       *)
(* refused a create, no deletion of a ref that it is another spelling of   *)
(* goes ahead, unless the batch writes that ref again (push.go A1, macpush *)
(* part 2), however many rounds the preflight took.                        *)
(***************************************************************************)
RenameRefusedWhole ==
    stage \in {"pack", "delete"} =>
        \A x \in paired, d \in (valid.dels \cap push.refs) \ push.writes : ~SameKey(d, x)

(***************************************************************************)
(* The preflight ends: no step of it makes an entry valid again, and each  *)
(* pass or round that it goes on after has refused at least one that still *)
(* was (push.go, the comment on the termination of phase 2's loop).        *)
(***************************************************************************)
Fewer == valid'.dels \subseteq valid.dels /\ valid'.writes \subseteq valid.writes

InPreflight == stage \in {"df", "case", "mac"}

GoesOn == stage \in {"case", "mac"} /\ stage' \in {"df", "case"}

PreflightShrinks ==
    [][InPreflight => Fewer /\ (GoesOn => valid' # valid)]_vars

(***************************************************************************)
(* On a repository whose ref files are shared by names with equal keys,    *)
(* the tracking refs git then writes and deletes clobber none: a branch    *)
(* pushed shares no file with a tracking ref or another branch pushed, an  *)
(* update none with a branch deleted, and a branch deleted none with a     *)
(* tracking ref (macpush.go parts 1 and 3).  An updated branch is left     *)
(* with no variant on the remote, unless its own deletion came first (R2). *)
(***************************************************************************)
MacKeepsFilesApart ==
    push.mac =>
        /\ \A n \in done.writes :
              /\ FileClashes(push.tracked \cup done.writes, n) = {}
              /\ ~IsCreate(n) => FileClashes(done.dels, n) = {}
              /\ (~IsCreate(n) /\ n \notin done.dels) => ConflictsIn(refs, n) = {}
        /\ \A d \in done.dels : FileClashes(push.tracked, d) = {}
=============================================================================
