---------------------------- MODULE PushBatchProofs ----------------------------
(***************************************************************************)
(* For any names, any two keys of their components and any batch: no push  *)
(* puts on the remote a pair of names that share a key, unless both were   *)
(* there.                                                                  *)
(*                                                                         *)
(* The argument: what is on the remote is what was there, less what was    *)
(* reported deleted, and writes that were tried, whatever was reported of  *)
(* them.  A write tried meets the former in the re-check of phase 5, and   *)
(* the latter it met in the preflight, for all of them were valid then.    *)
(*                                                                         *)
(* The second part follows the preflight to its fixed point: when phase 3  *)
(* begins, no write stands in the way of another or of a ref that stays,   *)
(* no half of a rename is left, and on a Mac no file is shared.            *)
(***************************************************************************)
EXTENDS PushBatch, SequenceTheorems, TLAPS

\* From the end of the case rule on, no create is a variant of another write.
WritesApart ==
    stage \in {"mac", "pack", "delete", "write", "end"} =>
        \A n \in Creates(valid.writes), m \in valid.writes : ~Variants(n, m)

\* Where everything on the remote comes from.
Accounted ==
    /\ tried.writes \subseteq valid.writes
    /\ refs \subseteq (push.refs \ done.dels) \cup tried.writes
    /\ stage \notin {"write", "end"} => tried.writes = {}

IInv == TypeOK /\ Accounted /\ WritesApart /\ NoNewVariantPair

LEMMA VariantsSymmetric ==
    ASSUME NEW a, NEW b, Variants(a, b)
    PROVE  Variants(b, a)
<1>1. PICK i \in (DOMAIN a) \cap (DOMAIN b) :
          SubSeq(a, 1, i) # SubSeq(b, 1, i) /\ SameKey(SubSeq(a, 1, i), SubSeq(b, 1, i))
  BY DEF Variants
<1>2. SameKey(SubSeq(b, 1, i), SubSeq(a, 1, i))
  BY <1>1 DEF SameKey
<1> QED
  BY <1>1, <1>2 DEF Variants

\* What the conflict check finds nothing against has no variant there.
LEMMA NoConflictNoVariant ==
    ASSUME NEW set \in SUBSET Names, NEW n \in Names, NEW m \in set, ConflictsIn(set, n) = {}
    PROVE  ~Variants(n, m)
BY DEF ConflictsIn, VariantPairs

LEMMA InvInit == Init => IInv
<1> SUFFICES ASSUME Init PROVE IInv
  OBVIOUS
<1>1. TypeOK
  BY BatchConstants DEF BatchConstants, Init, TypeOK, Push, Entries, NoEntries
<1> QED
  BY <1>1 DEF Init, IInv, Accounted, WritesApart, NoNewVariantPair, NoEntries

LEMMA TypeStep ==
    ASSUME TypeOK, [Next]_vars
    PROVE  TypeOK'
<1> USE DEF TypeOK, Entries
<1>1. CASE Validate
  BY <1>1 DEF Validate, Push
<1>2. CASE DFPreflight
  BY <1>2 DEF DFPreflight, DropWrites
<1>3. CASE CasePass
  BY <1>3 DEF CasePass, CaseRefused, Creates, DropWrites
<1>4. CASE CaseSettled
  BY <1>4 DEF CaseSettled
<1>5. CASE MacPass
  BY <1>5 DEF MacPass, Creates, DropWrites
<1>6. CASE Pack
  BY <1>6 DEF Pack, DropWrites
<1>7. ASSUME NEW n \in Names, Delete(n) PROVE TypeOK'
  BY <1>7 DEF Delete, Attempt, Mark
<1>8. ASSUME NEW n \in Names, Write(n) PROVE TypeOK'
  BY <1>8 DEF Write, Attempt, Mark
<1>9. CASE DeletesDone \/ WritesDone \/ UNCHANGED vars
  BY <1>9 DEF DeletesDone, WritesDone, vars
<1> QED
  BY <1>1, <1>2, <1>3, <1>4, <1>5, <1>6, <1>7, <1>8, <1>9 DEF Next

(***************************************************************************)
(* A step that adds no valid write and leaves the remote alone keeps the   *)
(* writes apart, once they are.                                            *)
(***************************************************************************)
LEMMA FewerWritesApart ==
    ASSUME TypeOK, WritesApart, push' = push, valid'.writes \subseteq valid.writes,
           stage \in {"mac", "pack", "delete", "write", "end"}
    PROVE  WritesApart'
BY DEF WritesApart, Creates, IsCreate

\* Up to phase 3 nothing has been tried and the remote does not change.
LEMMA PreflightStep ==
    ASSUME IInv,
           Validate \/ DFPreflight \/ CasePass \/ CaseSettled \/ MacPass \/ Pack
    PROVE  Accounted' /\ NoNewVariantPair'
<1>1. tried' = tried /\ done' = done /\ refs' = refs /\ push' = push
  BY DEF Validate, DFPreflight, CasePass, CaseSettled, MacPass, Pack
<1>2. tried.writes = {}
  BY DEF IInv, Accounted, Validate, DFPreflight, CasePass, CaseSettled, MacPass, Pack
<1> QED
  BY <1>1, <1>2 DEF IInv, Accounted, NoNewVariantPair

LEMMA PreflightApart ==
    ASSUME IInv,
           Validate \/ DFPreflight \/ CasePass \/ CaseSettled \/ MacPass \/ Pack
    PROVE  WritesApart'
<1> USE DEF IInv, TypeOK, Entries
<1>1. CASE Validate \/ DFPreflight \/ CasePass
  BY <1>1 DEF Validate, DFPreflight, CasePass, WritesApart
<1>2. CASE CaseSettled
  <2>1. ASSUME NEW n \in Creates(valid.writes), NEW m \in valid.writes PROVE ~Variants(n, m)
    <3>1. ConflictsIn(FinalSet(valid), n) = {}
      BY <1>2 DEF CaseSettled, CaseRefused
    <3>2. FinalSet(valid) \in SUBSET Names /\ m \in FinalSet(valid) /\ n \in Names
      BY DEF FinalSet, Creates, Push
    <3> QED
      BY <3>1, <3>2, NoConflictNoVariant
  <2> QED
    BY <1>2, <2>1 DEF CaseSettled, WritesApart, Creates, IsCreate
<1>3. CASE MacPass
  BY <1>3, FewerWritesApart DEF MacPass, DropWrites
<1>4. CASE Pack
  BY <1>4, FewerWritesApart DEF Pack, DropWrites
<1> QED
  BY <1>1, <1>2, <1>3, <1>4

LEMMA DeleteStep ==
    ASSUME IInv, NEW n \in Names, Delete(n)
    PROVE  Accounted' /\ WritesApart' /\ NoNewVariantPair'
<1> USE DEF IInv, TypeOK, Entries, Delete, Attempt, Mark
<1>1. refs' \subseteq refs /\ push' = push /\ valid' = valid /\ stage' = "delete"
  OBVIOUS
<1>2. tried'.writes = {}
  BY DEF Accounted
<1>3. refs' \subseteq push.refs \ done'.dels
  BY DEF Accounted
<1> QED
  BY <1>1, <1>2, <1>3, FewerWritesApart DEF Accounted, NoNewVariantPair

LEMMA WriteStep ==
    ASSUME IInv, NEW n \in Names, Write(n)
    PROVE  Accounted' /\ WritesApart' /\ NoNewVariantPair'
<1> USE DEF IInv, TypeOK, Entries, Attempt, Mark
<1>1. push' = push /\ valid' = valid /\ stage = "write" /\ stage' = "write" /\ n \in valid.writes
  BY DEF Write
<1>2. Accounted'
  BY DEF Accounted, Write
<1>3. WritesApart'
  BY <1>1, FewerWritesApart
<1>4. ASSUME NEW r \in refs, refs' # refs, Variants(n, r) \/ Variants(r, n)
      PROVE  {n, r} \subseteq push.refs
  <2>1. Variants(n, r) /\ Variants(r, n)
    BY <1>4, VariantsSymmetric
  <2>2. CASE r \in tried.writes
    BY <1>1, <2>1, <2>2 DEF Accounted, WritesApart, Creates, IsCreate
  <2>3. CASE r \in push.refs \ done.dels
    <3>1. r \in Live /\ Live \in SUBSET Names
      BY <2>3 DEF Live, Push
    <3>2. IsCreate(n) => ConflictsIn(Live, n) = {}
      BY <1>4 DEF Write, Rechecked
    <3>3. ~IsCreate(n)
      BY <2>1, <3>1, <3>2, NoConflictNoVariant
    <3> QED
      BY <2>3, <3>3 DEF IsCreate
  <2> QED
    BY <2>2, <2>3 DEF Accounted
<1>5. Variants(n, n) => n \in push.refs
  BY <1>1 DEF WritesApart, Creates, IsCreate
<1>6. refs' \subseteq refs \cup {n}
  BY DEF Write
<1>7. NoNewVariantPair'
  BY <1>1, <1>4, <1>5, <1>6 DEF NoNewVariantPair
<1> QED
  BY <1>2, <1>3, <1>7

LEMMA InvStep ==
    ASSUME IInv, [Next]_vars
    PROVE  IInv'
<1>1. TypeOK'
  BY TypeStep DEF IInv
<1>2. CASE DeletesDone \/ WritesDone \/ UNCHANGED vars
  BY <1>1, <1>2 DEF DeletesDone, WritesDone, vars, IInv, Accounted, WritesApart,
                    NoNewVariantPair, Creates, IsCreate
<1> QED
  BY <1>1, <1>2, PreflightStep, PreflightApart, DeleteStep, WriteStep DEF Next, IInv

(***************************************************************************)
(* No push creates a pair of names that share a key, for all names, keys,  *)
(* batches and failures.                                                   *)
(***************************************************************************)
THEOREM NoNewVariantPairHolds == Spec => []NoNewVariantPair
<1>1. IInv => NoNewVariantPair
  BY DEF IInv
<1> QED
  BY <1>1, InvInit, InvStep, PTL DEF Spec
-----------------------------------------------------------------------------
(***************************************************************************)
(* The rest is about what the preflight has settled when phase 3 begins,   *)
(* and about the deletions that fail after it.  Refusing a create takes    *)
(* back the deletions it is another spelling of, which puts refs back into *)
(* the final set: no create that is left is nested with one of those, as   *)
(* it would be a variant of the create refused.                            *)
(***************************************************************************)
Component == DOMAIN CaseKey

LEMMA NamesAreSeqs == Names \subseteq Seq(Component)
BY NameForm DEF NameForm, Component

\* A prefix agrees with the whole as far as it goes.
LEMMA PrefixIs ==
    ASSUME NEW a \in Seq(Component), NEW b \in Seq(Component)
    PROVE  IsPrefix(a, b) <=> Len(a) <= Len(b) /\ \A i \in 1..Len(a) : a[i] = b[i]
<1>1. /\ Len(a) \in Nat /\ Len(b) \in Nat
  OBVIOUS
<1>2. /\ SubSeq(a, 1, Len(a)) \in Seq(Component) /\ Len(SubSeq(a, 1, Len(a))) = Len(a)
      /\ \A i \in 1..Len(a) : SubSeq(a, 1, Len(a))[i] = a[i]
  BY <1>1
<1>3. ASSUME Len(a) <= Len(b)
      PROVE  /\ SubSeq(b, 1, Len(a)) \in Seq(Component) /\ Len(SubSeq(b, 1, Len(a))) = Len(a)
             /\ \A i \in 1..Len(a) : SubSeq(b, 1, Len(a))[i] = b[i]
  BY <1>1, <1>3
<1>4. ASSUME Len(a) <= Len(b), \A i \in 1..Len(a) : a[i] = b[i]
      PROVE  SubSeq(a, 1, Len(a)) = SubSeq(b, 1, Len(a))
  BY <1>2, <1>3, <1>4, SeqEqual
<1> QED
  BY <1>2, <1>3, <1>4 DEF IsPrefix

LEMMA SameKeyPointwise ==
    ASSUME NEW key, NEW a \in Seq(Component), NEW b \in Seq(Component)
    PROVE  Keys(key, a) = Keys(key, b)
           <=> Len(a) = Len(b) /\ \A i \in 1..Len(a) : key[a[i]] = key[b[i]]
<1>1. DOMAIN a = 1..Len(a) /\ DOMAIN b = 1..Len(b) /\ Len(a) \in Nat /\ Len(b) \in Nat
  OBVIOUS
<1>2. ASSUME Keys(key, a) = Keys(key, b)
      PROVE  Len(a) = Len(b) /\ \A i \in 1..Len(a) : key[a[i]] = key[b[i]]
  <2>1. DOMAIN Keys(key, a) = 1..Len(a) /\ DOMAIN Keys(key, b) = 1..Len(b)
    BY <1>1 DEF Keys
  <2>2. \A i : i \in 1..Len(a) <=> i \in 1..Len(b)
    BY <1>2, <2>1, Zenon
  <2>3. Len(a) = Len(b)
    <3>1. Len(a) >= 1 => Len(a) \in 1..Len(b)
      BY <1>1, <2>2
    <3>2. Len(b) >= 1 => Len(b) \in 1..Len(a)
      BY <1>1, <2>2
    <3>3. Len(a) \in Nat /\ Len(b) \in Nat
      OBVIOUS
    <3>4. Len(a) <= Len(b) /\ Len(b) <= Len(a)
      BY <3>1, <3>2, <3>3
    <3> QED
      BY <3>3, <3>4
  <2> QED
    BY <1>1, <1>2, <2>3 DEF Keys
<1>3. ASSUME Len(a) = Len(b), \A i \in 1..Len(a) : key[a[i]] = key[b[i]]
      PROVE  Keys(key, a) = Keys(key, b)
  BY <1>1, <1>3 DEF Keys
<1> QED
  BY <1>2, <1>3

LEMMA CutIs ==
    ASSUME NEW a \in Seq(Component), NEW k \in Nat, k <= Len(a)
    PROVE  /\ SubSeq(a, 1, k) \in Seq(Component) /\ Len(SubSeq(a, 1, k)) = k
           /\ \A i \in 1..k : SubSeq(a, 1, k)[i] = a[i]
<1>1. Len(a) \in Nat
  OBVIOUS
<1> QED
  BY <1>1

\* Names that share a key share it as far as both are cut.
LEMMA SameKeyCut ==
    ASSUME NEW a \in Seq(Component), NEW b \in Seq(Component), NEW k \in Nat, k <= Len(a),
           SameKey(a, b)
    PROVE  SameKey(SubSeq(a, 1, k), SubSeq(b, 1, k))
<1>1. Len(a) \in Nat /\ Len(b) = Len(a)
  BY SameKeyPointwise DEF SameKey
<1> DEFINE p == SubSeq(a, 1, k)
           q == SubSeq(b, 1, k)
<1>2. /\ p \in Seq(Component) /\ Len(p) = k /\ \A i \in 1..k : p[i] = a[i]
      /\ q \in Seq(Component) /\ Len(q) = k /\ \A i \in 1..k : q[i] = b[i]
  BY <1>1, CutIs
<1> HIDE DEF p, q
<1>3. ASSUME NEW key, Keys(key, a) = Keys(key, b) PROVE Keys(key, p) = Keys(key, q)
  <2>1. \A i \in 1..Len(a) : key[a[i]] = key[b[i]]
    BY <1>3, SameKeyPointwise
  <2>2. \A i \in 1..k : key[p[i]] = key[q[i]]
    BY <1>1, <1>2, <2>1
  <2> QED
    BY <1>2, <2>2, SameKeyPointwise
<1>4. SameKey(p, q)
  BY <1>3 DEF SameKey
<1> QED
  BY <1>4 DEF p, q

\* Names that agree as far as one of them goes, of which the other is not another
\* spelling as far as that.
LEMMA CutIsVariant ==
    ASSUME NEW n \in Seq(Component), NEW d \in Seq(Component), NEW x \in Seq(Component),
           SameKey(d, x), NEW k \in Nat, k <= Len(n), k <= Len(d),
           \A i \in 1..k : n[i] = d[i], NEW j \in 1..k, n[j] # x[j]
    PROVE  Variants(n, x)
<1>1. /\ Len(n) \in Nat /\ Len(d) \in Nat /\ Len(x) = Len(d)
      /\ DOMAIN n = 1..Len(n) /\ DOMAIN x = 1..Len(x)
  BY SameKeyPointwise DEF SameKey
<1>2. SubSeq(n, 1, k) = SubSeq(d, 1, k)
  <2>1. /\ SubSeq(n, 1, k) \in Seq(Component) /\ Len(SubSeq(n, 1, k)) = k
        /\ \A i \in 1..k : SubSeq(n, 1, k)[i] = n[i]
    BY CutIs
  <2>2. /\ SubSeq(d, 1, k) \in Seq(Component) /\ Len(SubSeq(d, 1, k)) = k
        /\ \A i \in 1..k : SubSeq(d, 1, k)[i] = d[i]
    BY CutIs
  <2> QED
    BY <2>1, <2>2, SeqEqual
<1>3. SameKey(SubSeq(n, 1, k), SubSeq(x, 1, k))
  BY <1>2, SameKeyCut
<1>4. SubSeq(n, 1, k)[j] = n[j] /\ SubSeq(x, 1, k)[j] = x[j]
  BY <1>1, CutIs
<1>5. k \in DOMAIN n /\ k \in DOMAIN x
  BY <1>1
<1> QED
  BY <1>3, <1>4, <1>5 DEF Variants

\* What is nested with a name is nested with every other spelling of it, or a
\* variant of that.
LEMMA NestedWithSpelling ==
    ASSUME NEW n \in Seq(Component), NEW d \in Seq(Component), NEW x \in Seq(Component),
           Nested(n, d), SameKey(d, x), d # x
    PROVE  Nested(n, x) \/ Variants(n, x)
<1>1. /\ Len(n) \in Nat /\ Len(d) \in Nat /\ Len(x) \in Nat /\ Len(x) = Len(d)
  BY SameKeyPointwise DEF SameKey
<1>2. CASE IsStrictPrefix(n, d)
  <2>1. Len(n) <= Len(d) /\ (\A i \in 1..Len(n) : n[i] = d[i]) /\ n # d
    BY <1>2, PrefixIs DEF IsStrictPrefix
  <2>2. Len(n) < Len(d)
    BY <1>1, <2>1, SeqEqual
  <2>3. CASE \A i \in 1..Len(n) : n[i] = x[i]
    <3>1. IsPrefix(n, x) /\ n # x
      BY <1>1, <2>2, <2>3, PrefixIs
    <3> QED
      BY <3>1 DEF Nested, IsStrictPrefix
  <2>4. CASE \E j \in 1..Len(n) : n[j] # x[j]
    <3>1. PICK j \in 1..Len(n) : n[j] # x[j]
      BY <2>4
    <3>2. Len(n) <= Len(n)
      BY <1>1
    <3> QED
      BY <1>1, <2>1, <3>1, <3>2, CutIsVariant
  <2> QED
    BY <2>3, <2>4
<1>3. CASE IsStrictPrefix(d, n)
  <2>1. Len(d) <= Len(n) /\ (\A i \in 1..Len(d) : d[i] = n[i]) /\ d # n
    BY <1>3, PrefixIs DEF IsStrictPrefix
  <2>2. PICK j \in 1..Len(d) : d[j] # x[j]
    BY <1>1, SeqEqual
  <2>3. n[j] # x[j]
    BY <2>1, <2>2
  <2>4. \A i \in 1..Len(d) : n[i] = d[i]
    BY <2>1
  <2>5. Len(d) <= Len(d)
    BY <1>1
  <2> QED
    BY <1>1, <2>1, <2>3, <2>4, <2>5, CutIsVariant
<1> QED
  BY <1>2, <1>3 DEF Nested

-----------------------------------------------------------------------------
Settled == {"pack", "delete", "write", "end"}

\* What is valid was asked for, to a remote that holds refs in files.
AsAsked ==
    /\ valid.dels \subseteq push.dels /\ valid.writes \subseteq push.writes
    /\ \A a, b \in push.refs : ~Nested(a, b)

\* What was reported done was valid, and done after the preflight.
Reported ==
    /\ done.dels \subseteq tried.dels /\ tried.dels \subseteq valid.dels
    /\ done.writes \subseteq tried.writes
    /\ stage \notin {"delete", "write", "end"} => tried.dels = {}

\* What the directory rule and the case rule leave, whatever is put back.
Unnested ==
    stage \in {"case", "mac"} \cup Settled =>
        \A n \in Creates(valid.writes), m \in FinalSet(valid) : ~Nested(n, m)

Unlike ==
    stage \in {"mac"} \cup Settled =>
        \A n \in Creates(valid.writes) : ConflictsIn(FinalSet(valid), n) = {}

\* What the Mac rule leaves.
MacSettled ==
    stage \in Settled /\ push.mac =>
        /\ \A n \in valid.writes : ~MacBadWrite(n)
        /\ \A d \in valid.dels : ~MacBadDelete(d)

\* No deletion is left that is half of a rename refused.
Whole ==
    /\ \A x \in paired, d \in (valid.dels \cap push.refs) \ push.writes : ~SameKey(d, x)
    /\ stage = "validate" => paired = {}

\* An update was written clear of the deletions that had failed.
Clear ==
    push.mac =>
        \A n \in done.writes :
            ~IsCreate(n) /\ n \notin done.dels
            => ConflictsIn((push.refs \ done.dels) \cap push.dels, n) = {}

Preflight ==
    /\ TypeOK /\ Accounted /\ AsAsked /\ Reported
    /\ Unnested /\ Unlike /\ MacSettled /\ Whole /\ Clear

LEMMA NestedSymmetric == \A a, b : Nested(a, b) <=> Nested(b, a)
BY DEF Nested

LEMMA ConflictsMonotone ==
    ASSUME NEW a, NEW b, a \subseteq b, NEW n
    PROVE  ConflictsIn(a, n) \subseteq ConflictsIn(b, n)
BY DEF ConflictsIn

LEMMA ClashesMonotone ==
    ASSUME NEW a, NEW b, a \subseteq b, NEW n
    PROVE  FileClashes(a, n) \subseteq FileClashes(b, n)
BY DEF FileClashes, ConflictsIn, Tracked

LEMMA PreflightInit == Init => Preflight
<1> SUFFICES ASSUME Init PROVE Preflight
  OBVIOUS
<1>1. TypeOK /\ Accounted
  BY InvInit DEF IInv
<1>2. AsAsked
  BY RefsAreFiles DEF RefsAreFiles, Init, NoEntries, AsAsked
<1> QED
  BY <1>1, <1>2 DEF Init, NoEntries, Preflight, Reported, Unnested, Unlike, MacSettled, Whole,
                    Clear, Settled

\* Nothing has been tried yet.
LEMMA NothingTried ==
    ASSUME Preflight, stage \notin {"delete", "write", "end"}
    PROVE  /\ tried.dels = {} /\ tried.writes = {} /\ done.dels = {} /\ done.writes = {}
BY DEF Preflight, Accounted, Reported

\* A step of the preflight that refuses entries and nothing else.
LEMMA Refusing ==
    ASSUME Preflight, stage \notin {"delete", "write", "end"},
           UNCHANGED <<push, tried, done, refs>>,
           valid'.dels \subseteq push.dels, valid'.writes \subseteq push.writes
    PROVE  AsAsked' /\ Reported' /\ Clear'
BY NothingTried DEF Preflight, AsAsked, Reported, Clear, IsCreate

LEMMA ValidateStep ==
    ASSUME Preflight, Validate
    PROVE  AsAsked' /\ Reported' /\ Unnested' /\ Unlike' /\ MacSettled' /\ Whole' /\ Clear'
<1>1. /\ valid'.dels = push.dels \ push.skipped
      /\ valid'.writes = {n \in push.writes : ~Occupied(n)}
      /\ stage = "validate" /\ stage' = "df" /\ UNCHANGED <<push, paired, tried, done, refs>>
  BY DEF Validate
<1>2. AsAsked' /\ Reported' /\ Clear'
  BY <1>1, Refusing
<1>3. Whole'
  BY <1>1 DEF Preflight, Whole
<1> QED
  BY <1>1, <1>2, <1>3 DEF Settled, Unnested, Unlike, MacSettled

LEMMA DFStep ==
    ASSUME Preflight, DFPreflight
    PROVE  AsAsked' /\ Reported' /\ Unnested' /\ Unlike' /\ MacSettled' /\ Whole' /\ Clear'
<1> USE DEF Preflight, TypeOK, Entries
<1>1. /\ valid'.dels = valid.dels
      /\ valid'.writes = valid.writes \ {n \in Creates(valid.writes) :
                                            \E m \in FinalSet(valid) : Nested(n, m)}
      /\ stage = "df" /\ stage' = "case" /\ UNCHANGED <<push, paired, tried, done, refs>>
  BY DEF DFPreflight, DropWrites
<1>2. AsAsked' /\ Reported' /\ Clear'
  BY <1>1, Refusing DEF AsAsked
<1>3. FinalSet(valid') \subseteq FinalSet(valid) /\ FinalSet(valid)' = FinalSet(valid')
  BY <1>1 DEF FinalSet
<1>4. Unnested'
  BY <1>1, <1>3 DEF Unnested, Creates, IsCreate
<1>5. Whole'
  BY <1>1 DEF Whole
<1> QED
  BY <1>1, <1>2, <1>4, <1>5 DEF Settled, Unlike, MacSettled

LEMMA CasePassStep ==
    ASSUME Preflight, CasePass
    PROVE  AsAsked' /\ Reported' /\ Unnested' /\ Unlike' /\ MacSettled' /\ Whole' /\ Clear'
<1> USE DEF Preflight, TypeOK, Entries
<1> DEFINE left == DropWrites(CaseRefused)
           put == RenameHalves(CaseRefused, left)
<1>1. /\ valid'.dels = valid.dels \ put /\ valid'.writes = valid.writes \ CaseRefused
      /\ paired' = paired \cup CaseRefused
      /\ stage = "case" /\ stage' = "case" /\ UNCHANGED <<push, tried, done, refs>>
      /\ left.dels = valid.dels /\ left.writes = valid.writes \ CaseRefused
  BY DEF CasePass, DropWrites
<1>2. put = {d \in (valid.dels \cap push.refs) \ (valid.writes \ CaseRefused) :
                \E x \in CaseRefused : SameKey(d, x)}
  BY <1>1 DEF RenameHalves
<1> HIDE DEF put, left
<1>3. AsAsked' /\ Reported' /\ Clear'
  BY <1>1, Refusing DEF AsAsked
<1>4. \A x \in CaseRefused : x \in valid.writes /\ x \notin push.refs /\ x \in Names
                             /\ x \in FinalSet(valid) /\ x \in Creates(valid.writes)
  BY DEF CaseRefused, Creates, IsCreate, FinalSet
<1>5. ASSUME NEW n \in Creates(valid'.writes), NEW d \in put PROVE ~Nested(n, d)
  <2>1. PICK x \in CaseRefused : SameKey(d, x)
    BY <1>2, <1>5
  <2>2. n \in valid.writes /\ n \in Creates(valid.writes) /\ n \notin CaseRefused /\ n \in Names
    BY <1>1, <1>5 DEF Creates, IsCreate
  <2>3. d # x /\ d \in Names
    BY <1>2, <1>4, <1>5, <2>1 DEF Push
  <2>4. ~Nested(n, x)
    BY <1>1, <1>4, <2>2 DEF Unnested
  <2>5. ~Variants(n, x)
    <3>1. ConflictsIn(FinalSet(valid), n) = {}
      BY <2>2 DEF CaseRefused
    <3>2. FinalSet(valid) \in SUBSET Names
      BY DEF FinalSet, Push
    <3> QED
      BY <1>4, <2>2, <3>1, <3>2, NoConflictNoVariant
  <2>6. /\ n \in Seq(Component) /\ d \in Seq(Component) /\ x \in Seq(Component)
    BY <1>4, <2>2, <2>3, NamesAreSeqs
  <2> QED
    BY <2>1, <2>3, <2>4, <2>5, <2>6, NestedWithSpelling
<1>6. FinalSet(valid)' \subseteq FinalSet(valid) \cup put
  BY <1>1 DEF FinalSet
<1>7. Creates(valid.writes)' = Creates(valid'.writes) /\ Creates(valid'.writes) \subseteq Creates(valid.writes)
  BY <1>1 DEF Creates, IsCreate
<1>8. Unnested'
  BY <1>1, <1>5, <1>6, <1>7 DEF Unnested
<1>9. Whole'
  <2>1. ASSUME NEW x \in paired \cup CaseRefused,
               NEW d \in ((valid.dels \ put) \cap push.refs) \ push.writes
        PROVE  ~SameKey(d, x)
    <3>1. CASE x \in paired
      BY <2>1, <3>1 DEF Whole
    <3>2. CASE x \in CaseRefused
      <4>1. d \notin valid.writes
        BY <2>1 DEF AsAsked
      <4> QED
        BY <1>2, <2>1, <3>2, <4>1
    <3> QED
      BY <3>1, <3>2
  <2> QED
    BY <1>1, <2>1 DEF Whole
<1> QED
  BY <1>1, <1>3, <1>8, <1>9 DEF Settled, Unlike, MacSettled

LEMMA CaseSettledStep ==
    ASSUME Preflight, CaseSettled
    PROVE  AsAsked' /\ Reported' /\ Unnested' /\ Unlike' /\ MacSettled' /\ Whole' /\ Clear'
<1> USE DEF Preflight
<1>1. /\ stage = "case" /\ stage' = (IF push.mac THEN "mac" ELSE "pack") /\ CaseRefused = {}
      /\ UNCHANGED <<push, valid, paired, tried, done, refs>>
  BY DEF CaseSettled
<1>2. \A n \in Creates(valid.writes) : ConflictsIn(FinalSet(valid), n) = {}
  BY <1>1 DEF CaseRefused
<1>3. AsAsked' /\ Reported' /\ Clear'
  BY <1>1, Refusing DEF AsAsked
<1>4. Unnested' /\ Unlike'
  BY <1>1, <1>2 DEF Unnested, Unlike, Creates, IsCreate, FinalSet
<1>5. MacSettled' /\ Whole'
  BY <1>1 DEF MacSettled, Whole, Settled
<1> QED
  BY <1>3, <1>4, <1>5

LEMMA MacPassStep ==
    ASSUME Preflight, MacPass
    PROVE  AsAsked' /\ Reported' /\ Unnested' /\ Unlike' /\ MacSettled' /\ Whole' /\ Clear'
<1> USE DEF Preflight, TypeOK, Entries
<1> DEFINE bad == {n \in valid.writes : MacBadWrite(n)}
           left == DropWrites(bad)
           halves == RenameHalves(Creates(bad), [left EXCEPT !.dels = @ \ bad])
           unlinks == {d \in left.dels : MacBadDelete(d)}
           kept == left.dels \cap (MacHalves(bad, left) \cup unlinks)
<1>1. /\ valid' = [left EXCEPT !.dels = @ \ kept]
      /\ paired' = paired \cup Creates(bad)
      /\ stage' = (IF bad \cup kept = {} THEN "pack" ELSE "df")
      /\ stage = "mac" /\ UNCHANGED <<push, tried, done, refs>>
  BY Zenon DEF MacPass
<1>2. left.dels = valid.dels /\ left.writes = valid.writes \ bad
  BY DEF DropWrites
<1>3. /\ valid'.dels = valid.dels \ kept /\ valid'.writes = valid.writes \ bad
  BY <1>1 DEF DropWrites
<1>4. kept = valid.dels \cap ((valid.dels \cap bad) \cup halves \cup unlinks)
  BY <1>2 DEF MacHalves
<1>5. halves = {d \in ((valid.dels \ bad) \cap push.refs) \ (valid.writes \ bad) :
                   \E x \in Creates(bad) : SameKey(d, x)}
  BY DEF RenameHalves, DropWrites
<1>6. unlinks = {d \in valid.dels : MacBadDelete(d)}
  BY <1>2
<1> HIDE DEF bad, left, halves, unlinks, kept
<1>7. AsAsked' /\ Reported' /\ Clear'
  BY <1>1, <1>3, Refusing DEF AsAsked
<1>8. Whole'
  <2>1. ASSUME NEW x \in paired \cup Creates(bad),
               NEW d \in ((valid.dels \ kept) \cap push.refs) \ push.writes
        PROVE  ~SameKey(d, x)
    <3>1. CASE x \in paired
      BY <2>1, <3>1 DEF Whole
    <3>2. CASE x \in Creates(bad)
      <4>1. d \notin valid.writes
        BY <2>1 DEF AsAsked
      <4>2. d \notin bad
        BY <1>4, <2>1
      <4> QED
        BY <1>4, <1>5, <2>1, <3>2, <4>1, <4>2
    <3> QED
      BY <3>1, <3>2
  <2> QED
    BY <1>1, <1>3, <2>1 DEF Whole
<1>9. CASE bad \cup kept = {}
  <2>1. bad = {} /\ kept = {} /\ unlinks = {}
    BY <1>4, <1>6, <1>9
  <2>2. valid' = valid
    BY <1>1, <2>1 DEF left, DropWrites
  <2>3. Unnested' /\ Unlike'
    BY <1>1, <2>2 DEF Unnested, Unlike, Creates, IsCreate, FinalSet
  <2>4. (\A n \in valid.writes : ~MacBadWrite(n)) /\ \A d \in valid.dels : ~MacBadDelete(d)
    BY <1>6, <2>1 DEF bad
  <2>5. MacSettled'
    BY <1>1, <2>2, <2>4 DEF MacSettled, MacBadWrite, MacBadDelete, FileClashes, Tracked, IsCreate,
                            FinalSet
  <2> QED
    BY <1>7, <1>8, <2>3, <2>5
<1>10. CASE bad \cup kept # {}
  BY <1>1, <1>7, <1>8, <1>10 DEF Unnested, Unlike, MacSettled, Settled
<1> QED
  BY <1>9, <1>10

LEMMA PackStep ==
    ASSUME Preflight, Pack
    PROVE  AsAsked' /\ Reported' /\ Unnested' /\ Unlike' /\ MacSettled' /\ Whole' /\ Clear'
<1> USE DEF Preflight, TypeOK, Entries
<1>1. /\ stage = "pack" /\ stage' = "delete" /\ valid'.dels = valid.dels
      /\ valid' = valid \/ valid'.writes = {}
      /\ UNCHANGED <<push, paired, tried, done, refs>>
  BY DEF Pack, DropWrites
<1>2. AsAsked' /\ Clear'
  BY <1>1, Refusing DEF AsAsked
<1>3. Reported'
  BY <1>1 DEF Reported
<1>4. Unnested' /\ Unlike'
  BY <1>1 DEF Unnested, Unlike, Creates, IsCreate, FinalSet, Settled
<1>5. MacSettled'
  BY <1>1 DEF MacSettled, MacBadWrite, MacBadDelete, FileClashes, Tracked, IsCreate,
              FinalSet, Settled
<1>6. Whole'
  BY <1>1 DEF Whole
<1> QED
  BY <1>2, <1>3, <1>4, <1>5, <1>6

\* Phases 4 and 5 refuse nothing beforehand.
LEMMA Carrying ==
    ASSUME Preflight, UNCHANGED <<push, valid, paired>>,
           stage \in {"delete", "write", "end"}, stage' \in {"delete", "write", "end"}
    PROVE  AsAsked' /\ Unnested' /\ Unlike' /\ MacSettled' /\ Whole'
<1> USE DEF Preflight
<1>1. AsAsked' /\ Whole'
  BY DEF AsAsked, Whole
<1>2. Unnested' /\ Unlike'
  BY DEF Unnested, Unlike, Creates, IsCreate, FinalSet, Settled
<1>3. MacSettled'
  BY DEF MacSettled, MacBadWrite, MacBadDelete, FileClashes, Tracked, IsCreate, FinalSet, Settled
<1> QED
  BY <1>1, <1>2, <1>3

LEMMA DeleteReported ==
    ASSUME Preflight, NEW n \in Names, Delete(n)
    PROVE  AsAsked' /\ Reported' /\ Unnested' /\ Unlike' /\ MacSettled' /\ Whole' /\ Clear'
<1> USE DEF Preflight, TypeOK, Entries
<1>1. /\ stage = "delete" /\ stage' = "delete" /\ UNCHANGED <<push, valid, paired>>
      /\ n \in valid.dels /\ tried'.dels = tried.dels \cup {n} /\ tried'.writes = tried.writes
      /\ done'.dels \subseteq done.dels \cup {n} /\ done'.writes = done.writes
  BY DEF Delete, Attempt, Mark
<1>2. done.writes = {}
  BY <1>1 DEF Accounted, Reported
<1>3. Reported' /\ Clear'
  BY <1>1, <1>2 DEF Reported, Clear
<1> QED
  BY <1>1, <1>3, Carrying

LEMMA WriteReported ==
    ASSUME Preflight, NEW n \in Names, Write(n)
    PROVE  AsAsked' /\ Reported' /\ Unnested' /\ Unlike' /\ MacSettled' /\ Whole' /\ Clear'
<1> USE DEF Preflight, TypeOK, Entries
<1>1. /\ stage = "write" /\ stage' = "write" /\ UNCHANGED <<push, valid, paired>>
      /\ n \in valid.writes /\ tried'.writes = tried.writes \cup {n} /\ tried'.dels = tried.dels
      /\ done'.dels = done.dels
      /\ done'.writes = done.writes \/ (done'.writes = done.writes \cup {n} /\ Rechecked(n))
  BY DEF Write, Attempt, Mark
<1>2. Reported'
  BY <1>1 DEF Reported
<1>3. ASSUME push.mac, Rechecked(n), ~IsCreate(n), n \notin done.dels
      PROVE  ConflictsIn((push.refs \ done.dels) \cap push.dels, n) = {}
  <2>1. ConflictsIn(Live \cap Undeleted, n) = {}
    BY <1>3 DEF Rechecked
  <2>2. (push.refs \ done.dels) \cap push.dels \subseteq Live \cap Undeleted
    BY DEF Live, Undeleted
  <2> QED
    BY <2>1, <2>2, ConflictsMonotone
<1>4. Clear'
  BY <1>1, <1>3 DEF Clear, IsCreate
<1> QED
  BY <1>1, <1>2, <1>4, Carrying

LEMMA PreflightKept ==
    ASSUME IInv, Preflight, [Next]_vars
    PROVE  Preflight'
<1>1. TypeOK' /\ Accounted'
  BY InvStep DEF IInv
<1>2. CASE DeletesDone \/ WritesDone
  <2>1. /\ UNCHANGED <<push, valid, paired, tried, done>>
        /\ stage \in {"delete", "write", "end"} /\ stage' \in {"delete", "write", "end"}
    BY <1>2 DEF DeletesDone, WritesDone
  <2>2. Reported' /\ Clear'
    BY <2>1 DEF Preflight, Reported, Clear, IsCreate
  <2> QED
    BY <1>1, <2>1, <2>2, Carrying DEF Preflight
<1>3. CASE UNCHANGED vars
  BY <1>1, <1>3 DEF vars, Preflight, AsAsked, Reported, Unnested, Unlike, MacSettled, Whole,
     Clear, Creates, IsCreate, FinalSet, MacBadWrite, MacBadDelete, FileClashes, Tracked
<1> QED
  BY <1>1, <1>2, <1>3, ValidateStep, DFStep, CasePassStep, CaseSettledStep, MacPassStep,
     PackStep, DeleteReported, WriteReported DEF Next, Preflight

LEMMA PreflightAlways == Spec => []Preflight
<1>1. Init => IInv /\ Preflight
  BY InvInit, PreflightInit
<1>2. IInv /\ Preflight /\ [Next]_vars => (IInv /\ Preflight)'
  BY InvStep, PreflightKept
<1> QED
  BY <1>1, <1>2, PTL DEF Spec

-----------------------------------------------------------------------------
(***************************************************************************)
(* When every deletion of the preflight was reported done, the remote is   *)
(* within the final set the preflight judged, so the re-checks of phase 5  *)
(* and the folder tree refuse no write.                                    *)
(***************************************************************************)
LEMMA AllDone ==
    ASSUME Preflight, stage = "write", valid.dels \subseteq done.dels, NEW n \in valid.writes
    PROVE  Rechecked(n) /\ Fits(n)
<1> USE DEF Preflight, TypeOK, Entries
<1>1. /\ Live \subseteq FinalSet(valid) /\ refs \subseteq FinalSet(valid)
      /\ n \in FinalSet(valid)
  BY DEF Live, FinalSet, Accounted, Reported
<1>2. IsCreate(n) => ConflictsIn(FinalSet(valid), n) = {}
  BY DEF Unlike, Creates, Settled
<1>3. push.mac /\ ~IsCreate(n) => ConflictsIn(FinalSet(valid), n) = {}
  BY DEF MacSettled, MacBadWrite, Settled
<1>4. Rechecked(n)
  <2>1. ConflictsIn(Live, n) \subseteq ConflictsIn(FinalSet(valid), n)
    BY <1>1, ConflictsMonotone
  <2>2. ConflictsIn(Live \cap Undeleted, n) \subseteq ConflictsIn(FinalSet(valid), n)
    <3>1. Live \cap Undeleted \subseteq FinalSet(valid)
      BY <1>1
    <3> QED
      BY <3>1, ConflictsMonotone
  <2> QED
    BY <1>2, <1>3, <2>1, <2>2 DEF Rechecked
<1>5. ASSUME NEW m \in refs PROVE ~Nested(n, m)
  <2>1. \A x \in Creates(valid.writes), y \in FinalSet(valid) : ~Nested(x, y)
    BY DEF Unnested, Settled
  <2>2. CASE IsCreate(n)
    BY <1>1, <2>1, <2>2 DEF Creates
  <2>3. CASE m \in Creates(valid.writes)
    BY <1>1, <2>1, <2>3, NestedSymmetric
  <2>4. CASE n \in push.refs /\ m \in push.refs
    BY <2>4 DEF AsAsked
  <2> QED
    BY <1>1, <2>2, <2>3, <2>4 DEF FinalSet, Creates, IsCreate
<1> QED
  BY <1>4, <1>5 DEF Fits

\* Phase 5 refuses a write only after a deletion of the batch has failed.
THEOREM RefusedOnlyAfterFailureHolds == Spec => []RefusedOnlyAfterFailure
<1>1. Preflight => RefusedOnlyAfterFailure
  BY AllDone DEF RefusedOnlyAfterFailure
<1> QED
  BY <1>1, PreflightAlways, PTL

\* A rename that the case rule or the Mac rule refuses is refused whole (A1),
\* after any number of rounds, for any names and keys.
THEOREM RenameRefusedWholeHolds == Spec => []RenameRefusedWhole
<1>1. Preflight => RenameRefusedWhole
  BY DEF Preflight, Whole, RenameRefusedWhole
<1> QED
  BY <1>1, PreflightAlways, PTL

(***************************************************************************)
(* What the Mac rule lets through clobbers no file of another ref, also    *)
(* where deletions fail after it: an update whose variant could then have  *)
(* stayed on the remote meets it in the re-check.                          *)
(***************************************************************************)
LEMMA FilesApart ==
    ASSUME Preflight, push.mac
    PROVE  /\ \A n \in done.writes :
                 /\ FileClashes(push.tracked \cup done.writes, n) = {}
                 /\ ~IsCreate(n) => FileClashes(done.dels, n) = {}
                 /\ (~IsCreate(n) /\ n \notin done.dels) => ConflictsIn(refs, n) = {}
           /\ \A d \in done.dels : FileClashes(push.tracked, d) = {}
<1> USE DEF Preflight, TypeOK, Entries
<1>1. /\ done.writes \subseteq valid.writes /\ done.dels \subseteq valid.dels
      /\ tried.writes \subseteq valid.writes
  BY DEF Reported, Accounted
<1>2. ASSUME NEW d \in done.dels PROVE FileClashes(push.tracked, d) = {}
  <2>1. stage \in Settled
    BY <1>2 DEF Reported, Settled
  <2> QED
    BY <1>1, <1>2, <2>1 DEF MacSettled, MacBadDelete
<1>3. ASSUME NEW n \in done.writes
      PROVE  /\ FileClashes(push.tracked \cup done.writes, n) = {}
             /\ ~IsCreate(n) => FileClashes(done.dels, n) = {}
             /\ (~IsCreate(n) /\ n \notin done.dels) => ConflictsIn(refs, n) = {}
  <2>1. stage \in Settled /\ n \in valid.writes
    BY <1>1, <1>3 DEF Reported, Accounted, Settled
  <2>2. ~MacBadWrite(n)
    BY <2>1 DEF MacSettled
  <2>3. FileClashes(push.tracked \cup done.writes, n) = {}
    <3>1. push.tracked \cup done.writes \subseteq push.tracked \cup valid.writes
      BY <1>1
    <3> QED
      BY <2>2, <3>1, ClashesMonotone DEF MacBadWrite
  <2>4. ~IsCreate(n) => FileClashes(done.dels, n) = {}
    BY <1>1, <2>2, ClashesMonotone DEF MacBadWrite
  <2>5. ASSUME ~IsCreate(n), n \notin done.dels PROVE ConflictsIn(refs, n) = {}
    <3>1. ConflictsIn(FinalSet(valid), n) = {}
      BY <2>2, <2>5 DEF MacBadWrite
    <3>2. ConflictsIn((push.refs \ done.dels) \cap push.dels, n) = {}
      BY <1>3, <2>5 DEF Clear
    <3>3. refs \subseteq FinalSet(valid) \cup ((push.refs \ done.dels) \cap push.dels)
      BY <1>1 DEF Accounted, FinalSet, AsAsked
    <3> QED
      BY <3>1, <3>2, <3>3 DEF ConflictsIn
  <2> QED
    BY <2>3, <2>4, <2>5
<1> QED
  BY <1>2, <1>3

\* The tracking refs that git writes and deletes after a push on such a file
\* system keep files of their own.
THEOREM MacKeepsFilesApartHolds == Spec => []MacKeepsFilesApart
<1>1. Preflight => MacKeepsFilesApart
  BY FilesApart DEF MacKeepsFilesApart
<1> QED
  BY <1>1, PreflightAlways, PTL

-----------------------------------------------------------------------------
\* A step of the preflight refuses entries, and one after which it goes on
\* refuses at least one.
LEMMA ShrinkStep ==
    ASSUME TypeOK, Next, InPreflight
    PROVE  Fewer /\ (GoesOn => valid' # valid)
<1> USE DEF TypeOK, Entries, InPreflight
<1>1. \A set : /\ DropWrites(set).dels = valid.dels
               /\ DropWrites(set).writes = valid.writes \ set
  BY DEF DropWrites
<1>2. CASE DFPreflight
  BY <1>1, <1>2 DEF DFPreflight, Fewer, GoesOn
<1>3. CASE CasePass
  <2>1. PICK halves : valid' = [DropWrites(CaseRefused) EXCEPT !.dels = @ \ halves]
    BY <1>3 DEF CasePass
  <2>2. valid'.writes = valid.writes \ CaseRefused /\ valid'.dels = valid.dels \ halves
    BY <1>1, <2>1 DEF DropWrites
  <2>3. CaseRefused # {} /\ CaseRefused \subseteq valid.writes
    BY <1>3 DEF CasePass, CaseRefused, Creates
  <2> QED
    BY <2>2, <2>3 DEF Fewer
<1>4. CASE CaseSettled
  BY <1>4 DEF CaseSettled, Fewer, GoesOn
<1>5. CASE MacPass
  <2> DEFINE bad == {n \in valid.writes : MacBadWrite(n)}
             left == DropWrites(bad)
             unlinks == {d \in left.dels : MacBadDelete(d)}
             kept == left.dels \cap (MacHalves(bad, left) \cup unlinks)
  <2>1. /\ valid' = [left EXCEPT !.dels = @ \ kept]
        /\ stage' = (IF bad \cup kept = {} THEN "pack" ELSE "df")
    BY <1>5, Zenon DEF MacPass
  <2>2. left.dels = valid.dels /\ left.writes = valid.writes \ bad
    BY <1>1
  <2>3. valid'.dels = valid.dels \ kept /\ valid'.writes = valid.writes \ bad
    BY <2>1, <2>2 DEF DropWrites
  <2>4. bad \subseteq valid.writes /\ kept \subseteq valid.dels
    BY <2>2
  <2>5. GoesOn => bad # {} \/ kept # {}
    BY <2>1 DEF GoesOn
  <2> HIDE DEF bad, kept
  <2> QED
    BY <2>3, <2>4, <2>5 DEF Fewer
<1>6. ~(Validate \/ Pack \/ DeletesDone \/ WritesDone \/ \E n \in Names : Delete(n) \/ Write(n))
  BY DEF Validate, Pack, DeletesDone, WritesDone, Delete, Write
<1> QED
  BY <1>2, <1>3, <1>4, <1>5, <1>6 DEF Next

\* The loop of phase 2 ends (push.go): it never puts an entry back, and goes on
\* only after it has refused one, for any names, keys and batch.
THEOREM PreflightShrinksHolds == Spec => PreflightShrinks
<1>1. TypeOK /\ [Next]_vars =>
         [InPreflight => Fewer /\ (GoesOn => valid' # valid)]_vars
  BY ShrinkStep
<1>2. Preflight => TypeOK
  BY DEF Preflight
<1> QED
  BY <1>1, <1>2, PreflightAlways, PTL DEF Spec, PreflightShrinks
=============================================================================
