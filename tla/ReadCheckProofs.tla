---------------------------- MODULE ReadCheckProofs ----------------------------
(***************************************************************************)
(* For any names, any keys that take two names with one file for variants, *)
(* any remote, refspecs and local refs: what the checks let through        *)
(* clobbers no ref but those that what they are blind to affects, and a    *)
(* fetch they let through never makes them refuse the next.                *)
(*                                                                         *)
(* The argument: a name git was let through to, unless the checks are      *)
(* blind to it, is a variant of no other such name and of no ref that is   *)
(* there.  So it has a file of its own, what git finds there is what it    *)
(* means, and a write or a prune of it does to the files what it is meant  *)
(* to.  A write or a prune of a name they are blind to changes one file    *)
(* only, and the names that share it, or that symbolic refs lead to, or    *)
(* that stand in the way of any of these, are affected by definition.      *)
(***************************************************************************)
EXTENDS ReadCheck, SequenceTheorems, WellFoundedInduction, TLAPS

\* What keeps two names from each having a file.
Collide(a, b) == ~case.reftable /\ Variants(a, b)

Read == Before \ hidden
Asked == touched \cup uncompared \cup written

\* When the list command comes, what is there is what was there.
Begun ==
    /\ hidden \subseteq NamesOf({e \in case.loose : e.sym})
    /\ stage = "list" =>
          /\ loose = case.loose /\ packed = case.packed
          /\ ideal = loose \cup {e \in packed : e.name \notin NamesOf(loose)}
          /\ LocalRefs = Listed \ hidden
          /\ touched = {} /\ uncompared = {} /\ written = {} /\ late = {}

\* What the check has found out: of the names of a push, and of the prune
\* candidates, nothing but that no other ref it read is a spelling of one.
Cleared ==
    stage = "git" =>
        /\ written \subseteq touched \cup Unseen
        /\ \A u \in uncompared, m \in Read \ uncompared : ~Collide(u, m)
        /\ \/ case.cmd = "push" /\ touched = uncompared
           \/ /\ case.cmd = "fetch"
              /\ \A t \in touched, m \in Read \cup touched : ~Collide(t, m)
              /\ case.reftable \/ AdvertisedPairs(case.adv) = {}
              /\ FetchDestinations(case.adv, Specs(Read)) \cap Names \subseteq touched
              /\ uncompared = MayPrune(Read, touched)
              /\ hidden = {} => \A e \in case.loose :
                                    e.sym /\ e.name \in touched => e.val \in touched

\* git is left with names it may come to write, wherever symbolic refs lead.
Given ==
    stage = "git" =>
        /\ \A e \in left : e.name \in written /\ (e.sym => e = OriginHead /\ e.val \in written)
        /\ prunable \subseteq Asked
        /\ \A e \in ideal : e.sym /\ e.name \in written => e.val \in written
        /\ \A n \in written, e \in case.loose :
              e.sym /\ FileOf(e.name) = FileOf(n) => e.val \in written

\* A symbolic ref was there or is the tracking HEAD; in the files, that one may
\* have another spelling.
Pointed ==
    /\ \A e \in ideal : e.sym => e \in Pointers /\ (e \in case.loose \/ e.val \in written)
    /\ \A e \in loose : e.sym => /\ e \in case.loose \/ e.val \in written
                                 /\ e \in Pointers \/ e.val \in Affected

\* A fetch adds no other name.
Grown ==
    (stage = "git" /\ case.cmd = "fetch" /\ late = {} /\ hidden = {})
    => Listed \subseteq Before \cup touched

\* Nothing that came since is a spelling of a name git was let through to.
Apart ==
    stage = "git" =>
        \A a \in Asked \ Blind, m \in (Listed \cup NamesOf(ideal)) \ (Before \cup Asked \cup late) :
            ~Collide(a, m)

Single == \A x, y \in ideal : x.name = y.name => x = y

\* Nothing is listed that is not meant, and the other way round.
Even == \A n \in Names \ Affected : n \in Listed <=> n \in NamesOf(ideal)

Settled == Even /\ Single /\ FilesAgree /\ Apart

IInv ==
    /\ TypeOK
    /\ packed \subseteq case.packed
    /\ Begun /\ Cleared /\ Given /\ Pointed /\ Grown /\ Settled

-----------------------------------------------------------------------------
(* Names, folders and files. *)

Component == DOMAIN CaseKey
FileComponent == {FileKey[c] : c \in Component}

LEMMA NameFacts ==
    ASSUME NEW n \in Names
    PROVE  n \in Seq(Component) /\ Len(n) \in Nat \ {0} /\ DOMAIN n = 1..Len(n)
<1>1. n \in Seq(Component) /\ n # <<>>
  BY NameForm, ReadConstants DEF Component
<1> QED
  BY <1>1

\* A folder: a prefix of a name, the name itself among them.
LEMMA CutFacts ==
    ASSUME NEW n \in Names, NEW i \in 1..Len(n)
    PROVE  /\ SubSeq(n, 1, i) \in Folders(n)
           /\ SubSeq(n, 1, i) \in Seq(Component)
           /\ Len(SubSeq(n, 1, i)) = i /\ DOMAIN SubSeq(n, 1, i) = 1..i
           /\ \A j \in 1..i : SubSeq(n, 1, i)[j] = n[j]
<1>1. n \in Seq(Component) /\ Len(n) \in Nat /\ i \in Nat /\ i >= 1 /\ i <= Len(n)
  BY NameFacts
<1>2. \A j \in 1..i : n[j] \in Component
  BY <1>1
<1>3. /\ SubSeq(n, 1, i) \in Seq(Component)
      /\ Len(SubSeq(n, 1, i)) = i
      /\ \A j \in 1..i : SubSeq(n, 1, i)[j] = n[1 + j - 1]
  <2>1. /\ SubSeq(n, 1, i) \in Seq(Component)
        /\ Len(SubSeq(n, 1, i)) = (IF 1 <= i THEN i - 1 + 1 ELSE 0)
        /\ \A j \in 1..(i - 1 + 1) : SubSeq(n, 1, i)[j] = n[1 + j - 1]
    BY <1>1, <1>2, SubSeqProperties
  <2> QED
    BY <1>1, <2>1
<1>4. \A j \in 1..i : 1 + j - 1 = j
  BY <1>1
<1>5. DOMAIN SubSeq(n, 1, i) = 1..i
  BY <1>3
<1> QED
  BY <1>3, <1>4, <1>5 DEF Folders

LEMMA WholeName ==
    ASSUME NEW n \in Names
    PROVE  SubSeq(n, 1, Len(n)) = n /\ Len(n) \in 1..Len(n) /\ n \in Folders(n)
<1>1. SubSeq(n, 1, Len(n)) = n
  BY NameFacts, SubSeqFull
<1>2. Len(n) \in 1..Len(n)
  BY NameFacts
<1> QED
  BY <1>1, <1>2 DEF Folders

\* The file of a name, or of a folder above one, component by component.
LEMMA FileFacts ==
    ASSUME NEW n \in Names, NEW i \in 1..Len(n)
    PROVE  /\ SubSeq(n, 1, i) \in DOMAIN FileKeys
           /\ FileKeys[SubSeq(n, 1, i)] = [j \in 1..i |-> FileKey[n[j]]]
           /\ FileKeys[SubSeq(n, 1, i)] \in Seq(FileComponent)
           /\ Len(FileKeys[SubSeq(n, 1, i)]) = i
<1> DEFINE p == SubSeq(n, 1, i)
<1>1. p \in DOMAIN FileKeys /\ FileKeys[p] = Keys(FileKey, p)
  BY CutFacts DEF FileKeys
<1>2. DOMAIN p = 1..i /\ \A j \in 1..i : p[j] = n[j]
  BY CutFacts
<1>3. Keys(FileKey, p) = [j \in 1..i |-> FileKey[p[j]]]
  BY <1>2 DEF Keys
<1>4. [j \in 1..i |-> FileKey[p[j]]] = [j \in 1..i |-> FileKey[n[j]]]
  BY <1>2
<1>5. i \in Nat /\ \A j \in 1..i : n[j] \in Component
  BY NameFacts
<1>6. [j \in 1..i |-> FileKey[n[j]]] \in Seq(FileComponent)
  BY <1>5 DEF FileComponent
<1>7. Len([j \in 1..i |-> FileKey[n[j]]]) = i
  BY <1>5, <1>6
<1> QED
  BY <1>1, <1>3, <1>4, <1>6, <1>7

\* The same, for the whole name.
LEMMA FileOfName ==
    ASSUME NEW n \in Names
    PROVE  /\ FileKeys[n] \in Seq(FileComponent) /\ Len(FileKeys[n]) = Len(n)
           /\ \A j \in 1..Len(n) : FileKeys[n][j] = FileKey[n[j]]
<1>1. SubSeq(n, 1, Len(n)) = n /\ Len(n) \in 1..Len(n)
  BY WholeName
<1>2. /\ FileKeys[SubSeq(n, 1, Len(n))] = [j \in 1..Len(n) |-> FileKey[n[j]]]
      /\ FileKeys[SubSeq(n, 1, Len(n))] \in Seq(FileComponent)
      /\ Len(FileKeys[SubSeq(n, 1, Len(n))]) = Len(n)
  BY <1>1, FileFacts
<1> QED
  BY <1>1, <1>2

\* Two names that share a folder on disk, spelled differently, are variants.
LEMMA FolderVariants ==
    ASSUME NEW a \in Names, NEW b \in Names, NEW i \in 1..Len(a), i \in 1..Len(b),
           SubSeq(a, 1, i) # SubSeq(b, 1, i),
           FileKeys[SubSeq(a, 1, i)] = FileKeys[SubSeq(b, 1, i)]
    PROVE  Variants(a, b)
<1>1. SubSeq(a, 1, i) \in DOMAIN FileKeys /\ SubSeq(b, 1, i) \in DOMAIN FileKeys
  BY FileFacts
<1>2. SameKey(SubSeq(a, 1, i), SubSeq(b, 1, i))
  BY <1>1, ReadConstants DEF SameFileSameKey
<1> QED
  BY <1>2, NameFacts DEF Variants

LEMMA VariantsSymmetric ==
    ASSUME NEW a, NEW b, Variants(a, b)
    PROVE  Variants(b, a)
<1>1. PICK i \in (DOMAIN a) \cap (DOMAIN b) :
          SubSeq(a, 1, i) # SubSeq(b, 1, i) /\ SameKey(SubSeq(a, 1, i), SubSeq(b, 1, i))
  BY DEF Variants
<1>2. SameKey(SubSeq(b, 1, i), SubSeq(a, 1, i))
  BY <1>1 DEF SameKey
<1> QED
  BY <1>1, <1>2 DEF Variants

LEMMA CollideSymmetric == \A a, b : Collide(a, b) => Collide(b, a)
BY VariantsSymmetric DEF Collide

\* Two names in one file are variants.
LEMMA SameFileCollides ==
    ASSUME NEW a \in Names, NEW b \in Names, FileOf(a) = FileOf(b), a # b
    PROVE  Collide(a, b)
<1>1. ~case.reftable /\ FileKeys[a] = FileKeys[b]
  BY DEF FileOf
<1>2. Len(a) = Len(b)
  BY <1>1, FileOfName
<1>3. Len(a) \in 1..Len(a) /\ SubSeq(a, 1, Len(a)) = a /\ SubSeq(b, 1, Len(a)) = b
  BY <1>2, WholeName
<1> QED
  BY <1>1, <1>2, <1>3, FolderVariants DEF Collide

LEMMA PrefixIs ==
    ASSUME NEW S, NEW a \in Seq(S), NEW b \in Seq(S)
    PROVE  IsPrefix(a, b) <=> Len(a) <= Len(b) /\ \A i \in 1..Len(a) : a[i] = b[i]
<1>1. Len(a) \in Nat /\ Len(b) \in Nat
  OBVIOUS
<1>2. /\ SubSeq(a, 1, Len(a)) \in Seq(S) /\ Len(SubSeq(a, 1, Len(a))) = Len(a)
      /\ \A i \in 1..Len(a) : SubSeq(a, 1, Len(a))[i] = a[i]
  BY <1>1
<1>3. ASSUME Len(a) <= Len(b)
      PROVE  /\ SubSeq(b, 1, Len(a)) \in Seq(S) /\ Len(SubSeq(b, 1, Len(a))) = Len(a)
             /\ \A i \in 1..Len(a) : SubSeq(b, 1, Len(a))[i] = b[i]
  BY <1>1, <1>3
<1>4. ASSUME Len(a) <= Len(b), \A i \in 1..Len(a) : a[i] = b[i]
      PROVE  SubSeq(a, 1, Len(a)) = SubSeq(b, 1, Len(a))
  BY <1>2, <1>3, <1>4, SeqEqual
<1> QED
  BY <1>2, <1>3, <1>4 DEF IsPrefix

\* A name in the way of another on disk is in its way, or a variant.
LEMMA PrefixFiles ==
    ASSUME NEW a \in Names, NEW b \in Names, IsStrictPrefix(FileOf(a), FileOf(b))
    PROVE  IsStrictPrefix(a, b) \/ Collide(a, b)
<1>1. CASE case.reftable
  BY <1>1 DEF FileOf
<1>2. CASE ~case.reftable
  <2>1. IsPrefix(FileKeys[a], FileKeys[b]) /\ FileKeys[a] # FileKeys[b]
    BY <1>2 DEF FileOf, IsStrictPrefix
  <2>2. Len(a) <= Len(b) /\ \A j \in 1..Len(a) : FileKeys[a][j] = FileKeys[b][j]
    BY <2>1, FileOfName, PrefixIs
  <2>3. Len(a) \in 1..Len(a) /\ Len(a) \in 1..Len(b) /\ SubSeq(a, 1, Len(a)) = a
    BY <2>2, NameFacts, WholeName
  <2>4. \A j \in 1..Len(a) : FileKey[a[j]] = FileKey[b[j]]
    BY <2>2, <2>3, NameFacts, FileOfName
  <2>5. FileKeys[SubSeq(a, 1, Len(a))] = FileKeys[SubSeq(b, 1, Len(a))]
    <3>1. FileKeys[SubSeq(a, 1, Len(a))] = [j \in 1..Len(a) |-> FileKey[a[j]]]
      BY <2>3, FileFacts
    <3>2. FileKeys[SubSeq(b, 1, Len(a))] = [j \in 1..Len(a) |-> FileKey[b[j]]]
      BY <2>3, FileFacts
    <3> QED
      BY <2>4, <3>1, <3>2
  <2>6. CASE SubSeq(b, 1, Len(a)) = a
    BY <2>1, <2>2, <2>3, <2>6 DEF IsStrictPrefix, IsPrefix
  <2>7. CASE SubSeq(b, 1, Len(a)) # a
    BY <1>2, <2>3, <2>5, <2>7, FolderVariants DEF Collide
  <2> QED
    BY <2>6, <2>7
<1> QED
  BY <1>1, <1>2

\* And conversely.
LEMMA PrefixNames ==
    ASSUME NEW a \in Names, NEW b \in Names, IsStrictPrefix(a, b)
    PROVE  IsStrictPrefix(FileOf(a), FileOf(b))
<1>1. CASE case.reftable
  BY <1>1 DEF FileOf
<1>2. CASE ~case.reftable
  <2>1. IsPrefix(a, b) /\ a # b
    BY DEF IsStrictPrefix
  <2>2. Len(a) <= Len(b) /\ \A j \in 1..Len(a) : a[j] = b[j]
    BY <2>1, NameFacts, PrefixIs
  <2>3. Len(a) \in Nat /\ Len(b) \in Nat /\ Len(a) # Len(b)
    <3>1. a \in Seq(Component) /\ b \in Seq(Component)
      BY NameFacts
    <3>2. Len(a) = Len(b) => a = b
      BY <2>2, <3>1, SeqEqual
    <3> QED
      BY <2>1, <3>1, <3>2
  <2>4. \A j \in 1..Len(a) : FileKeys[a][j] = FileKeys[b][j]
    <3>1. /\ \A j \in 1..Len(a) : FileKeys[a][j] = FileKey[a[j]]
          /\ \A j \in 1..Len(b) : FileKeys[b][j] = FileKey[b[j]]
      BY FileOfName
    <3> QED
      BY <2>2, <2>3, <3>1
  <2>5. Len(FileKeys[a]) = Len(a) /\ Len(FileKeys[b]) = Len(b)
    BY FileOfName
  <2>6. IsPrefix(FileKeys[a], FileKeys[b]) /\ FileKeys[a] # FileKeys[b]
    BY <2>2, <2>3, <2>4, <2>5, FileOfName, PrefixIs
  <2> QED
    BY <1>2, <2>6 DEF FileOf, IsStrictPrefix
<1> QED
  BY <1>1, <1>2

LEMMA NestedFiles ==
    ASSUME NEW a \in Names, NEW b \in Names, ~Collide(a, b)
    PROVE  Nested(FileOf(a), FileOf(b)) <=> Nested(a, b)
BY PrefixFiles, PrefixNames, CollideSymmetric DEF Nested

-----------------------------------------------------------------------------
(* What is in the files, for a name no other is a spelling of. *)

\* The file of such a name holds refs of that name only.
LEMMA OwnFile ==
    ASSUME TypeOK, NEW t \in Names, \A x \in loose : ~Collide(x.name, t)
    PROVE  SameFile(t) = {x \in loose : x.name = t}
<1>1. ASSUME NEW x \in loose
      PROVE  FileOf(x.name) = FileOf(t) <=> x.name = t
  <2>1. x.name \in Names
    BY DEF TypeOK, Entry
  <2>2. ~Collide(x.name, t)
    OBVIOUS
  <2> QED
    BY <2>1, <2>2, SameFileCollides
<1> QED
  BY <1>1 DEF SameFile

\* The file git makes for it, and the folders above it, are spelled that way.
LEMMA OwnSpelling ==
    ASSUME TypeOK, NEW t \in Names, \A x \in loose : ~Collide(x.name, t),
           NEW n \in Spellings(t)
    PROVE  n = t
<1>1. n \in Names /\ FileOf(n) = FileOf(t)
  BY DEF Spellings
<1>2. Len(n) = Len(t)
  <2>1. CASE case.reftable
    BY <1>1, <2>1 DEF FileOf
  <2>2. CASE ~case.reftable
    BY <1>1, <2>2, FileOfName DEF FileOf
  <2> QED
    BY <2>1, <2>2
<1>3. n \in Seq(Component) /\ t \in Seq(Component) /\ Len(t) \in Nat \ {0}
  BY <1>1, NameFacts
<1>4. n[Len(t)] = t[Len(t)]
  <2>1. n[Len(n)] \in {t[Len(t)]} \cup {e.name[Len(t)] : e \in SameFile(t)}
    BY DEF Spellings
  <2>2. SameFile(t) = {x \in loose : x.name = t}
    BY OwnFile
  <2> QED
    BY <1>2, <2>1, <2>2
<1>5. ASSUME NEW i \in 1..(Len(t) - 1)
      PROVE  n[i] = t[i]
  <2> DEFINE beside == {e \in loose : Len(e.name) > i /\ FileOf(SubSeq(e.name, 1, i))
                                                          = FileOf(SubSeq(t, 1, i))}
  <2>1. IF beside = {} THEN n[i] = t[i]
                       ELSE SubSeq(n, 1, i) \in {SubSeq(e.name, 1, i) : e \in beside}
    BY DEF Spellings
  <2>2. i \in 1..Len(t) /\ i \in 1..Len(n) /\ i \in 1..i
    BY <1>2, <1>3
  <2>3. ASSUME NEW e \in beside
        PROVE  SubSeq(e.name, 1, i) = SubSeq(t, 1, i)
    <3>1. e.name \in Names /\ ~Collide(e.name, t) /\ Len(e.name) > i
      BY DEF TypeOK, Entry
    <3>2. i \in 1..Len(e.name)
      BY <3>1, <2>2, NameFacts
    <3>3. FileOf(SubSeq(e.name, 1, i)) = FileOf(SubSeq(t, 1, i))
      OBVIOUS
    <3>4. CASE case.reftable
      BY <3>3, <3>4 DEF FileOf
    <3>5. CASE ~case.reftable
      BY <2>2, <3>1, <3>2, <3>3, <3>5, FolderVariants DEF FileOf, Collide
    <3> QED
      BY <3>4, <3>5
  <2>4. CASE beside = {}
    BY <2>1, <2>4
  <2>5. CASE beside # {}
    <3>1. SubSeq(n, 1, i) = SubSeq(t, 1, i)
      BY <2>1, <2>3, <2>5
    <3>2. SubSeq(n, 1, i)[i] = n[i] /\ SubSeq(t, 1, i)[i] = t[i]
      BY <1>1, <2>2, CutFacts
    <3> QED
      BY <3>1, <3>2
  <2> QED
    BY <2>4, <2>5
<1>6. \A i \in 1..Len(t) : n[i] = t[i]
  BY <1>3, <1>4, <1>5
<1> QED
  BY <1>2, <1>3, <1>6, SeqEqual

LEMMA Least ==
    ASSUME NEW D, D \subseteq Nat, D # {}
    PROVE  \E j \in D : \A i \in D : j <= i
<1> DEFINE R == {ss \in Nat \X Nat : ss[1] < ss[2]}
<1>1. IsWellFoundedOn(R, Nat)
  BY NatLessThanWellFounded DEF OpToRel
<1>2. PICK j \in D : \A i \in D : ~ (<<i, j>> \in R)
  <2> HIDE DEF R
  <2> QED
    BY <1>1, WFMin
<1>3. \A i \in D : ~(i < j)
  BY <1>2
<1> QED
  BY <1>2, <1>3

\* Where two names first differ, one of them like a third that is in its file.
LEMMA FirstDifference ==
    ASSUME NEW a \in Names, NEW n \in Names, NEW g \in Names, FileKeys[n] = FileKeys[g],
           NEW j \in 1..Len(n), j \in 1..Len(a), a[j] # n[j], n[j] = g[j],
           \A i \in 1..(j - 1) : a[i] = n[i],
           SameKey(SubSeq(a, 1, j), SubSeq(n, 1, j))
    PROVE  Variants(a, g)
<1>1. Len(n) = Len(g) /\ \A i \in 1..Len(n) : FileKey[n[i]] = FileKey[g[i]]
  <2>1. /\ Len(FileKeys[n]) = Len(n) /\ \A i \in 1..Len(n) : FileKeys[n][i] = FileKey[n[i]]
        /\ Len(FileKeys[g]) = Len(g) /\ \A i \in 1..Len(g) : FileKeys[g][i] = FileKey[g[i]]
    BY FileOfName
  <2> QED
    BY <2>1
<1>2. j \in Nat /\ Len(n) \in Nat /\ j >= 1 /\ j <= Len(n) /\ j \in 1..Len(g) /\ j \in 1..j
  BY <1>1, NameFacts
<1>3. /\ \A i \in 1..j : SubSeq(a, 1, j)[i] = a[i]
      /\ \A i \in 1..j : SubSeq(n, 1, j)[i] = n[i]
      /\ \A i \in 1..j : SubSeq(g, 1, j)[i] = g[i]
  BY <1>2, CutFacts
<1>4. CASE \A i \in 1..(j - 1) : n[i] = g[i]
  <2>1. \A i \in 1..j : SubSeq(n, 1, j)[i] = SubSeq(g, 1, j)[i]
    <3>1. \A i \in 1..j : i = j \/ i \in 1..(j - 1)
      BY <1>2
    <3> QED
      BY <1>3, <1>4, <3>1
  <2>2. SubSeq(n, 1, j) = SubSeq(g, 1, j)
    BY <1>2, <2>1, CutFacts, SeqEqual
  <2>3. SubSeq(a, 1, j) # SubSeq(g, 1, j)
    BY <1>2, <1>3, <2>2
  <2>4. j \in DOMAIN a /\ j \in DOMAIN g
    BY <1>2, NameFacts
  <2> QED
    BY <2>2, <2>3, <2>4 DEF Variants
<1>5. CASE \E i \in 1..(j - 1) : n[i] # g[i]
  <2>1. PICK i \in 1..(j - 1) : n[i] # g[i]
    BY <1>5
  <2>2. i \in Nat /\ i \in 1..Len(a) /\ i \in 1..Len(g) /\ i \in 1..Len(n) /\ i \in 1..i
    BY <1>1, <1>2, NameFacts
  <2>3. \A k \in 1..i : a[k] = n[k] /\ FileKey[n[k]] = FileKey[g[k]]
    BY <1>1, <1>2, <2>2
  <2>4. SubSeq(a, 1, i) # SubSeq(g, 1, i)
    <3>1. SubSeq(a, 1, i)[i] = a[i] /\ SubSeq(g, 1, i)[i] = g[i]
      BY <2>2, CutFacts
    <3> QED
      BY <2>1, <2>2, <2>3, <3>1
  <2>5. FileKeys[SubSeq(a, 1, i)] = FileKeys[SubSeq(g, 1, i)]
    <3>1. FileKeys[SubSeq(a, 1, i)] = [k \in 1..i |-> FileKey[a[k]]]
      BY <2>2, FileFacts
    <3>2. FileKeys[SubSeq(g, 1, i)] = [k \in 1..i |-> FileKey[g[k]]]
      BY <2>2, FileFacts
    <3> QED
      BY <2>3, <3>1, <3>2
  <2> QED
    BY <2>2, <2>4, <2>5, FolderVariants
<1> QED
  BY <1>4, <1>5

\* Folders with one key that are cut at one length have one key.
LEMMA KeysCut ==
    ASSUME NEW a \in Names, NEW n \in Names, NEW i \in 1..Len(a), i \in 1..Len(n),
           NEW j \in 1..i, SameKey(SubSeq(a, 1, i), SubSeq(n, 1, i))
    PROVE  SameKey(SubSeq(a, 1, j), SubSeq(n, 1, j))
<1>1. j \in 1..Len(a) /\ j \in 1..Len(n) /\ i \in Nat /\ j \in Nat /\ j <= i
  BY NameFacts
<1>2. ASSUME NEW key, Keys(key, SubSeq(a, 1, i)) = Keys(key, SubSeq(n, 1, i))
      PROVE  Keys(key, SubSeq(a, 1, j)) = Keys(key, SubSeq(n, 1, j))
  <2>1. \A k \in 1..i : Keys(key, SubSeq(a, 1, i))[k] = key[a[k]]
    BY CutFacts DEF Keys
  <2>2. \A k \in 1..i : Keys(key, SubSeq(n, 1, i))[k] = key[n[k]]
    BY CutFacts DEF Keys
  <2>3. \A k \in 1..j : key[a[k]] = key[n[k]]
    BY <1>1, <1>2, <2>1, <2>2
  <2>4. Keys(key, SubSeq(a, 1, j)) = [k \in 1..j |-> key[a[k]]]
    <3>1. DOMAIN SubSeq(a, 1, j) = 1..j /\ \A k \in 1..j : SubSeq(a, 1, j)[k] = a[k]
      BY <1>1, CutFacts
    <3> QED
      BY <3>1 DEF Keys
  <2>5. Keys(key, SubSeq(n, 1, j)) = [k \in 1..j |-> key[n[k]]]
    <3>1. DOMAIN SubSeq(n, 1, j) = 1..j /\ \A k \in 1..j : SubSeq(n, 1, j)[k] = n[k]
      BY <1>1, CutFacts
    <3> QED
      BY <3>1 DEF Keys
  <2> QED
    BY <2>3, <2>4, <2>5
<1> QED
  BY <1>2 DEF SameKey

\* However git spells the file of a name, it is no variant of a name that is one
\* neither of it nor of what is there.
LEMMA NoNewSpelling ==
    ASSUME TypeOK, NEW a \in Names, NEW t \in Names, NEW n \in Spellings(t),
           ~Collide(a, t), \A x \in loose : ~Collide(a, x.name)
    PROVE  ~Collide(a, n)
<1> SUFFICES ASSUME ~case.reftable, Variants(a, n) PROVE FALSE
  BY DEF Collide
<1>1. n \in Names /\ FileKeys[n] = FileKeys[t]
  BY DEF Spellings, FileOf
<1>2. PICK i \in (DOMAIN a) \cap (DOMAIN n) :
          SubSeq(a, 1, i) # SubSeq(n, 1, i) /\ SameKey(SubSeq(a, 1, i), SubSeq(n, 1, i))
  BY DEF Variants
<1>3. i \in 1..Len(a) /\ i \in 1..Len(n) /\ i \in Nat /\ Len(n) \in Nat /\ Len(n) = Len(t)
  <2>1. Len(FileKeys[n]) = Len(n) /\ Len(FileKeys[t]) = Len(t)
    BY <1>1, FileOfName
  <2> QED
    BY <1>1, <2>1, NameFacts
<1> DEFINE D == {j \in 1..i : a[j] # n[j]}
<1>4. D \subseteq Nat /\ D # {}
  <2>1. ASSUME \A j \in 1..i : a[j] = n[j] PROVE FALSE
    <3>1. SubSeq(a, 1, i) = SubSeq(n, 1, i)
      BY <1>1, <1>3, <2>1, CutFacts, SeqEqual
    <3> QED
      BY <1>2, <3>1
  <2> QED
    BY <1>3, <2>1
<1>5. PICK j \in D : \A k \in D : j <= k
  <2> HIDE DEF D
  <2> QED
    BY <1>4, Least
<1>6. /\ j \in 1..i /\ j \in Nat /\ a[j] # n[j] /\ j \in 1..Len(a) /\ j \in 1..Len(n)
      /\ \A k \in 1..(j - 1) : a[k] = n[k]
  BY <1>3, <1>5
<1>7. SameKey(SubSeq(a, 1, j), SubSeq(n, 1, j))
  BY <1>1, <1>2, <1>3, <1>6, KeysCut
<1>8. ASSUME NEW g \in Names, FileKeys[n] = FileKeys[g], n[j] = g[j], ~Collide(a, g)
      PROVE  FALSE
  BY <1>1, <1>6, <1>7, <1>8, FirstDifference DEF Collide
<1>9. CASE n[j] = t[j]
  BY <1>1, <1>8, <1>9
<1>10. CASE j = Len(n) /\ n[j] # t[j]
  <2>1. n[j] \in {e.name[j] : e \in SameFile(t)}
    BY <1>3, <1>10 DEF Spellings
  <2>2. PICK e \in SameFile(t) : n[j] = e.name[j]
    BY <2>1
  <2>3. e \in loose /\ e.name \in Names /\ FileKeys[e.name] = FileKeys[t]
    BY <2>2 DEF SameFile, FileOf, TypeOK, Entry
  <2> QED
    BY <1>1, <1>8, <2>2, <2>3
<1>11. CASE j # Len(n) /\ n[j] # t[j]
  <2> DEFINE beside == {e \in loose : Len(e.name) > j /\ FileOf(SubSeq(e.name, 1, j))
                                                          = FileOf(SubSeq(t, 1, j))}
  <2>1. j \in 1..(Len(t) - 1)
    BY <1>3, <1>6, <1>11
  <2>2. IF beside = {} THEN n[j] = t[j]
                       ELSE SubSeq(n, 1, j) \in {SubSeq(e.name, 1, j) : e \in beside}
    BY <2>1 DEF Spellings
  <2>3. PICK e \in loose : Len(e.name) > j /\ SubSeq(n, 1, j) = SubSeq(e.name, 1, j)
    BY <1>11, <2>2
  <2>4. e.name \in Names /\ j \in DOMAIN a /\ j \in DOMAIN e.name
    <3>1. e.name \in Names
      BY DEF TypeOK, Entry
    <3> QED
      BY <1>6, <2>3, <3>1, NameFacts
  <2>5. SubSeq(a, 1, j) # SubSeq(n, 1, j)
    <3>1. j \in 1..j /\ SubSeq(a, 1, j)[j] = a[j] /\ SubSeq(n, 1, j)[j] = n[j]
      BY <1>1, <1>6, CutFacts
    <3> QED
      BY <1>6, <3>1
  <2>6. Variants(a, e.name)
    BY <1>7, <2>3, <2>4, <2>5 DEF Variants
  <2> QED
    BY <2>6 DEF Collide
<1> QED
  BY <1>9, <1>10, <1>11

-----------------------------------------------------------------------------
(* Symbolic refs. *)

LEMMA ExpandContains == \A ds, symrefs : ds \subseteq ExpandSymrefs(ds, symrefs)
BY DEF ExpandSymrefs

\* A symbolic ref that is expanded has its target expanded.
LEMMA ExpandClosed ==
    ASSUME NEW ds, NEW symrefs, NEW e \in symrefs, e.name \in ExpandSymrefs(ds, symrefs)
    PROVE  e.val \in ExpandSymrefs(ds, symrefs)
<1> DEFINE targets == {x.val : x \in symrefs}
           closed == {ts \in SUBSET targets :
                        \A x \in symrefs : x.name \in ds \cup ts => x.val \in ts}
<1>1. e.name \in ds \/ \A ts \in closed : e.name \in ts
  BY DEF ExpandSymrefs
<1>2. \A ts \in closed : e.val \in ts
  BY <1>1
<1>3. e.val \in targets
  OBVIOUS
<1> QED
  BY <1>2, <1>3 DEF ExpandSymrefs

\* And nothing else is: whatever contains the names and is closed has it all.
LEMMA ExpandLeast ==
    ASSUME NEW ds, NEW symrefs, NEW X, ds \subseteq X,
           \A e \in symrefs : e.name \in X => e.val \in X
    PROVE  ExpandSymrefs(ds, symrefs) \subseteq X
<1> DEFINE targets == {x.val : x \in symrefs}
           closed == {ts \in SUBSET targets :
                        \A x \in symrefs : x.name \in ds \cup ts => x.val \in ts}
<1>1. targets \cap X \in closed
  OBVIOUS
<1>2. ExpandSymrefs(ds, symrefs) = ds \cup {n \in targets : \A ts \in closed : n \in ts}
  BY DEF ExpandSymrefs
<1> QED
  BY <1>1, <1>2

LEMMA OnceMeant ==
    ASSUME NEW n
    PROVE  OnceBy(Meant, n) = n \/ \E x \in ideal : x.name = n /\ x.sym /\ OnceBy(Meant, n) = x.val
<1>1. CASE \E x \in Meant(n) : x.sym
  <2>1. PICK x \in Meant(n) : x.sym /\ x = CHOOSE y \in Meant(n) : y.sym
    BY <1>1
  <2>2. OnceBy(Meant, n) = x.val
    BY <1>1, <2>1 DEF OnceBy, Target
  <2> QED
    BY <2>1, <2>2 DEF Meant
<1>2. CASE ~\E x \in Meant(n) : x.sym
  BY <1>2 DEF OnceBy
<1> QED
  BY <1>1, <1>2

LEMMA OnceFound ==
    ASSUME NEW n
    PROVE  OnceBy(Found, n) = n \/ \E x \in Found(n) : x.sym /\ OnceBy(Found, n) = x.val
<1>1. CASE \E x \in Found(n) : x.sym
  <2>1. PICK x \in Found(n) : x.sym /\ x = CHOOSE y \in Found(n) : y.sym
    BY <1>1
  <2>2. OnceBy(Found, n) = x.val
    BY <1>1, <2>1 DEF OnceBy, Target
  <2> QED
    BY <2>1, <2>2
<1>2. CASE ~\E x \in Found(n) : x.sym
  BY <1>2 DEF OnceBy
<1> QED
  BY <1>1, <1>2

LEMMA FoundThere == \A n : Found(n) \subseteq loose \cup packed
BY DEF Found, SameFile

\* Where git's write of an entry goes, as git means it and in the files.
WriteMeant(e) == IF e.sym THEN e.name ELSE FollowBy(Meant, e.name)
WriteFound(e) == IF e.sym THEN e.name ELSE FollowBy(Found, e.name)

LEMMA WritesToNames ==
    ASSUME TypeOK, NEW e \in left
    PROVE  e \in Entry /\ WriteMeant(e) \in Names /\ WriteFound(e) \in Names
<1>1. \A n \in Names : OnceBy(Meant, n) \in Names
  BY OnceMeant DEF TypeOK, Entry
<1>2. ASSUME NEW n \in Names
      PROVE  OnceBy(Found, n) \in Names
  <2>1. \A x \in Found(n) : x.val \in Names
    BY FoundThere DEF TypeOK, Entry
  <2> QED
    BY <2>1, OnceFound
<1>3. e \in Entry /\ e.name \in Names
  BY DEF TypeOK, Entry
<1> QED
  BY <1>1, <1>2, <1>3 DEF WriteMeant, WriteFound, FollowBy

\* They stay among the names git may come to write.
LEMMA OnceMeantWritten ==
    ASSUME Given, stage = "git", NEW n \in written
    PROVE  OnceBy(Meant, n) \in written
BY OnceMeant DEF Given

LEMMA OnceFoundWritten ==
    ASSUME TypeOK, packed \subseteq case.packed, Given, Pointed,
           stage = "git", NEW n \in written
    PROVE  OnceBy(Found, n) \in written
<1>1. ASSUME NEW x \in Found(n), x.sym
      PROVE  x.val \in written
  <2>1. x \notin packed
    BY <1>1 DEF TypeOK, IsCase
  <2>2. x \in loose /\ FileOf(x.name) = FileOf(n)
    BY <1>1, <2>1 DEF Found, SameFile
  <2>3. CASE x \in case.loose
    BY <1>1, <2>2, <2>3 DEF Given
  <2> QED
    BY <1>1, <2>2, <2>3 DEF Pointed
<1> QED
  BY <1>1, OnceFound

LEMMA MeansWritten ==
    ASSUME Given, stage = "git", NEW e \in left
    PROVE  WriteMeant(e) \in written
BY OnceMeantWritten DEF Given, WriteMeant, FollowBy

LEMMA FindsWritten ==
    ASSUME TypeOK, packed \subseteq case.packed, Cleared, Given, Pointed,
           stage = "git", NEW e \in left
    PROVE  WriteFound(e) \in written
BY OnceFoundWritten DEF Given, WriteFound, FollowBy

-----------------------------------------------------------------------------
(* The steps. *)

LEMMA WriteEffect ==
    ASSUME TypeOK, NEW e \in left, GitWrites(e)
    PROVE  /\ stage = "git" /\ left' = left \ {e}
           /\ UNCHANGED <<case, stage, hidden, touched, uncompared, written, packed, prunable, late>>
           /\ ideal' = IF \E x \in ideal : Nested(x.name, WriteMeant(e)) THEN ideal
                       ELSE Stored(ideal, [e EXCEPT !.name = WriteMeant(e)])
           /\ \/ /\ Same(Found(WriteFound(e)), e) \/ Blocked(WriteFound(e))
                 /\ loose' = loose
              \/ /\ ~Same(Found(WriteFound(e)), e) /\ ~Blocked(WriteFound(e))
                 /\ \E n \in Spellings(WriteFound(e)) :
                       loose' = (loose \ SameFile(WriteFound(e))) \cup {[e EXCEPT !.name = n]}
<1> DEFINE f == WriteFound(e)
<1>1. /\ stage = "git" /\ left' = left \ {e}
      /\ UNCHANGED <<case, stage, hidden, touched, uncompared, written, packed, prunable, late>>
      /\ ideal' = IF \E x \in ideal : Nested(x.name, WriteMeant(e)) THEN ideal
                  ELSE Stored(ideal, [e EXCEPT !.name = WriteMeant(e)])
      /\ IF Same(Found(f), e) THEN UNCHANGED loose ELSE PutFile(f, [e EXCEPT !.name = f])
  BY DEF GitWrites, WriteMeant, WriteFound
<1>2. \A n : [[e EXCEPT !.name = f] EXCEPT !.name = n] = [e EXCEPT !.name = n]
  BY WritesToNames DEF Entry
<1>3. ASSUME ~Same(Found(f), e), ~Blocked(f)
      PROVE  \E n \in Spellings(f) :
                loose' = (loose \ SameFile(f)) \cup {[e EXCEPT !.name = n]}
  <2>1. PICK n \in Spellings(f) :
           loose' = (loose \ SameFile(f)) \cup {[[e EXCEPT !.name = f] EXCEPT !.name = n]}
    BY <1>1, <1>3 DEF PutFile
  <2> QED
    BY <1>2, <2>1
<1>4. ASSUME ~Same(Found(f), e), Blocked(f)
      PROVE  loose' = loose
  BY <1>1, <1>4 DEF PutFile
<1> QED
  BY <1>1, <1>3, <1>4

LEMMA StoreIsEntry == \A d, v \in Names : Store(d, v) \in Entry /\ Point(d, v) \in Entry
BY DEF Store, Point, Entry

LEMMA GivenTypes ==
    ASSUME TypeOK
    PROVE  /\ \A specs : GitFetches(specs) \subseteq Entry /\ GitRewrites(specs) \subseteq Entry
           /\ \A specs : GitPrunes(specs) \subseteq Names
<1>1. case.adv \subseteq Names
  BY DEF TypeOK, IsCase
<1>2. Tags(case.adv) \subseteq Names
  BY <1>1 DEF Tags
<1>3. ASSUME NEW specs, NEW e \in GitFetches(specs)
      PROVE  e \in Entry
  BY <1>1, <1>2, <1>3, StoreIsEntry DEF GitFetches
<1>4. ASSUME NEW specs, NEW e \in GitRewrites(specs)
      PROVE  e \in Entry
  BY <1>1, <1>4, StoreIsEntry DEF GitRewrites
<1>5. ASSUME NEW specs
      PROVE  GitPrunes(specs) \subseteq Names
  BY DEF GitPrunes, NamesOf, TypeOK, Entry
<1> QED
  BY <1>3, <1>4, <1>5

LEMMA ThroughNames ==
    ASSUME TypeOK, NEW ns, ns \subseteq Names
    PROVE  Through(ns) \subseteq Names
<1>1. \A e \in case.loose : e.val \in Names
  BY DEF TypeOK, IsCase, Entry
<1> QED
  BY <1>1, ExpandLeast DEF Through

LEMMA TypeInit == Init => TypeOK
<1> SUFFICES ASSUME Init PROVE TypeOK
  OBVIOUS
<1>1. case \in Cases /\ IsCase(case)
  BY ReadConstants DEF Init
<1>2. case.loose \subseteq Entry /\ case.packed \subseteq Entry
  BY <1>1 DEF IsCase
<1>3. hidden \subseteq Names
  BY <1>2 DEF Init, Listed, NamesOf, Entry
<1> QED
  BY <1>1, <1>2, <1>3 DEF Init, TypeOK

LEMMA TypeStep == TypeOK /\ [Next]_vars => TypeOK'
<1> SUFFICES ASSUME TypeOK, [Next]_vars PROVE TypeOK'
  OBVIOUS
<1>0. case.adv \subseteq Names /\ ideal \subseteq Entry /\ loose \subseteq Entry /\ packed \subseteq Entry
  BY DEF TypeOK, IsCase
<1>1. CASE List
  <2>1. UNCHANGED <<case, hidden, ideal, loose, packed, late>>
    BY <1>1 DEF List
  <2>2. ASSUME NEW ds, NEW apart, NEW writes, NEW prunes,
               writes \subseteq Entry, prunes \subseteq Names,
               Advertise(ds, apart, writes, prunes)
        PROVE  TypeOK'
    <3>1. NamesOf(writes) \subseteq Names
      BY <2>2 DEF NamesOf, Entry
    <3>2. written' \subseteq Names
      BY <2>2, <3>1, ThroughNames DEF Advertise
    <3> QED
      BY <2>1, <2>2, <3>2 DEF TypeOK, Advertise
  <2>3. CASE Refuse
    BY <2>1, <2>3 DEF TypeOK, Refuse
  <2> DEFINE local == LocalRefs
             specs == GitSpecs(local)
             fetched == FetchWrites(local)
             pushed == PushWrites(local)
  <2>4. CASE Advertise(fetched, MayPrune(local, fetched), GitFetches(specs), GitPrunes(specs))
    BY <2>2, <2>4, GivenTypes
  <2>5. CASE Advertise(pushed, pushed, GitRewrites(specs), {})
    BY <2>2, <2>5, GivenTypes
  <2> QED
    BY <1>1, <2>3, <2>4, <2>5 DEF List
<1>2. ASSUME NEW e \in left, GitWrites(e)
      PROVE  TypeOK'
  <2>1. e \in Entry /\ WriteMeant(e) \in Names
    BY WritesToNames
  <2>2. \A n \in Names : [e EXCEPT !.name = n] \in Entry
    BY <2>1 DEF Entry
  <2>3. ideal' \subseteq Entry
    BY <1>0, <1>2, <2>1, <2>2, WriteEffect DEF Stored
  <2>4. \A n \in Spellings(WriteFound(e)) : n \in Names
    BY DEF Spellings
  <2>5. loose' \subseteq Entry
    <3>1. \/ loose' = loose
          \/ \E n \in Spellings(WriteFound(e)) :
                loose' = (loose \ SameFile(WriteFound(e))) \cup {[e EXCEPT !.name = n]}
      BY <1>2, WriteEffect
    <3> QED
      BY <1>0, <2>2, <2>4, <3>1
  <2>6. left' \subseteq Entry /\ UNCHANGED <<case, stage, hidden, touched, uncompared, written, packed, prunable, late>>
    BY <1>2, WriteEffect DEF TypeOK
  <2> QED
    BY <2>3, <2>5, <2>6 DEF TypeOK
<1>3. ASSUME NEW n \in prunable, GitPrunesOne(n)
      PROVE  TypeOK'
  BY <1>3 DEF TypeOK, GitPrunesOne
<1>4. ASSUME NEW k \in Newcomers, Meddle(k)
      PROVE  TypeOK'
  <2>1. Store(k, k) \in Entry
    BY ReadConstants, StoreIsEntry
  <2>2. ideal' \subseteq Entry /\ loose' \subseteq Entry /\ late' \subseteq Newcomers
    BY <1>0, <1>4, <2>1 DEF TypeOK, Meddle, Stored
  <2>3. UNCHANGED <<case, stage, hidden, touched, uncompared, written, packed, left, prunable>>
    BY <1>4 DEF Meddle
  <2> QED
    BY <2>2, <2>3 DEF TypeOK
<1>5. CASE UNCHANGED vars
  BY <1>5 DEF TypeOK, vars
<1> QED
  BY <1>1, <1>2, <1>3, <1>4, <1>5 DEF Next

\* The store holds entries, what git is left to write is one, and the names are
\* names.
THEOREM TypeCorrect == Spec => []TypeOK
BY TypeInit, TypeStep, PTL DEF Spec

-----------------------------------------------------------------------------
(* The list command. *)

LEMMA ConflictIs ==
    ASSUME NEW S, NEW a \in Names, NEW m \in S \cap Names, ConflictsIn(S, a) = {}
    PROVE  ~Variants(a, m)
BY DEF ConflictsIn, VariantPairs

LEMMA BeforeList ==
    ASSUME TypeOK, Begun, stage = "list"
    PROVE  /\ LocalRefs = Read /\ NamesOf(ideal) = Before /\ Listed = Before
           /\ Before \subseteq Names /\ loose \subseteq ideal
           /\ Symrefs = {e \in ideal : e.sym /\ e.name \notin hidden}
           /\ \A e \in ideal : e.sym => e \in case.loose
           /\ \A e \in ideal : e.name \in hidden => e.sym
           /\ GitSpecs(LocalRefs) = Specs(LocalRefs)
<1>1. LocalRefs = Read /\ Listed = Before
  BY DEF Begun, Listed, Before, Read
<1>2. NamesOf(ideal) = Before
  BY DEF Begun, Before, NamesOf
<1>3. Before \subseteq Names
  BY DEF Before, NamesOf, TypeOK, IsCase, Entry
<1>4. loose \subseteq ideal
  BY DEF Begun
<1>5. Symrefs = {e \in ideal : e.sym /\ e.name \notin hidden}
  BY <1>1, <1>2 DEF Symrefs, NamesOf, Read
<1>6. GitSpecs(LocalRefs) = Specs(LocalRefs)
  <2>1. case.urls \in BOOLEAN
    BY DEF TypeOK, IsCase
  <2>2. CASE case.urls /\ LocalRefs = {}
    BY <2>2 DEF GitSpecs, Specs
  <2>3. CASE case.urls /\ LocalRefs # {}
    BY <2>3 DEF GitSpecs, Specs
  <2>4. CASE ~case.urls
    BY <2>4 DEF GitSpecs, Specs
  <2> QED
    BY <2>1, <2>2, <2>3, <2>4
<1>7. \A e \in ideal : e.sym => e \in case.loose
  BY DEF Begun, TypeOK, IsCase
<1>8. ASSUME NEW e \in ideal, e.name \in hidden
      PROVE  e.sym
  <2>1. PICK x \in case.loose : x.sym /\ x.name = e.name
    BY <1>8 DEF Begun, NamesOf
  <2>2. e \in case.loose
    BY <2>1 DEF Begun, NamesOf
  <2> QED
    BY <2>1, <2>2 DEF TypeOK, IsCase
<1> QED
  BY <1>1, <1>2, <1>3, <1>4, <1>5, <1>6, <1>7, <1>8

LEMMA OneAndOne == \A a, b : <<a>> \o <<b>> = <<a, b>>
<1> TAKE a, b
<1> DEFINE S == {a, b}
<1>1. <<a>> \in Seq(S) /\ <<b>> \in Seq(S) /\ <<a, b>> \in Seq(S)
  OBVIOUS
<1>2. Len(<<a>>) = 1 /\ Len(<<b>>) = 1 /\ Len(<<a, b>>) = 2
  OBVIOUS
<1>3. <<a>> \o <<b>> \in Seq(S) /\ Len(<<a>> \o <<b>>) = 2
  BY <1>1, <1>2, ConcatProperties
<1>4. (<<a>> \o <<b>>)[1] = a /\ (<<a>> \o <<b>>)[2] = b
  BY <1>1, <1>2, ConcatProperties
<1>5. \A i \in 1..2 : (<<a>> \o <<b>>)[i] = <<a, b>>[i]
  <2>1. \A i \in 1..2 : i = 1 \/ i = 2
    OBVIOUS
  <2> QED
    BY <1>4, <2>1
<1> QED
  BY <1>1, <1>2, <1>3, <1>5, SeqEqual

LEMMA FetchTouches ==
    ASSUME TypeOK, Begun, stage = "list"
    PROVE  LET local == LocalRefs
               specs == GitSpecs(local)
               fetched == FetchWrites(local)
           IN /\ \A e \in GitFetches(specs) :
                    /\ e.name \in fetched
                    /\ e.sym => e = OriginHead /\ e.val \in NamesOf(GitFetches(specs))
              /\ GitPrunes(specs) \subseteq fetched \cup MayPrune(local, fetched)
              /\ \A e \in Symrefs : e.name \in fetched => e.val \in fetched
              /\ FetchDestinations(case.adv, Specs(local)) \subseteq fetched
<1> DEFINE local == LocalRefs
           specs == GitSpecs(local)
           fetched == FetchWrites(local)
<1>1. specs = Specs(local) /\ NamesOf(ideal) = Before /\ local = Read
  BY BeforeList
<1>2. FetchDestinations(case.adv, specs) \subseteq fetched
  BY <1>1, ExpandContains DEF FetchWrites
<1>3. \A n \in case.adv : \A d \in MapRef(specs, n) : d \in fetched
  BY <1>2 DEF FetchDestinations
<1>4. Tags(case.adv) \subseteq fetched /\ TrackingHeads(specs) \subseteq fetched
  BY <1>2 DEF FetchDestinations
<1>5. ASSUME NEW e \in GitFetches(specs)
      PROVE  e.name \in fetched /\ (e.sym => e = OriginHead /\ e.val \in NamesOf(GitFetches(specs)))
  <2>1. CASE e \in {Store(dn[1], dn[2]) :
                      dn \in {dn \in Names \X case.adv : dn[1] \in MapRef(specs, dn[2])}}
    BY <1>3, <2>1 DEF Store
  <2>2. CASE e \in {Store(n, n) : n \in Tags(case.adv)}
    BY <1>4, <2>2 DEF Store
  <2>3. CASE e \in {h \in {OriginHead} \cap Entry :
            /\ \E sp \in Maps(specs) : sp.star /\ sp.src = <<"heads">> /\ sp.dst = <<"o">>
            /\ \E n \in case.adv : h.val \in MapRef(specs, n)}
    <3>1. /\ e = OriginHead
          /\ \E sp \in Maps(specs) : sp.star /\ sp.src = <<"heads">> /\ sp.dst = <<"o">>
          /\ \E n \in case.adv : e.val \in MapRef(specs, n)
      BY <2>3
    <3>2. e.val \in NamesOf(GitFetches(specs))
      <4>1. PICK n \in case.adv : e.val \in MapRef(specs, n)
        BY <3>1
      <4>2. e.val \in Names
        BY GivenTypes DEF Entry
      <4>3. Store(e.val, n) \in GitFetches(specs) /\ Store(e.val, n).name = e.val
        <5> DEFINE dn == <<e.val, n>>
        <5>1. dn \in Names \X case.adv /\ dn[1] = e.val /\ dn[2] = n
          BY <4>2
        <5>2. dn \in {pn \in Names \X case.adv : pn[1] \in MapRef(specs, pn[2])}
          BY <4>1, <5>1
        <5>3. Store(e.val, n) = Store(dn[1], dn[2])
          BY <5>1
        <5> HIDE DEF dn
        <5> QED
          BY <5>2, <5>3 DEF GitFetches, Store
      <4> QED
        BY <4>3 DEF NamesOf
    <3>3. <<"o">> \o <<"HEAD">> = <<"o", "HEAD">>
      BY OneAndOne
    <3>4. e.name \in TrackingHeads(specs)
      <4>1. PICK sp \in Maps(specs) : sp.star /\ sp.src = <<"heads">> /\ sp.dst = <<"o">>
        BY <3>1
      <4>2. e.name = sp.dst \o <<"HEAD">>
        BY <3>1, <3>3, <4>1 DEF OriginHead, Point
      <4> QED
        BY <4>1, <4>2 DEF TrackingHeads
    <3> QED
      BY <1>4, <3>1, <3>2, <3>4
  <2> QED
    BY <2>1, <2>2, <2>3 DEF GitFetches
<1>6. ASSUME NEW n \in GitPrunes(specs)
      PROVE  n \in fetched \cup MayPrune(local, fetched)
  <2>1. n \in Before /\ case.prune /\ \E sp \in Maps(specs) : Matches(sp.star, sp.dst, n)
    BY <1>1 DEF GitPrunes
  <2>2. n \notin hidden
    BY BeforeList DEF GitPrunes, Meant, NamesOf
  <2> QED
    BY <1>1, <2>1, <2>2 DEF MayPrune, PruneCandidates, Read
<1>7. ASSUME NEW e \in Symrefs, e.name \in fetched
      PROVE  e.val \in fetched
  BY <1>7, ExpandClosed DEF FetchWrites
<1> QED
  BY <1>1, <1>2, <1>5, <1>6, <1>7

\* What git may come to write was checked, or is unseen.
LEMMA WrittenSeen ==
    ASSUME TypeOK, Begun, stage = "list", NEW ds, NEW writes \in SUBSET Entry,
           \A e \in writes : e.name \in ds \cup Strays,
           \A e \in Symrefs : e.name \in ds => e.val \in ds,
           \A n \in ds \cap Names, m \in Read \ ds : ~Collide(n, m)
    PROVE  Through(NamesOf(writes)) \subseteq (ds \cap Names) \cup Through(Strays)
<1> DEFINE steps == {[name |-> ne[1], val |-> ne[2].val] :
                       ne \in {ne \in Names \X {e \in case.loose : e.sym} :
                                  FileOf(ne[1]) = FileOf(ne[2].name)}}
           X == (ds \cap Names) \cup ExpandSymrefs(Strays, steps)
<1>1. \A ns : Through(ns) = ExpandSymrefs(ns, steps)
  BY DEF Through
<1>2. NamesOf(writes) \subseteq X
  <2>1. Strays \subseteq ExpandSymrefs(Strays, steps)
    <3> HIDE DEF steps
    <3> QED
      BY ExpandContains
  <2> QED
    BY <2>1 DEF NamesOf, Entry
<1>3. ASSUME NEW x \in steps, x.name \in X
      PROVE  x.val \in X
  <2>1. PICK n \in Names, e \in case.loose :
           e.sym /\ FileOf(n) = FileOf(e.name) /\ x.name = n /\ x.val = e.val
    OBVIOUS
  <2>2. CASE x.name \in ExpandSymrefs(Strays, steps)
    <3> HIDE DEF steps
    <3> QED
      BY <2>2, ExpandClosed
  <2>3. CASE n \in ds /\ e.name \in hidden
    <3>1. e.val \in Strays
      BY <2>1, <2>3 DEF Strays
    <3>2. Strays \subseteq ExpandSymrefs(Strays, steps)
      <4> HIDE DEF steps
      <4> QED
        BY ExpandContains
    <3> QED
      BY <2>1, <3>1, <3>2
  <2>4. CASE n \in ds /\ e.name \notin hidden
    <3>1. e.name \in Read /\ e.name \in Names /\ e.val \in Names
      BY <2>4 DEF Read, Before, NamesOf, TypeOK, IsCase, Entry
    <3>2. e.name \in ds
      BY <2>1, <2>4, <3>1, SameFileCollides
    <3>3. e \in Symrefs
      BY <2>1, <2>4, BeforeList DEF Begun
    <3> QED
      BY <2>1, <3>1, <3>2, <3>3
  <2> QED
    BY <1>3, <2>1, <2>2, <2>3, <2>4
<1> HIDE DEF X, steps
<1>4. ExpandSymrefs(NamesOf(writes), steps) \subseteq X
  BY <1>2, <1>3, ExpandLeast
<1> QED
  BY <1>1, <1>4 DEF X

LEMMA ClearedByList ==
    ASSUME TypeOK, Begun, List
    PROVE  Cleared'
<1> DEFINE local == LocalRefs
           fetched == FetchWrites(local)
           prune == MayPrune(local, fetched)
           pushed == PushWrites(local)
<1>1. stage = "list" /\ case' = case /\ hidden' = hidden
  BY DEF List
<1>2. local = Read /\ Read \subseteq Names
  BY <1>1, BeforeList DEF Read
<1>3. Read' = Read
  BY <1>1 DEF Before, Read
<1>4. \A a, b : Collide(a, b)' <=> Collide(a, b)
  BY <1>1 DEF Collide
<1>5. CASE /\ case.cmd = "fetch" /\ MacFetchCheck(local, fetched)
           /\ Advertise(fetched, prune, GitFetches(GitSpecs(local)), GitPrunes(GitSpecs(local)))
  <2>1. touched' = fetched \cap Names /\ uncompared' = prune \cap Names
    BY <1>5 DEF Advertise
  <2>2. case.reftable \/ /\ AdvertisedPairs(case.adv) = {}
                         /\ ~DestinationsCollide(fetched, local)
                         /\ ~LocalsCollide(prune, local)
    <3>1. RefFormat = "reftable" => case.reftable
      BY DEF RefFormat
    <3> QED
      BY <1>5, <3>1 DEF MacFetchCheck
  <2>3. ASSUME NEW u \in uncompared', NEW m \in Read \ uncompared'
        PROVE  ~Collide(u, m)
    <3>1. u \in prune /\ u \in Names /\ m \in (local \ prune) \cap Names
      BY <1>2, <2>1
    <3>2. CASE case.reftable
      BY <3>2 DEF Collide
    <3>3. CASE ~LocalsCollide(prune, local)
      <4>1. ConflictsIn(local \ prune, u) = {}
        BY <3>1, <3>3 DEF LocalsCollide
      <4> QED
        BY <3>1, <4>1, ConflictIs DEF Collide
    <3> QED
      BY <2>2, <3>2, <3>3
  <2>4. ASSUME NEW t \in touched', NEW m \in Read \cup touched'
        PROVE  ~Collide(t, m)
    <3>1. t \in fetched /\ t \in Names /\ m \in (local \cup fetched) \cap Names
      BY <1>2, <2>1
    <3>2. CASE case.reftable
      BY <3>2 DEF Collide
    <3>3. CASE ~DestinationsCollide(fetched, local)
      <4>1. ConflictsIn(local \cup fetched, t) = {}
        BY <3>1, <3>3 DEF DestinationsCollide
      <4> QED
        BY <3>1, <4>1, ConflictIs DEF Collide
    <3> QED
      BY <2>2, <3>2, <3>3
  <2>5. FetchDestinations(case.adv, Specs(Read)) \cap Names \subseteq touched'
    BY <1>1, <1>2, <2>1, FetchTouches
  <2>6. uncompared' = MayPrune(Read, touched')
    <3>1. prune = IF case.prune THEN PruneCandidates(Specs(local), fetched, local) ELSE {}
      BY DEF MayPrune
    <3>2. PruneCandidates(Specs(local), fetched, local) \cap Names
          = PruneCandidates(Specs(local), fetched \cap Names, local)
      BY <1>2 DEF PruneCandidates
    <3>3. prune \cap Names = MayPrune(local, fetched \cap Names)
      BY <3>1, <3>2 DEF MayPrune
    <3> QED
      BY <1>2, <2>1, <3>3
  <2>7. Specs(Read)' = Specs(Read) /\ MayPrune(Read, touched)' = MayPrune(Read, touched')
    BY <1>1, <1>3 DEF Specs, MayPrune
  <2>8. ASSUME hidden = {}, NEW e \in case.loose, e.sym, e.name \in touched'
        PROVE  e.val \in touched'
    <3>1. e \in Symrefs
      BY <1>1, <2>8, BeforeList DEF Begun
    <3>2. e.val \in fetched /\ e.val \in Names
      BY <1>1, <2>1, <2>8, <3>1, FetchTouches DEF TypeOK, IsCase, Entry
    <3> QED
      BY <2>1, <3>2
  <2>9. written' \subseteq touched' \cup Unseen'
    <3> DEFINE writes == GitFetches(GitSpecs(local))
    <3>1. writes \in SUBSET Entry /\ \A e \in writes : e.name \in fetched
      BY <1>1, FetchTouches, GivenTypes
    <3>2. \A n \in fetched \cap Names, m \in Read \ fetched : ~Collide(n, m)
      BY <1>3, <2>1, <2>4
    <3>3. \A e \in Symrefs : e.name \in fetched => e.val \in fetched
      BY <1>1, FetchTouches
    <3>4. Through(NamesOf(writes)) \subseteq touched' \cup Through(Strays)
      <4> HIDE DEF writes, fetched
      <4> QED
        BY <1>1, <2>1, <3>1, <3>2, <3>3, WrittenSeen
    <3>5. written' = Through(NamesOf(writes)) /\ Through(Strays)' = Through(Strays)
      BY <1>1, <1>5 DEF Advertise, Through, Strays, FileOf, Before
    <3> QED
      BY <3>4, <3>5 DEF Unseen
  <2> QED
    BY <1>1, <1>3, <1>4, <1>5, <2>2, <2>3, <2>4, <2>5, <2>6, <2>7, <2>8, <2>9 DEF Cleared
<1>6. CASE /\ case.cmd = "push" /\ MacPushCheck(local, pushed)
           /\ Advertise(pushed, pushed, GitRewrites(GitSpecs(local)), {})
  <2>1. touched' = pushed \cap Names /\ uncompared' = pushed \cap Names
    BY <1>6 DEF Advertise
  <2>2. case.reftable \/ ~LocalsCollide(pushed, local)
    BY <1>6 DEF MacPushCheck, RefFormat
  <2>3. ASSUME NEW u \in uncompared', NEW m \in Read \ uncompared'
        PROVE  ~Collide(u, m)
    <3>1. u \in pushed /\ u \in Names /\ m \in (local \ pushed) \cap Names
      BY <1>2, <2>1
    <3>2. CASE case.reftable
      BY <3>2 DEF Collide
    <3>3. CASE ~LocalsCollide(pushed, local)
      <4>1. ConflictsIn(local \ pushed, u) = {}
        BY <3>1, <3>3 DEF LocalsCollide
      <4> QED
        BY <3>1, <4>1, ConflictIs DEF Collide
    <3> QED
      BY <2>2, <3>2, <3>3
  <2>4. written' \subseteq touched' \cup Unseen'
    <3> DEFINE specs == GitSpecs(local)
               writes == GitRewrites(specs)
    <3>1. specs = Specs(local)
      BY <1>1, BeforeList
    <3>2. UpToDateTracking(case.adv, specs, local) \subseteq pushed
      BY <3>1, ExpandContains DEF PushWrites
    <3>3. ASSUME NEW e \in writes
          PROVE  e.name \in pushed \cup Strays
      <4>1. PICK d \in Names, n \in case.adv, x \in ideal :
               e = Store(d, n) /\ d \in PushTrackingRefs(specs, n) /\ ~x.sym
        BY DEF GitRewrites
      <4>2. CASE n \in local
        BY <3>2, <4>1, <4>2 DEF UpToDateTracking, Store
      <4>3. CASE n \notin local
        <5>1. x.name \in local
          BY <1>1, <1>2, <4>1, BeforeList DEF NamesOf, Read
        <5>2. d \in PushTrackingRefs(case.specs, n)
          BY <4>1, <5>1 DEF GitSpecs, PushTrackingRefs, Maps
        <5>3. n \in {m \in case.adv \ (Before \ hidden) : case.cmd = "push"}
          BY <1>2, <1>6, <4>3 DEF Read
        <5> QED
          BY <4>1, <5>2, <5>3 DEF Strays, Store
      <4> QED
        BY <4>2, <4>3
    <3>4. writes \in SUBSET Entry
      BY GivenTypes
    <3>5. \A e \in Symrefs : e.name \in pushed => e.val \in pushed
      BY ExpandClosed DEF PushWrites
    <3>6. \A n \in pushed \cap Names, m \in Read \ pushed : ~Collide(n, m)
      BY <1>3, <2>1, <2>3
    <3>7. Through(NamesOf(writes)) \subseteq touched' \cup Through(Strays)
      <4> HIDE DEF writes, pushed
      <4> QED
        BY <1>1, <2>1, <3>3, <3>4, <3>5, <3>6, WrittenSeen
    <3>8. written' = Through(NamesOf(writes)) /\ Through(Strays)' = Through(Strays)
      BY <1>1, <1>6 DEF Advertise, Through, Strays, FileOf, Before
    <3> QED
      BY <3>7, <3>8 DEF Unseen
  <2> QED
    BY <1>1, <1>3, <1>4, <1>6, <2>1, <2>3, <2>4 DEF Cleared
<1>7. CASE Refuse
  BY <1>7 DEF Refuse, Cleared
<1> QED
  BY <1>5, <1>6, <1>7 DEF List

LEMMA GivenByList ==
    ASSUME TypeOK, Begun, List
    PROVE  Given'
<1> DEFINE local == LocalRefs
           specs == GitSpecs(local)
           fetched == FetchWrites(local)
           prune == MayPrune(local, fetched)
           pushed == PushWrites(local)
<1>1. stage = "list" /\ UNCHANGED <<case, hidden, ideal, loose, packed, late>>
  BY DEF List
<1>2. /\ \A n : FileOf(n)' = FileOf(n)
      /\ \A e \in ideal : e.sym => e \in case.loose
      /\ \A e \in ideal \cup case.loose : e.name \in Names
  BY <1>1, BeforeList DEF FileOf, TypeOK, IsCase, Entry
<1>3. ASSUME NEW ds, NEW apart, NEW writes, NEW prunes, writes \subseteq Entry,
             Advertise(ds, apart, writes, prunes)
      PROVE  /\ NamesOf(writes) \subseteq written'
             /\ \A n \in written', e \in case.loose :
                   e.sym /\ FileOf(e.name) = FileOf(n) => e.val \in written'
  <2> DEFINE steps == {[name |-> ne[1], val |-> ne[2].val] :
                         ne \in {ne \in Names \X {e \in case.loose : e.sym} :
                                    FileOf(ne[1]) = FileOf(ne[2].name)}}
  <2>1. written' = ExpandSymrefs(NamesOf(writes), steps)
    BY <1>3 DEF Advertise, Through
  <2>2. written' \subseteq Names
    <3>1. NamesOf(writes) \subseteq Names
      BY <1>3 DEF NamesOf, Entry
    <3> QED
      BY <1>3, <3>1, ThroughNames DEF Advertise
  <2>3. ASSUME NEW n \in written', NEW e \in case.loose, e.sym, FileOf(e.name) = FileOf(n)
        PROVE  e.val \in written'
    <3> DEFINE ne == <<n, e>>
               x == [name |-> n, val |-> e.val]
    <3>1. ne \in Names \X {y \in case.loose : y.sym} /\ ne[1] = n /\ ne[2] = e
      BY <2>2, <2>3
    <3>2. ne \in {ye \in Names \X {y \in case.loose : y.sym} : FileOf(ye[1]) = FileOf(ye[2].name)}
      BY <2>3, <3>1
    <3>3. x = [name |-> ne[1], val |-> ne[2].val]
      BY <3>1
    <3>4. x \in steps
      <4> HIDE DEF ne, x
      <4> QED
        BY <3>2, <3>3
    <3>5. x.name = n /\ x.val = e.val
      OBVIOUS
    <3> HIDE DEF steps, x
    <3> QED
      BY <2>1, <3>4, <3>5, ExpandClosed
  <2> HIDE DEF steps
  <2>4. NamesOf(writes) \subseteq written'
    BY <2>1, ExpandContains
  <2> QED
    BY <2>3, <2>4
<1>4. ASSUME NEW ds, NEW apart, NEW writes, NEW prunes, writes \subseteq Entry,
             Advertise(ds, apart, writes, prunes),
             \A e \in writes : e.sym => e = OriginHead /\ e.val \in NamesOf(writes),
             prunes \subseteq Asked'
      PROVE  Given'
  <2>1. left' = writes /\ prunable' = prunes
    BY <1>4 DEF Advertise
  <2>2. /\ NamesOf(writes) \subseteq written'
        /\ \A n \in written', e \in case.loose :
              e.sym /\ FileOf(e.name) = FileOf(n) => e.val \in written'
    BY <1>3, <1>4
  <2>3. \A e \in left' : e.name \in written' /\ (e.sym => e = OriginHead /\ e.val \in written')
    BY <1>4, <2>1, <2>2 DEF NamesOf
  <2>4. \A e \in ideal : e.sym /\ e.name \in written' => e.val \in written'
    BY <1>2, <2>2
  <2> QED
    BY <1>1, <1>2, <1>4, <2>1, <2>2, <2>3, <2>4 DEF Given
<1>5. CASE Advertise(fetched, prune, GitFetches(specs), GitPrunes(specs))
  <2>1. GitPrunes(specs) \subseteq Asked'
    <3>1. touched' = fetched \cap Names /\ uncompared' = prune \cap Names
      BY <1>5 DEF Advertise
    <3> QED
      BY <1>1, <3>1, FetchTouches, GivenTypes DEF Asked
  <2>2. \A e \in GitFetches(specs) :
           e.sym => e = OriginHead /\ e.val \in NamesOf(GitFetches(specs))
    BY <1>1, FetchTouches
  <2> QED
    BY <1>4, <1>5, <2>1, <2>2, GivenTypes
<1>6. CASE Advertise(pushed, pushed, GitRewrites(specs), {})
  <2>1. \A e \in GitRewrites(specs) : ~e.sym
    BY DEF GitRewrites, Store
  <2> QED
    BY <1>4, <1>6, <2>1, GivenTypes
<1>7. CASE Refuse
  BY <1>7 DEF Refuse, Given
<1> QED
  BY <1>5, <1>6, <1>7 DEF List

-----------------------------------------------------------------------------
(* What the checks are blind to, and what that affects. *)

LEMMA SelfPrefix == \A n \in Names : IsPrefix(n, n) /\ Tied(n, n)
<1> SUFFICES ASSUME NEW n \in Names PROVE IsPrefix(n, n)
  BY DEF Tied
<1> QED
  BY NameFacts, PrefixIs

LEMMA PrefixChain ==
    ASSUME NEW a \in Names, NEW b \in Names, NEW c \in Names
    PROVE  /\ IsPrefix(a, b) /\ IsPrefix(b, c) => IsPrefix(a, c)
           /\ IsPrefix(a, c) /\ IsPrefix(b, c) => IsPrefix(a, b) \/ IsPrefix(b, a)
<1>1. /\ a \in Seq(Component) /\ b \in Seq(Component) /\ c \in Seq(Component)
      /\ Len(a) \in Nat /\ Len(b) \in Nat /\ Len(c) \in Nat
  BY NameFacts
<1>2. /\ IsPrefix(a, b) <=> Len(a) <= Len(b) /\ \A i \in 1..Len(a) : a[i] = b[i]
      /\ IsPrefix(b, a) <=> Len(b) <= Len(a) /\ \A i \in 1..Len(b) : b[i] = a[i]
      /\ IsPrefix(b, c) <=> Len(b) <= Len(c) /\ \A i \in 1..Len(b) : b[i] = c[i]
      /\ IsPrefix(a, c) <=> Len(a) <= Len(c) /\ \A i \in 1..Len(a) : a[i] = c[i]
  BY <1>1, PrefixIs
<1>3. ASSUME IsPrefix(a, b), IsPrefix(b, c)
      PROVE  IsPrefix(a, c)
  BY <1>1, <1>2, <1>3
<1>4. ASSUME IsPrefix(a, c), IsPrefix(b, c)
      PROVE  IsPrefix(a, b) \/ IsPrefix(b, a)
  <2>1. CASE Len(a) <= Len(b)
    BY <1>1, <1>2, <1>4, <2>1
  <2>2. CASE Len(b) <= Len(a)
    BY <1>1, <1>2, <1>4, <2>2
  <2> QED
    BY <1>1, <2>1, <2>2
<1> QED
  BY <1>3, <1>4

\* The spellings of the names the checks are blind to, and what they lead to.
Blurred == {n \in Names : \E k \in Blind : n = k \/ Variants(n, k)}

Leads == {[name |-> ne[1], val |-> ne[2].val] :
            ne \in {ne \in Names \X Pointers : Tied(ne[1], ne[2].name)}}

Reached == ExpandSymrefs(Blurred, Leads)

LEMMA AffectedIs == Affected = {n \in Names : \E k \in Reached : Tied(n, k)}
BY DEF Affected, Reached, Leads, Blurred

LEMMA LeadIs ==
    /\ \A x \in Leads : x.val \in Names
    /\ \A n \in Names, e \in Pointers :
          Tied(n, e.name) => \E x \in Leads : x.name = n /\ x.val = e.val
<1>1. \A e \in Pointers : e.val \in Names
  BY DEF Pointers, Entry
<1>2. ASSUME NEW n \in Names, NEW e \in Pointers, Tied(n, e.name)
      PROVE  \E x \in Leads : x.name = n /\ x.val = e.val
  <2> DEFINE x == [name |-> n, val |-> e.val]
  <2>1. x \in Leads
    <3> DEFINE ne == <<n, e>>
    <3>1. ne \in Names \X Pointers /\ ne[1] = n /\ ne[2] = e
      OBVIOUS
    <3>2. x = [name |-> ne[1], val |-> ne[2].val]
      BY <3>1
    <3>3. ne \in {pe \in Names \X Pointers : Tied(pe[1], pe[2].name)}
      BY <1>2, <3>1
    <3> HIDE DEF ne, x
    <3> QED
      BY <3>2, <3>3 DEF Leads
  <2>2. x.name = n /\ x.val = e.val
    OBVIOUS
  <2> QED
    BY <2>1, <2>2
<1> QED
  BY <1>1, <1>2 DEF Leads

LEMMA ReachedNames == Reached \subseteq Names
BY LeadIs, ExpandLeast DEF Reached, Blurred

LEMMA AffectedSpellings ==
    ASSUME NEW n \in Names, NEW k \in Blind, n = k \/ Variants(n, k)
    PROVE  n \in Affected
<1>1. n \in Reached
  BY ExpandContains DEF Reached, Blurred
<1> QED
  BY <1>1, AffectedIs, SelfPrefix

LEMMA AffectedPointers ==
    ASSUME NEW e \in Pointers, e.name \in Affected
    PROVE  e.val \in Affected
<1>1. PICK k \in Reached : Tied(e.name, k)
  BY AffectedIs
<1>2. k \in Names /\ Tied(k, e.name)
  BY <1>1, ReachedNames DEF Tied
<1>3. PICK x \in Leads : x.name = k /\ x.val = e.val
  BY <1>2, LeadIs
<1>4. e.val \in Reached
  BY <1>1, <1>3, ExpandClosed DEF Reached
<1> QED
  BY <1>4, AffectedIs, SelfPrefix, ReachedNames

LEMMA AffectedNested ==
    ASSUME NEW n \in Affected, NEW m \in Names, Nested(m, n)
    PROVE  m \in Affected
<1>1. n \in Names /\ \E k \in Reached : Tied(n, k)
  BY AffectedIs
<1>2. PICK k \in Reached, p \in Names : IsPrefix(p, n) /\ IsPrefix(p, k)
  BY <1>1 DEF Tied
<1>3. IsPrefix(m, n) \/ IsPrefix(n, m)
  BY DEF Nested, IsStrictPrefix
<1>4. k \in Names
  BY ReachedNames
<1>5. IsPrefix(p, m) \/ (IsPrefix(m, p) /\ IsPrefix(m, k))
  BY <1>1, <1>2, <1>3, <1>4, PrefixChain
<1>6. Tied(m, k)
  BY <1>2, <1>5, SelfPrefix DEF Tied
<1> QED
  BY <1>6, AffectedIs

LEMMA ExpandGrows ==
    ASSUME NEW ds, NEW more, NEW symrefs, ds \subseteq more
    PROVE  ExpandSymrefs(ds, symrefs) \subseteq ExpandSymrefs(more, symrefs)
<1>1. ds \subseteq ExpandSymrefs(more, symrefs)
  BY ExpandContains
<1>2. \A e \in symrefs : e.name \in ExpandSymrefs(more, symrefs)
                         => e.val \in ExpandSymrefs(more, symrefs)
  BY ExpandClosed
<1> QED
  BY <1>1, <1>2, ExpandLeast

LEMMA BlindGrows ==
    ASSUME UNCHANGED <<case, hidden, touched, uncompared, written>>, late \subseteq late'
    PROVE  Blind \subseteq Blind' /\ Affected \subseteq Affected'
<1>1. \A n : ConflictsIn(late, n) \subseteq ConflictsIn(late', n)
  BY DEF ConflictsIn
<1>2. Blind \subseteq Blind'
  <2>1. \A n : ConflictsIn(late \cup hidden \cup Unseen, n)
                 \subseteq ConflictsIn(late' \cup hidden \cup Unseen, n)
    BY DEF ConflictsIn
  <2>2. Unseen' = Unseen /\ Before' = Before
    BY DEF Unseen, Strays, Through, FileOf, Before
  <2> DEFINE asked == touched \cup uncompared \cup written
             other(l) == {d \in asked : ConflictsIn(l \cup hidden \cup Unseen, d) # {}}
  <2>3. {k \in late : ConflictsIn(asked, k) # {}} \subseteq {k \in late' : ConflictsIn(asked, k) # {}}
    OBVIOUS
  <2>4. other(late) \subseteq other(late')
    BY <2>1
  <2>5. CASE case.reftable
    BY <2>5 DEF Blind
  <2>6. CASE ~case.reftable
    BY <2>2, <2>3, <2>4, <2>6 DEF Blind
  <2> QED
    BY <2>5, <2>6
<1>3. Blurred \subseteq Blurred'
  BY <1>2 DEF Blurred
<1>4. Leads' = Leads
  BY DEF Leads, Pointers
<1>5. ExpandSymrefs(Blurred, Leads) \subseteq ExpandSymrefs(Blurred', Leads)
  BY <1>3, ExpandGrows
<1>6. Reached \subseteq Reached'
  BY <1>4, <1>5 DEF Reached
<1>7. Affected' = {n \in Names : \E k \in Reached' : Tied(n, k)}
  BY DEF Affected, Reached, Leads, Blurred
<1> QED
  BY <1>2, <1>6, <1>7, AffectedIs

LEMMA BlindStays ==
    ASSUME UNCHANGED <<case, hidden, touched, uncompared, written, late>>
    PROVE  Blind' = Blind /\ Affected' = Affected
BY DEF Blind, Affected, Pointers, Unseen, Strays, Through, FileOf, Before

-----------------------------------------------------------------------------
(* What is in the files is what git means: at the beginning, and by list. *)

\* A ref keeps its value when a reader of its name finds just what is meant.
LEMMA RenameSelf == \A x \in Entry : [x EXCEPT !.name = x.name] = x
BY DEF Entry

LEMMA AgreesWhenFound ==
    ASSUME TypeOK, NEW n, Found(n) = Meant(n), Meant(n) = {} => n \notin Listed
    PROVE  Agrees(n)
<1>1. CASE Meant(n) # {}
  <2>1. \A x \in Found(n) : x.name = n /\ x \in Entry /\ x \in loose \cup packed
    BY FoundThere DEF Meant, TypeOK
  <2>2. n \in Listed
    BY <1>1, <2>1 DEF Listed, NamesOf
  <2>3. \A x \in Found(n) : [x EXCEPT !.name = n] = x
    BY <2>1, RenameSelf
  <2>4. {[x EXCEPT !.name = n] : x \in Found(n)} = Found(n)
    BY <2>3
  <2> QED
    BY <1>1, <2>2, <2>4 DEF Agrees
<1>2. CASE Meant(n) = {}
  BY <1>2 DEF Agrees
<1> QED
  BY <1>1, <1>2

\* And where its file is its own, the other way round.
LEMMA FoundWhenAgrees ==
    ASSUME TypeOK, NEW n \in Names, Agrees(n), \A x \in loose : ~Collide(x.name, n)
    PROVE  Found(n) = Meant(n)
<1>1. \A x \in Found(n) : x.name = n /\ x \in Entry
  BY OwnFile, FoundThere DEF Found, TypeOK
<1>2. {[x EXCEPT !.name = n] : x \in Found(n)} = Found(n)
  BY <1>1, RenameSelf
<1>3. CASE Meant(n) # {}
  BY <1>2, <1>3 DEF Agrees
<1>4. CASE Meant(n) = {}
  <2>1. n \notin Listed
    BY <1>4 DEF Agrees
  <2>2. Found(n) = {}
    BY <1>1, <2>1, FoundThere DEF Listed, NamesOf
  <2> QED
    BY <1>4, <2>2
<1> QED
  BY <1>3, <1>4

LEMMA AllAgreeAtFirst ==
    ASSUME TypeOK, Begun, stage = "list"
    PROVE  /\ Listed = NamesOf(ideal) /\ Single /\ Pointed
           /\ \A n \in Names \ Lost : Agrees(n)
<1>1. loose = case.loose /\ packed = case.packed
      /\ ideal = loose \cup {e \in packed : e.name \notin NamesOf(loose)}
  BY DEF Begun
<1>2. Listed = NamesOf(ideal)
  BY BeforeList
<1>3. Single
  BY <1>1 DEF Single, NamesOf, TypeOK, IsCase
<1>4. Pointed
  <2>1. \A e \in packed : ~e.sym
    BY <1>1 DEF TypeOK, IsCase
  <2>2. \A e \in loose : e.sym => e \in Pointers
    BY <1>1 DEF Pointers, TypeOK
  <2>3. \A e \in ideal : e.sym => e \in Pointers /\ e \in case.loose
    BY <1>1, <2>1, <2>2
  <2> QED
    BY <1>1, <2>2, <2>3 DEF Pointed
<1>5. ASSUME NEW n \in Names \ Lost
      PROVE  Agrees(n)
  <2>1. SameFile(n) = {x \in loose : x.name = n}
    BY <1>1 DEF SameFile, Lost
  <2>2. Found(n) = Meant(n)
    BY <1>1, <2>1 DEF Found, Meant, NamesOf
  <2>3. Meant(n) = {} => n \notin Listed
    BY <1>2 DEF Meant, NamesOf
  <2> QED
    BY <2>2, <2>3, AgreesWhenFound
<1> QED
  BY <1>2, <1>3, <1>4, <1>5

LEMMA InvInit == Init => IInv
<1> SUFFICES ASSUME Init PROVE IInv
  OBVIOUS
<1>1. TypeOK
  BY TypeInit
<1>2. stage = "list" /\ packed \subseteq case.packed /\ Begun
  <2>1. hidden \subseteq Dangling /\ LocalRefs = Listed \ hidden
    BY DEF Init, LocalRefs
  <2>2. hidden \subseteq NamesOf({e \in case.loose : e.sym})
    BY <2>1 DEF Init, Dangling
  <2> QED
    BY <2>1, <2>2 DEF Init, Begun
<1>3. Settled /\ Pointed
  BY <1>1, <1>2, AllAgreeAtFirst DEF Settled, Even, FilesAgree, Apart
<1> QED
  BY <1>1, <1>2, <1>3 DEF IInv, Cleared, Given, Grown

LEMMA NamesAreNames ==
    ASSUME TypeOK
    PROVE  /\ NamesOf(ideal) \subseteq Names /\ Listed \subseteq Names
           /\ Before \subseteq Names /\ Asked \subseteq Names /\ late \subseteq Names
BY ReadConstants DEF TypeOK, IsCase, Entry, NamesOf, Listed, Before, Asked

\* Names there are, or may come to be.
Around == Listed \cup NamesOf(ideal) \cup Asked \cup Before \cup late

\* A name git was let through to has its file to itself, unless the check is
\* blind to it.
LEMMA AllApart ==
    ASSUME TypeOK, Cleared, Apart, stage = "git",
           NEW a \in Asked, NEW m \in Around, Collide(a, m)
    PROVE  a \in Blind
<1>1. a \in Names /\ m \in Names /\ ~case.reftable /\ Variants(a, m)
  BY NamesAreNames DEF Collide, Around
<1>2. \A S : m \in S => m \in ConflictsIn(S, a)
  BY <1>1 DEF ConflictsIn, VariantPairs
<1>3. CASE m \in late \cup hidden \cup Unseen
  <2>1. ConflictsIn(late \cup hidden \cup Unseen, a) # {}
    BY <1>2, <1>3
  <2> QED
    BY <1>1, <2>1 DEF Blind, Asked
<1>4. CASE a \in uncompared /\ m \in uncompared
  <2>1. ConflictsIn(uncompared, a) # {}
    BY <1>2, <1>4
  <2> QED
    BY <1>1, <1>4, <2>1 DEF Blind
<1>5. CASE a \in Unseen /\ m \in Before \cup Asked
  <2>1. ConflictsIn(Before \cup Asked, a) # {}
    BY <1>2, <1>5
  <2> QED
    BY <1>1, <1>5, <2>1 DEF Blind, Asked, Before
<1>6. CASE /\ a \in touched \cup uncompared /\ m \in Read \cup touched \cup uncompared
           /\ ~(a \in uncompared /\ m \in uncompared)
  <2>1. CASE case.cmd = "push" /\ touched = uncompared
    BY <1>6, <2>1 DEF Cleared
  <2>2. CASE /\ case.cmd = "fetch"
             /\ \A t \in touched, b \in Read \cup touched : ~Collide(t, b)
             /\ uncompared = MayPrune(Read, touched)
    <3>1. uncompared \subseteq Read
      BY <2>2 DEF MayPrune, PruneCandidates
    <3>2. Collide(m, a)
      BY CollideSymmetric
    <3>3. a \notin touched /\ m \notin touched
      BY <1>6, <2>2, <3>1, <3>2
    <3>4. a \in uncompared /\ m \in Read \ uncompared
      BY <1>6, <3>1, <3>3
    <3> QED
      BY <3>4 DEF Cleared
  <2> QED
    BY <2>1, <2>2 DEF Cleared
<1>7. CASE m \in (Listed \cup NamesOf(ideal)) \ (Before \cup Asked \cup late)
  BY <1>7 DEF Apart
<1>8. a \in Unseen \/ a \in touched \cup uncompared
  BY DEF Asked, Cleared
<1>9. m \in Before \cup Asked =>
          m \in hidden \cup Unseen \/ m \in Read \cup touched \cup uncompared
  BY DEF Asked, Cleared, Read
<1> QED
  BY <1>3, <1>4, <1>5, <1>6, <1>7, <1>8, <1>9 DEF Around

\* So only its own ref is in its file; or all that is there is affected.
LEMMA OwnOrBlind ==
    ASSUME TypeOK, Cleared, Apart, stage = "git", NEW a \in Asked
    PROVE  /\ a \notin Blind => /\ a \in Names \ Lost
                                /\ \A x \in loose : ~Collide(x.name, a)
                                /\ SameFile(a) = {x \in loose : x.name = a}
                                /\ \A n \in Spellings(a) : n = a
           /\ a \in Blind => a \in Affected
           /\ \A n \in Names : n # a /\ FileOf(n) = FileOf(a) =>
                 /\ a \in Blind => n \in Affected
                 /\ n \in Around => a \in Blind
<1>1. a \in Names
  BY NamesAreNames
<1>2. ASSUME a \notin Blind
      PROVE  \A x \in loose : ~Collide(x.name, a)
  <2>1. \A m \in Around : ~Collide(a, m)
    BY <1>2, AllApart
  <2>2. \A x \in loose : x.name \in Around
    BY DEF Around, Listed, NamesOf
  <2> QED
    BY <2>1, <2>2, CollideSymmetric
<1>3. ASSUME a \notin Blind
      PROVE  a \notin Lost
  <2>1. SUFFICES ASSUME NEW e \in case.loose, e.name # a, FileOf(e.name) = FileOf(a)
                 PROVE  FALSE
    BY DEF Lost
  <2>2. e.name \in Before /\ e.name \in Around
    BY DEF Before, Around, NamesOf
  <2>3. e.name \in Names
    BY <2>2, NamesAreNames
  <2> QED
    BY <1>1, <1>3, <2>1, <2>2, <2>3, SameFileCollides, AllApart
<1>4. ASSUME a \notin Blind
      PROVE  /\ SameFile(a) = {x \in loose : x.name = a}
             /\ \A n \in Spellings(a) : n = a
  BY <1>1, <1>2, <1>4, OwnFile, OwnSpelling
<1>5. a \in Blind => a \in Affected
  BY <1>1, AffectedSpellings
<1>6. ASSUME NEW n \in Names, n # a, FileOf(n) = FileOf(a)
      PROVE  /\ a \in Blind => n \in Affected
             /\ n \in Around => a \in Blind
  <2>1. Collide(n, a) /\ Collide(a, n)
    BY <1>1, <1>6, SameFileCollides
  <2>2. a \in Blind => n \in Affected
    BY <2>1, AffectedSpellings DEF Collide
  <2>3. n \in Around => a \in Blind
    BY <2>1, AllApart
  <2> QED
    BY <2>2, <2>3
<1> QED
  BY <1>1, <1>2, <1>3, <1>4, <1>5, <1>6

-----------------------------------------------------------------------------
(* What the steps of git, and of others, leave as it was. *)

LEMMA ChecksStay ==
    ASSUME UNCHANGED <<case, stage, hidden, touched, uncompared, written>>
    PROVE  /\ Before' = Before /\ Read' = Read /\ Asked' = Asked /\ Lost' = Lost /\ Pointers' = Pointers
           /\ \A n : FileOf(n)' = FileOf(n)
           /\ \A a, b : Collide(a, b)' <=> Collide(a, b)
           /\ Cleared => Cleared'
<1>1. Before' = Before /\ Read' = Read /\ Asked' = Asked /\ Pointers' = Pointers
  BY DEF Before, Read, Asked, Pointers
<1>2. \A n : FileOf(n)' = FileOf(n)
  BY DEF FileOf
<1>3. Lost' = Lost
  BY <1>2 DEF Lost
<1>4. \A a, b : Collide(a, b)' <=> Collide(a, b)
  BY DEF Collide
<1>5. \A local : Specs(local)' = Specs(local)
  BY DEF Specs
<1>6. \A local, ds : MayPrune(local, ds)' = MayPrune(local, ds)
  BY <1>5 DEF MayPrune
<1>7. ASSUME Cleared PROVE Cleared'
  <2>1. Specs(Read)' = Specs(Read)
    BY <1>1, <1>5
  <2>2. MayPrune(Read, touched)' = MayPrune(Read, touched)
    BY <1>1, <1>6
  <2>3. Unseen' = Unseen
    BY DEF Unseen, Strays, Through, FileOf, Before
  <2> QED
    BY <1>1, <1>4, <1>7, <2>1, <2>2, <2>3 DEF Cleared
<1> QED
  BY <1>1, <1>2, <1>3, <1>4, <1>7

\* A name whose refs are as they were, in the files and as git means them.
LEMMA AgreesStays ==
    ASSUME UNCHANGED case, NEW n, Agrees(n),
           Meant(n)' = Meant(n), n \in Listed' <=> n \in Listed,
           SameFile(n)' = SameFile(n),
           {x \in packed' : x.name = n} = {x \in packed : x.name = n}
    PROVE  Agrees(n)'
<1>1. Found(n)' = Found(n)
  BY DEF Found
<1> QED
  BY <1>1 DEF Agrees

\* One name's ref is replaced, or removed, in the files and as git means it: if
\* no other ref shares its file, every ref is still what git means it to be.
LEMMA Rewritten ==
    ASSUME TypeOK, Even, Single, FilesAgree,
           UNCHANGED <<case, stage, hidden, touched, uncompared, written>>, late \subseteq late',
           NEW t \in Names, \A m \in Listed \cup NamesOf(ideal) : ~Collide(t, m),
           NEW W, W \subseteq Entry, \A x \in W : x.name = t, \A x, y \in W : x = y,
           ideal' = {x \in ideal : x.name # t} \cup W,
           loose' = {x \in loose : x.name # t} \cup W,
           packed' \subseteq packed, \A x \in packed : x.name # t => x \in packed',
           W = {} => \A x \in packed' : x.name # t
    PROVE  Even' /\ Single' /\ FilesAgree'
<1>1. \A n : n # t => /\ n \in NamesOf(ideal)' <=> n \in NamesOf(ideal)
                      /\ n \in Listed' <=> n \in Listed
  BY DEF NamesOf, Listed
<1>2. t \in NamesOf(ideal)' <=> W # {}
  BY DEF NamesOf
<1>3. t \in Listed' <=> W # {}
  BY DEF NamesOf, Listed
<1>4. /\ Lost' = Lost /\ Affected \subseteq Affected'
      /\ \A n : FileOf(n)' = FileOf(n)
  BY ChecksStay, BlindGrows
<1>5. Even'
  BY <1>1, <1>2, <1>3, <1>4 DEF Even
<1>6. Single'
  BY DEF Single
<1>7. \A n : /\ SameFile(n)' = {x \in loose' : FileOf(x.name) = FileOf(n)}
             /\ Meant(n)' = {x \in ideal' : x.name = n}
  BY <1>4 DEF SameFile, Meant
<1>8. \A x \in loose : x.name \in Listed /\ x.name \in Names
  BY NamesAreNames DEF Listed, NamesOf
<1>9. ASSUME NEW n \in Names, n \notin Lost, n \notin Affected'
      PROVE  Agrees(n)'
  <2>1. CASE n = t
    <3>1. SameFile(n)' = W
      <4>1. ASSUME NEW x \in loose, x.name # t
            PROVE  FileOf(x.name) # FileOf(n)
        BY <1>8, <2>1, <4>1, SameFileCollides
      <4> QED
        BY <1>7, <2>1, <4>1
    <3>2. Meant(n)' = W
      BY <1>7, <2>1
    <3>3. CASE W # {}
      <4>1. Found(n)' = W
        BY <3>1, <3>3 DEF Found
      <4>2. \A x \in W : [x EXCEPT !.name = n] = x
        BY <2>1, RenameSelf
      <4>3. {[x EXCEPT !.name = n] : x \in W} = W
        BY <4>2
      <4>4. n \in Listed'
        BY <1>3, <2>1, <3>3
      <4>5. {[x EXCEPT !.name = n] : x \in Found(n)'} = Meant(n)' /\ Meant(n)' # {}
        BY <3>2, <3>3, <4>1, <4>3
      <4> QED
        BY <4>4, <4>5 DEF Agrees
    <3>4. CASE W = {}
      BY <1>3, <2>1, <3>2, <3>4 DEF Agrees
    <3> QED
      BY <3>3, <3>4
  <2>2. CASE n # t /\ FileOf(n) = FileOf(t)
    <3>1. n \notin Listed /\ n \notin NamesOf(ideal)
      BY <2>2, SameFileCollides
    <3>2. Meant(n)' = {}
      BY <1>7, <2>2, <3>1 DEF NamesOf
    <3>3. n \notin Listed'
      BY <1>1, <2>2, <3>1
    <3> QED
      BY <3>2, <3>3 DEF Agrees
  <2>3. CASE n # t /\ FileOf(n) # FileOf(t)
    <3>1. SameFile(n)' = SameFile(n)
      <4>1. \A x \in W : FileOf(x.name) # FileOf(n)
        BY <2>3
      <4>2. \A x \in loose : FileOf(x.name) = FileOf(n) => x.name # t
        BY <2>3
      <4> QED
        BY <1>7, <4>1, <4>2 DEF SameFile
    <3>2. {x \in packed' : x.name = n} = {x \in packed : x.name = n}
      BY <2>3
    <3>3. Meant(n)' = Meant(n)
      BY <1>7, <2>3 DEF Meant
    <3>4. Agrees(n)
      BY <1>4, <1>9 DEF FilesAgree
    <3> QED
      BY <1>1, <2>3, <3>1, <3>2, <3>3, <3>4, AgreesStays
  <2> QED
    BY <2>1, <2>2, <2>3
<1>10. FilesAgree'
  BY <1>4, <1>9 DEF FilesAgree
<1> QED
  BY <1>5, <1>6, <1>10

\* Refs of affected names change, and one file does: no other ref does, if none
\* is in that file.
LEMMA Disturbed ==
    ASSUME Even, FilesAgree, UNCHANGED <<case, stage, hidden, touched, uncompared, written, late>>,
           NEW f,
           \A x \in ideal' : x \in ideal \/ x.name \in Affected,
           \A x \in ideal : x \in ideal' \/ x.name \in Affected,
           \A x \in loose' : x \in loose \/ (x.name \in Affected /\ FileOf(x.name) = FileOf(f)),
           \A x \in loose : x \in loose' \/ FileOf(x.name) = FileOf(f),
           packed' \subseteq packed,
           \A x \in packed : x \in packed' \/ x.name \in Affected,
           \A m \in Names \ Affected : FileOf(m) = FileOf(f) => m \notin Listed \cup NamesOf(ideal)
    PROVE  Even' /\ FilesAgree'
<1>1. Affected' = Affected /\ Lost' = Lost /\ \A n : FileOf(n)' = FileOf(n)
  BY ChecksStay, BlindStays
<1>2. ASSUME NEW n \in Names \ Affected
      PROVE  /\ Meant(n)' = Meant(n)
             /\ n \in NamesOf(ideal)' <=> n \in NamesOf(ideal)
             /\ n \in Listed' <=> n \in Listed
             /\ {x \in packed' : x.name = n} = {x \in packed : x.name = n}
  <2>1. Meant(n)' = Meant(n)
    BY DEF Meant
  <2>2. n \in NamesOf(ideal)' <=> n \in NamesOf(ideal)
    BY DEF NamesOf
  <2>3. {x \in packed' : x.name = n} = {x \in packed : x.name = n}
    OBVIOUS
  <2>4. n \in NamesOf(packed)' <=> n \in NamesOf(packed)
    BY DEF NamesOf
  <2>5. n \in NamesOf(loose)' <=> n \in NamesOf(loose)
    BY DEF NamesOf, Listed
  <2> QED
    BY <2>1, <2>2, <2>3, <2>4, <2>5 DEF Listed
<1>3. ASSUME NEW n \in Names \ Affected, n \notin Lost
      PROVE  Agrees(n)'
  <2>1. CASE FileOf(n) = FileOf(f)
    <3>1. Meant(n) = {} /\ n \notin Listed
      BY <2>1 DEF Meant, NamesOf
    <3> QED
      BY <1>2, <3>1 DEF Agrees
  <2>2. CASE FileOf(n) # FileOf(f)
    <3>1. SameFile(n)' = {x \in loose' : FileOf(x.name) = FileOf(n)}
      BY <1>1 DEF SameFile
    <3>2. SameFile(n)' = SameFile(n)
      BY <2>2, <3>1 DEF SameFile
    <3>3. Agrees(n)
      BY <1>3 DEF FilesAgree
    <3> QED
      BY <1>2, <3>2, <3>3, AgreesStays
  <2> QED
    BY <2>1, <2>2
<1> QED
  BY <1>1, <1>2, <1>3 DEF Even, FilesAgree

-----------------------------------------------------------------------------
(* git writes a ref. *)

LEMMA WrittenEntry ==
    ASSUME TypeOK, NEW e \in left
    PROVE  \A n : /\ [e EXCEPT !.name = n].name = n
                  /\ [e EXCEPT !.name = n].sym = e.sym
                  /\ [e EXCEPT !.name = n].val = e.val
                  /\ n \in Names => [e EXCEPT !.name = n] \in Entry
                  /\ n = e.name => [e EXCEPT !.name = n] = e
BY WritesToNames DEF Entry

\* What is in the files and in the refs git means, after it.
LEMMA WriteChanges ==
    ASSUME TypeOK, NEW e \in left, GitWrites(e)
    PROVE  /\ \A x \in ideal' : x \in ideal \/ x = [e EXCEPT !.name = WriteMeant(e)]
           /\ \A x \in ideal : x \in ideal' \/ x.name = WriteMeant(e)
           /\ \A x \in loose' : x \in loose \/ \E n \in Spellings(WriteFound(e)) :
                                                  x = [e EXCEPT !.name = n]
           /\ \A x \in loose : x \in loose' \/ FileOf(x.name) = FileOf(WriteFound(e))
<1>1. \A x \in ideal' : x \in ideal \/ x = [e EXCEPT !.name = WriteMeant(e)]
  BY WriteEffect DEF Stored
<1>2. \A x \in ideal : x \in ideal' \/ x.name = WriteMeant(e)
  BY WriteEffect, WrittenEntry DEF Stored
<1>3. \/ loose' = loose
      \/ \E n \in Spellings(WriteFound(e)) :
            loose' = (loose \ SameFile(WriteFound(e))) \cup {[e EXCEPT !.name = n]}
  BY WriteEffect
<1> QED
  BY <1>1, <1>2, <1>3 DEF SameFile

\* The entries it adds carry what was to be written.
LEMMA WriteNames ==
    ASSUME TypeOK, NEW e \in left, GitWrites(e)
    PROVE  /\ \A x \in ideal' \ ideal : x.name = WriteMeant(e) /\ x.sym = e.sym /\ x.val = e.val
           /\ \A x \in loose' \ loose :
                  x.name \in Spellings(WriteFound(e)) /\ x.sym = e.sym /\ x.val = e.val
<1>1. ASSUME NEW x, NEW n, x = [e EXCEPT !.name = n]
      PROVE  x.name = n /\ x.sym = e.sym /\ x.val = e.val
  BY <1>1, WrittenEntry
<1>2. ASSUME NEW x \in ideal', x \notin ideal
      PROVE  x.name = WriteMeant(e) /\ x.sym = e.sym /\ x.val = e.val
  <2>1. x = [e EXCEPT !.name = WriteMeant(e)]
    BY <1>2, WriteChanges
  <2> QED
    BY <1>1, <2>1
<1>3. ASSUME NEW x \in loose', x \notin loose
      PROVE  x.name \in Spellings(WriteFound(e)) /\ x.sym = e.sym /\ x.val = e.val
  <2>1. PICK n \in Spellings(WriteFound(e)) : x = [e EXCEPT !.name = n]
    BY <1>3, WriteChanges
  <2>2. x.name = n /\ x.sym = e.sym /\ x.val = e.val
    BY <1>1, <2>1
  <2> QED
    BY <2>2
<1> QED
  BY <1>2, <1>3

LEMMA WriteGiven ==
    ASSUME TypeOK, Given, NEW e \in left, GitWrites(e)
    PROVE  Given'
<1>1. /\ stage = "git" /\ left' = left \ {e}
      /\ UNCHANGED <<case, stage, hidden, touched, uncompared, written, packed, prunable, late>>
  BY WriteEffect
<1>2. e.sym => e.val \in written
  BY <1>1 DEF Given
<1>3. \A x \in ideal' : x \in ideal \/ (x.sym = e.sym /\ x.val = e.val)
  BY WriteNames
<1>4. ASSUME NEW x \in ideal', x.sym, x.name \in written
      PROVE  x.val \in written
  BY <1>1, <1>2, <1>3, <1>4 DEF Given
<1>5. Asked' = Asked /\ \A n : FileOf(n)' = FileOf(n)
  BY <1>1, ChecksStay
<1> QED
  BY <1>1, <1>4, <1>5 DEF Given

LEMMA WritePointed ==
    ASSUME TypeOK, Cleared, Given, Pointed, Apart, NEW e \in left, GitWrites(e)
    PROVE  Pointed'
<1>1. stage = "git" /\ UNCHANGED <<case, stage, hidden, touched, uncompared, written, packed, prunable, late>>
  BY WriteEffect
<1>2. Pointers' = Pointers /\ Affected' = Affected
  BY <1>1, ChecksStay, BlindStays
<1>3. ASSUME e.sym
      PROVE  /\ e = OriginHead /\ e \in Pointers /\ e.val \in written /\ e.name \in Asked
             /\ WriteMeant(e) = e.name /\ WriteFound(e) = e.name
  BY <1>1, <1>3, WritesToNames DEF Given, Pointers, Asked, WriteMeant, WriteFound
<1>4. ASSUME NEW x \in ideal', x.sym
      PROVE  x \in Pointers /\ (x \in case.loose \/ x.val \in written)
  <2>1. CASE x \in ideal
    BY <1>4, <2>1 DEF Pointed
  <2>2. CASE x = [e EXCEPT !.name = WriteMeant(e)]
    BY <1>3, <1>4, <2>2, WrittenEntry
  <2> QED
    BY <2>1, <2>2, WriteChanges
<1>5. ASSUME NEW x \in loose', x.sym
      PROVE  (x \in case.loose \/ x.val \in written) /\ (x \in Pointers \/ x.val \in Affected)
  <2>1. CASE x \in loose
    BY <1>5, <2>1 DEF Pointed
  <2>2. CASE \E n \in Spellings(WriteFound(e)) : x = [e EXCEPT !.name = n]
    <3>1. PICK n \in Spellings(WriteFound(e)) : x = [e EXCEPT !.name = n]
      BY <2>2
    <3>2. e.sym /\ x.val = e.val
      BY <1>5, <3>1, WrittenEntry
    <3>3. CASE n = e.name
      BY <1>3, <3>1, <3>2, <3>3, WrittenEntry
    <3>4. CASE n # e.name
      <4>1. e.name \in Blind
        BY <1>1, <1>3, <3>1, <3>2, <3>4, OwnOrBlind
      <4>2. e.val \in Affected
        BY <1>1, <1>3, <3>2, <4>1, OwnOrBlind, AffectedPointers
      <4> QED
        BY <1>3, <3>2, <4>2
    <3> QED
      BY <3>3, <3>4
  <2> QED
    BY <2>1, <2>2, WriteChanges
<1> QED
  BY <1>1, <1>2, <1>4, <1>5 DEF Pointed

LEMMA NothingUnseen ==
    ASSUME case.cmd = "fetch", hidden = {}
    PROVE  Unseen = {}
<1>1. Strays = {}
  BY DEF Strays
<1>2. Through({}) \subseteq {}
  BY ExpandLeast DEF Through
<1> QED
  BY <1>1, <1>2 DEF Unseen

LEMMA WriteGrown ==
    ASSUME TypeOK, packed \subseteq case.packed, Cleared, Given, Pointed, Grown,
           NEW e \in left, GitWrites(e)
    PROVE  Grown'
<1>1. stage = "git" /\ UNCHANGED <<case, stage, hidden, touched, uncompared, written, packed, prunable, late>>
  BY WriteEffect
<1>2. SUFFICES ASSUME case.cmd = "fetch", late = {}, hidden = {}
               PROVE  Listed' \subseteq Before \cup touched
  BY <1>1 DEF Grown, Before
<1>3. Listed \subseteq Before \cup touched
  BY <1>1, <1>2 DEF Grown
<1>4. (\A t \in touched, m \in Before \cup touched : ~Collide(t, m)) /\ written \subseteq touched
  BY <1>1, <1>2, NothingUnseen DEF Cleared, Read
<1>5. \A t \in touched, x \in loose : ~Collide(x.name, t)
  BY <1>3, <1>4, CollideSymmetric DEF Listed, NamesOf
<1>6. WriteFound(e) \in touched /\ touched \subseteq Names
  BY <1>1, <1>4, FindsWritten DEF TypeOK
<1>7. \A n \in Spellings(WriteFound(e)) : n = WriteFound(e)
  BY <1>5, <1>6, OwnSpelling
<1>8. \A x \in loose' : x \in loose \/ x.name = WriteFound(e)
  BY <1>7, WriteNames
<1> QED
  BY <1>1, <1>3, <1>6, <1>8 DEF Listed, NamesOf

LEMMA WriteApart ==
    ASSUME TypeOK, packed \subseteq case.packed, Cleared, Given, Pointed, Apart,
           NEW e \in left, GitWrites(e)
    PROVE  Apart'
<1>1. stage = "git" /\ UNCHANGED <<case, stage, hidden, touched, uncompared, written, packed, prunable, late>>
  BY WriteEffect
<1>2. WriteMeant(e) \in Asked /\ WriteFound(e) \in Asked
  BY <1>1, MeansWritten, FindsWritten DEF Asked
<1>3. Asked' = Asked /\ Blind' = Blind /\ Before' = Before
      /\ \A a, b : Collide(a, b)' <=> Collide(a, b)
  BY <1>1, ChecksStay, BlindStays
<1>4. \A m \in NamesOf(ideal)' : m \in NamesOf(ideal) \cup Asked
  BY <1>2, WriteNames DEF NamesOf
<1>5. \A m \in Listed' : m \in Listed \/ m \in Spellings(WriteFound(e))
  BY <1>1, WriteNames DEF Listed, NamesOf
<1>6. ASSUME NEW a \in Asked \ Blind, NEW n \in Spellings(WriteFound(e))
      PROVE  ~Collide(a, n)
  <2>1. \A m \in Around : ~Collide(a, m)
    BY <1>1, AllApart
  <2>2. WriteFound(e) \in Around /\ \A x \in loose : x.name \in Around
    BY <1>2 DEF Around, Listed, NamesOf
  <2>3. a \in Names /\ WriteFound(e) \in Names
    BY <1>2, NamesAreNames
  <2> QED
    BY <2>1, <2>2, <2>3, NoNewSpelling
<1>7. ASSUME NEW a \in Asked \ Blind,
             NEW m \in (Listed' \cup NamesOf(ideal)') \ (Before \cup Asked \cup late)
      PROVE  ~Collide(a, m)
  BY <1>1, <1>4, <1>5, <1>6 DEF Apart
<1> QED
  BY <1>1, <1>3, <1>7 DEF Apart

\* What is meant and what is found lead to the same names, or stay among those
\* that are affected.
LEMMA OnceTogether ==
    ASSUME TypeOK, Cleared, Apart, FilesAgree, stage = "git", NEW n \in written \ Affected
    PROVE  Found(n) = Meant(n) /\ OnceBy(Found, n) = OnceBy(Meant, n)
<1>1. n \in Asked /\ n \in Names
  BY NamesAreNames DEF Asked
<1>2. n \in Names \ Lost /\ \A x \in loose : ~Collide(x.name, n)
  BY <1>1, OwnOrBlind
<1>3. Agrees(n)
  BY <1>2 DEF FilesAgree
<1>4. Found(n) = Meant(n)
  BY <1>1, <1>2, <1>3, FoundWhenAgrees
<1> QED
  BY <1>4 DEF OnceBy, Target

LEMMA OnceAffected ==
    ASSUME TypeOK, packed \subseteq case.packed, Cleared, Pointed, Apart, stage = "git",
           NEW n \in written \cap Affected
    PROVE  OnceBy(Meant, n) \in Affected /\ OnceBy(Found, n) \in Affected
<1>1. OnceBy(Meant, n) \in Affected
  <2>1. \A x \in ideal : x.sym /\ x.name = n => x.val \in Affected
    BY AffectedPointers DEF Pointed
  <2> QED
    BY <2>1, OnceMeant
<1>2. ASSUME NEW x \in Found(n), x.sym
      PROVE  x.val \in Affected
  <2>1. x \notin packed
    BY <1>2 DEF TypeOK, IsCase
  <2>2. x \in loose /\ FileOf(x.name) = FileOf(n)
    BY <1>2, <2>1 DEF Found, SameFile
  <2>3. n \in Asked /\ x.name \in Names /\ x.name \in Around
    BY <2>2, NamesAreNames DEF Asked, Around, Listed, NamesOf
  <2>4. x.name \in Affected
    BY <2>2, <2>3, OwnOrBlind
  <2> QED
    BY <1>2, <2>2, <2>4, AffectedPointers DEF Pointed
<1> QED
  BY <1>1, <1>2, OnceFound

LEMMA WriteTogether ==
    ASSUME TypeOK, packed \subseteq case.packed, Cleared, Given, Pointed, Apart, FilesAgree,
           stage = "git", NEW e \in left
    PROVE  \/ WriteFound(e) = WriteMeant(e)
           \/ WriteFound(e) \in Affected /\ WriteMeant(e) \in Affected
<1>1. CASE e.sym
  BY <1>1 DEF WriteFound, WriteMeant
<1>2. CASE ~e.sym
  <2> DEFINE n == e.name
             a == OnceBy(Meant, n)
             b == OnceBy(Found, n)
  <2>1. /\ n \in written /\ a \in written /\ b \in written
        /\ WriteMeant(e) = OnceBy(Meant, a) /\ WriteFound(e) = OnceBy(Found, b)
    BY <1>2, OnceMeantWritten, OnceFoundWritten DEF Given, WriteFound, WriteMeant, FollowBy
  <2>2. a = b \/ (a \in Affected /\ b \in Affected)
    BY <2>1, OnceTogether, OnceAffected
  <2> HIDE DEF a, b
  <2>3. CASE a \in Affected /\ b \in Affected
    BY <2>1, <2>3, OnceAffected
  <2>4. CASE a = b /\ a \notin Affected
    BY <2>1, <2>4, OnceTogether
  <2> QED
    BY <2>2, <2>3, <2>4
<1> QED
  BY <1>1, <1>2

LEMMA WriteSingle ==
    ASSUME TypeOK, Single, NEW e \in left, GitWrites(e)
    PROVE  Single'
<1> DEFINE w == [e EXCEPT !.name = WriteMeant(e)]
<1>1. w.name = WriteMeant(e)
  BY WrittenEntry
<1>2. ideal' = ideal \/ ideal' = Stored(ideal, w)
  BY WriteEffect
<1> HIDE DEF w
<1> QED
  BY <1>1, <1>2 DEF Single, Stored

\* Where the checks saw what there is, the write is what git meant.
LEMMA WriteSeen ==
    ASSUME IInv, NEW e \in left, GitWrites(e),
           WriteFound(e) = WriteMeant(e), WriteFound(e) \notin Affected
    PROVE  Even' /\ FilesAgree'
<1> DEFINE t == WriteFound(e)
           w == [e EXCEPT !.name = t]
<1>1. /\ TypeOK /\ packed \subseteq case.packed /\ Cleared /\ Given /\ Pointed
      /\ Even /\ Single /\ FilesAgree /\ Apart
  BY DEF IInv, Settled
<1>2. stage = "git" /\ UNCHANGED <<case, stage, hidden, touched, uncompared, written, packed, prunable, late>>
  BY <1>1, WriteEffect
<1>3. t \in written /\ t \in Asked /\ t \in Names
  BY <1>1, <1>2, FindsWritten, WritesToNames DEF Asked
<1>4. t \notin Blind
  BY <1>1, <1>2, <1>3, OwnOrBlind
<1>5. \A m \in Listed \cup NamesOf(ideal) : ~Collide(t, m) /\ ~Collide(m, t)
  BY <1>1, <1>2, <1>3, <1>4, AllApart, CollideSymmetric DEF Around
<1>6. Found(t) = Meant(t)
  BY <1>1, <1>2, <1>3, OnceTogether
<1>7. SameFile(t) = {x \in loose : x.name = t} /\ \A n \in Spellings(t) : n = t
  BY <1>1, <1>2, <1>3, <1>4, OwnOrBlind
<1>8. /\ e \in Entry /\ w \in Entry /\ w.name = t /\ w.sym = e.sym /\ w.val = e.val
  BY <1>1, <1>3, WrittenEntry, WritesToNames
<1>9. Blocked(t) <=> \E x \in ideal : Nested(x.name, t)
  <2>1. ASSUME NEW m \in Names, Nested(m, t)
        PROVE  m \in Listed <=> m \in NamesOf(ideal)
    <3>1. m \notin Affected
      BY <1>3, <2>1, AffectedNested DEF Nested
    <3> QED
      BY <1>1, <3>1 DEF Even
  <2>2. ASSUME NEW m \in Listed
        PROVE  m \in Names /\ (Nested(FileOf(m), FileOf(t)) <=> Nested(m, t))
    BY <1>1, <1>3, <1>5, NamesAreNames, NestedFiles
  <2>3. ASSUME Blocked(t)
        PROVE  \E x \in ideal : Nested(x.name, t)
    <3>1. \E m \in Listed : Nested(m, t)
      BY <2>2, <2>3 DEF Blocked, Listed, NamesOf
    <3>2. PICK m \in NamesOf(ideal) : Nested(m, t)
      BY <2>1, <2>2, <3>1
    <3> QED
      BY <3>2 DEF NamesOf
  <2>4. ASSUME NEW x \in ideal, Nested(x.name, t)
        PROVE  Blocked(t)
    <3>1. x.name \in NamesOf(ideal) /\ x.name \in Names
      BY <1>1, NamesAreNames DEF NamesOf
    <3>2. x.name \in Listed /\ Nested(FileOf(x.name), FileOf(t))
      BY <2>1, <2>2, <2>4, <3>1
    <3> QED
      BY <2>4, <3>2 DEF Blocked, Listed, NamesOf
  <2> QED
    BY <2>3, <2>4
<1>10. ASSUME Same(Found(t), e)
       PROVE  Stored(ideal, w) = ideal
  <2>1. PICK x \in Meant(t) : x.val = e.val /\ x.sym = e.sym
    BY <1>6, <1>10 DEF Same
  <2>2. x \in ideal /\ x \in Entry /\ x.name = t
    BY <1>1, <2>1 DEF Meant, TypeOK
  <2>3. x = w
    BY <1>8, <2>1, <2>2 DEF Entry
  <2> HIDE DEF w
  <2> QED
    BY <1>1, <1>8, <2>2, <2>3 DEF Stored, Single
<1>11. ideal' = IF Blocked(t) THEN ideal ELSE Stored(ideal, w)
  BY <1>1, <1>9, WriteEffect
<1>12. CASE ideal' = ideal /\ loose' = loose
  <2>1. Affected' = Affected /\ Lost' = Lost /\ \A n : FileOf(n)' = FileOf(n)
    BY <1>2, ChecksStay, BlindStays
  <2>2. Listed' = Listed /\ NamesOf(ideal)' = NamesOf(ideal) /\ packed' = packed
    BY <1>2, <1>12 DEF Listed, NamesOf
  <2>3. \A n : Meant(n)' = Meant(n) /\ SameFile(n)' = SameFile(n)
    BY <1>2, <1>12, <2>1 DEF Meant, SameFile
  <2>4. \A n : Agrees(n) => Agrees(n)'
    BY <1>2, <2>2, <2>3, AgreesStays
  <2> QED
    BY <1>1, <2>1, <2>2, <2>4 DEF Even, FilesAgree
<1>13. CASE ~Same(Found(t), e) /\ ~Blocked(t)
  <2> DEFINE W == {w}
  <2>1. ideal' = {x \in ideal : x.name # t} \cup W
    BY <1>8, <1>11, <1>13 DEF Stored
  <2>2. loose' = (loose \ SameFile(t)) \cup {w}
    BY <1>1, <1>7, <1>13, WriteEffect
  <2>3. loose' = {x \in loose : x.name # t} \cup W
    BY <1>7, <2>2
  <2>4. /\ W \subseteq Entry /\ W # {}
        /\ \A x \in W : x.name = t
        /\ \A x, y \in W : x = y
    BY <1>8
  <2>5. packed' \subseteq packed /\ \A x \in packed : x \in packed'
    BY <1>2
  <2>6. UNCHANGED <<case, stage, hidden, touched, uncompared, written>> /\ late \subseteq late'
    BY <1>2
  <2> HIDE DEF W, t, w
  <2> QED
    BY <1>1, <1>3, <1>5, <2>1, <2>3, <2>4, <2>5, <2>6, Rewritten
<1> QED
  <2>1. CASE Blocked(t)
    BY <1>1, <1>11, <1>12, <2>1, WriteEffect
  <2>2. CASE ~Blocked(t) /\ Same(Found(t), e)
    BY <1>1, <1>10, <1>11, <1>12, <2>2, WriteEffect
  <2> QED
    BY <1>13, <2>1, <2>2

\* Where they did not, it disturbs affected names only.
LEMMA WriteUnseen ==
    ASSUME IInv, NEW e \in left, GitWrites(e),
           WriteFound(e) \in Affected, WriteMeant(e) \in Affected
    PROVE  Even' /\ FilesAgree'
<1> DEFINE f == WriteFound(e)
<1>1. /\ TypeOK /\ packed \subseteq case.packed /\ Cleared /\ Given /\ Pointed
      /\ Even /\ FilesAgree /\ Apart
  BY DEF IInv, Settled
<1>2. stage = "git" /\ UNCHANGED <<case, stage, hidden, touched, uncompared, written, packed, prunable, late>>
  BY <1>1, WriteEffect
<1>3. f \in Asked
  BY <1>1, <1>2, FindsWritten DEF Asked
<1>4. /\ \A x \in ideal' : x \in ideal \/ x.name \in Affected
      /\ \A x \in ideal : x \in ideal' \/ x.name \in Affected
  BY <1>1, WriteNames, WriteChanges
<1>5. ASSUME NEW n \in Spellings(f)
      PROVE  n \in Affected /\ FileOf(n) = FileOf(f)
  <2>1. n \in Names /\ FileOf(n) = FileOf(f)
    BY DEF Spellings
  <2>2. CASE n = f
    BY <2>2
  <2>3. CASE n # f
    BY <1>1, <1>2, <1>3, <2>1, <2>3, OwnOrBlind
  <2> QED
    BY <2>1, <2>2, <2>3
<1>6. \A x \in loose' : x \in loose \/ (x.name \in Affected /\ FileOf(x.name) = FileOf(f))
  BY <1>1, <1>5, WriteNames
<1>7. \A x \in loose : x \in loose' \/ FileOf(x.name) = FileOf(f)
  BY <1>1, WriteChanges
<1>8. ASSUME NEW m \in Names \ Affected, FileOf(m) = FileOf(f)
      PROVE  m \notin Listed \cup NamesOf(ideal)
  BY <1>1, <1>2, <1>3, <1>8, OwnOrBlind DEF Around
<1> HIDE DEF f
<1> QED
  BY <1>1, <1>2, <1>4, <1>6, <1>7, <1>8, Disturbed

LEMMA WriteSettled ==
    ASSUME IInv, NEW e \in left, GitWrites(e)
    PROVE  Settled'
<1>1. /\ TypeOK /\ packed \subseteq case.packed /\ Cleared /\ Given /\ Pointed
      /\ Single /\ FilesAgree /\ Apart
  BY DEF IInv, Settled
<1>2. stage = "git"
  BY <1>1, WriteEffect
<1>3. Even' /\ FilesAgree'
  BY <1>1, <1>2, WriteTogether, WriteSeen, WriteUnseen
<1> QED
  BY <1>1, <1>3, WriteSingle, WriteApart DEF Settled

-----------------------------------------------------------------------------
(* git prunes a ref; another process creates one. *)

LEMMA PruneSettled ==
    ASSUME IInv, NEW n \in prunable, GitPrunesOne(n)
    PROVE  Settled'
<1>1. /\ stage = "git" /\ UNCHANGED <<case, stage, hidden, touched, uncompared, written, left, late>>
      /\ ideal' = ideal \ Meant(n) /\ loose' = loose \ SameFile(n)
      /\ packed' = {e \in packed : e.name # n}
  BY DEF GitPrunesOne
<1>2. TypeOK /\ Cleared /\ Given /\ Even /\ Single /\ FilesAgree /\ Apart
  BY DEF IInv, Settled
<1>3. n \in Asked /\ n \in Names
  BY <1>1, <1>2, NamesAreNames DEF Given
<1>4. Single'
  BY <1>1, <1>2 DEF Single
<1>5. Apart'
  <2>1. Listed' \subseteq Listed /\ NamesOf(ideal)' \subseteq NamesOf(ideal)
    BY <1>1 DEF Listed, NamesOf
  <2>2. Asked' = Asked /\ Blind' = Blind /\ Before' = Before
        /\ \A a, b : Collide(a, b)' <=> Collide(a, b)
    BY <1>1, ChecksStay, BlindStays
  <2> QED
    BY <1>1, <1>2, <2>1, <2>2 DEF Apart
<1>6. packed' \subseteq packed /\ \A x \in packed : x \in packed' \/ x.name = n
  BY <1>1
<1>7. CASE n \notin Affected
  <2> DEFINE W == {}
  <2>1. n \notin Blind
    BY <1>1, <1>2, <1>3, <1>7, OwnOrBlind
  <2>2. SameFile(n) = {x \in loose : x.name = n}
    BY <1>1, <1>2, <1>3, <2>1, OwnOrBlind
  <2>3. \A m \in Listed \cup NamesOf(ideal) : ~Collide(n, m)
    BY <1>1, <1>2, <1>3, <2>1, AllApart DEF Around
  <2>4. ideal' = {x \in ideal : x.name # n} \cup W /\ loose' = {x \in loose : x.name # n} \cup W
    BY <1>1, <2>2 DEF Meant
  <2>5. /\ W \subseteq Entry /\ \A x \in W : x.name = n
        /\ \A x, y \in W : x = y
        /\ \A x \in packed' : x.name # n
    BY <1>1
  <2>6. UNCHANGED <<case, stage, hidden, touched, uncompared, written>> /\ late \subseteq late'
    BY <1>1
  <2> HIDE DEF W
  <2>7. Even' /\ FilesAgree'
    BY <1>2, <1>3, <1>6, <2>3, <2>4, <2>5, <2>6, Rewritten
  <2> QED
    BY <1>4, <1>5, <2>7 DEF Settled
<1>8. CASE n \in Affected
  <2>1. /\ \A x \in ideal' : x \in ideal
        /\ \A x \in ideal : x \in ideal' \/ x.name \in Affected
    BY <1>1, <1>8 DEF Meant
  <2>2. /\ \A x \in loose' : x \in loose
        /\ \A x \in loose : x \in loose' \/ FileOf(x.name) = FileOf(n)
    BY <1>1 DEF SameFile
  <2>3. \A x \in packed : x \in packed' \/ x.name \in Affected
    BY <1>6, <1>8
  <2>4. ASSUME NEW m \in Names \ Affected, FileOf(m) = FileOf(n)
        PROVE  m \notin Listed \cup NamesOf(ideal)
    BY <1>1, <1>2, <1>3, <1>8, <2>4, OwnOrBlind DEF Around
  <2>5. Even' /\ FilesAgree'
    BY <1>1, <1>2, <1>6, <2>1, <2>2, <2>3, <2>4, Disturbed
  <2> QED
    BY <1>4, <1>5, <2>5 DEF Settled
<1> QED
  BY <1>7, <1>8

LEMMA MeddleSettled ==
    ASSUME IInv, NEW k \in Newcomers, Meddle(k)
    PROVE  Settled'
<1> DEFINE w == Store(k, k)
           W == {w}
<1>1. /\ stage = "git" /\ UNCHANGED <<case, stage, hidden, touched, uncompared, written, packed>>
      /\ \A n \in Listed \cup NamesOf(ideal) : n # k /\ ~Variants(n, k)
      /\ ideal' = Stored(ideal, w) /\ loose' = loose \cup {w} /\ late' = late \cup {k}
  BY DEF Meddle
<1>2. TypeOK /\ Even /\ Single /\ FilesAgree /\ Apart
  BY DEF IInv, Settled
<1>3. k \in Names /\ w \in Entry /\ w.name = k
  BY ReadConstants, StoreIsEntry DEF Store
<1>4. ideal' = {x \in ideal : x.name # k} \cup W
  BY <1>1, <1>3 DEF Stored
<1>5. loose' = {x \in loose : x.name # k} \cup W
  BY <1>1 DEF Listed, NamesOf
<1>6. Even' /\ Single' /\ FilesAgree'
  <2>1. \A m \in Listed \cup NamesOf(ideal) : ~Collide(k, m)
    BY <1>1, CollideSymmetric DEF Collide
  <2>2. packed' \subseteq packed /\ \A x \in packed : x \in packed'
    BY <1>1
  <2>3. /\ W \subseteq Entry /\ \A x \in W : x.name = k
        /\ \A x, y \in W : x = y
        /\ W # {}
    BY <1>3
  <2>4. UNCHANGED <<case, stage, hidden, touched, uncompared, written>> /\ late \subseteq late'
    BY <1>1
  <2> HIDE DEF W
  <2> QED
    BY <1>2, <1>3, <1>4, <1>5, <2>1, <2>2, <2>3, <2>4, Rewritten
<1>7. Apart'
  <2>1. /\ \A m \in Listed' : m \in Listed \/ m = k
        /\ \A m \in NamesOf(ideal)' : m \in NamesOf(ideal) \/ m = k
    BY <1>1, <1>3 DEF Listed, NamesOf, Stored
  <2>2. Asked' = Asked /\ Blind \subseteq Blind' /\ Before' = Before
        /\ \A a, b : Collide(a, b)' <=> Collide(a, b)
    BY <1>1, ChecksStay, BlindGrows
  <2> QED
    BY <1>1, <1>2, <2>1, <2>2 DEF Apart
<1> QED
  BY <1>6, <1>7 DEF Settled

-----------------------------------------------------------------------------
(* Every step. *)

LEMMA ListSettles ==
    ASSUME IInv, List
    PROVE  Pointed' /\ Grown' /\ Settled'
<1>1. stage = "list" /\ UNCHANGED <<case, hidden, ideal, loose, packed, late>>
      /\ stage' \in {"git", "refused"}
  BY DEF List, Advertise, Refuse
<1>2. TypeOK /\ Begun
  BY DEF IInv
<1>3. Listed = NamesOf(ideal) /\ Single /\ \A n \in Names \ Lost : Agrees(n)
  BY <1>1, <1>2, AllAgreeAtFirst
<1>4. Listed = Before /\ Before' = Before
  BY <1>1, <1>2 DEF Begun, Listed, Before
<1>5. Listed' = Listed /\ NamesOf(ideal)' = NamesOf(ideal) /\ Lost' = Lost /\ Single'
  BY <1>1, <1>3 DEF Listed, Single, Lost, FileOf
<1>6. \A n \in Names \ Lost : Agrees(n)'
  <2>1. \A n : Meant(n)' = Meant(n) /\ SameFile(n)' = SameFile(n) /\ packed' = packed
    BY <1>1 DEF Meant, SameFile, FileOf
  <2> QED
    BY <1>1, <1>3, <1>5, <2>1, AgreesStays
<1>7. Even' /\ FilesAgree'
  BY <1>3, <1>5, <1>6 DEF Even, FilesAgree
<1>8. Apart'
  BY <1>3, <1>4, <1>5 DEF Apart
<1>9. Grown'
  BY <1>4, <1>5 DEF Grown
<1>10. Pointed'
  <2>1. loose = case.loose /\ \A e \in packed : ~e.sym
    BY <1>1, <1>2 DEF Begun, TypeOK, IsCase
  <2>2. \A e \in loose : e.sym => e \in Pointers
    BY <1>2, <2>1 DEF Pointers, TypeOK
  <2>3. \A e \in ideal : e.sym => e \in Pointers /\ e \in case.loose
    BY <1>1, <1>2, <2>1, <2>2 DEF Begun
  <2>4. Pointers' = Pointers
    BY <1>1 DEF Pointers
  <2> QED
    BY <1>1, <2>1, <2>2, <2>3, <2>4 DEF Pointed
<1> QED
  BY <1>5, <1>7, <1>8, <1>9, <1>10 DEF Settled

LEMMA InvStep == IInv /\ [Next]_vars => IInv'
<1> SUFFICES ASSUME IInv, [Next]_vars PROVE IInv'
  OBVIOUS
<1>0. /\ TypeOK /\ packed \subseteq case.packed /\ Begun /\ Cleared /\ Given /\ Pointed
      /\ Grown /\ Settled /\ Apart
  BY DEF IInv, Settled
<1>1. TypeOK'
  BY <1>0, TypeStep
<1>2. CASE List
  <2>1. stage' \in {"git", "refused"} /\ UNCHANGED <<case, hidden, packed>>
    BY <1>2 DEF List, Advertise, Refuse
  <2>2. Begun' /\ packed' \subseteq case'.packed
    BY <1>0, <2>1 DEF Begun
  <2> QED
    BY <1>0, <1>1, <1>2, <2>2, ListSettles, ClearedByList, GivenByList DEF IInv
<1>3. ASSUME NEW e \in left, GitWrites(e)
      PROVE  IInv'
  <2>1. stage = "git" /\ UNCHANGED <<case, stage, hidden, touched, uncompared, written, packed, prunable, late>>
    BY <1>0, <1>3, WriteEffect
  <2>2. Cleared'
    BY <1>0, <2>1, ChecksStay
  <2>3. Given' /\ Pointed' /\ Grown'
    BY <1>0, <1>3, WriteGiven, WritePointed, WriteGrown
  <2>4. Settled'
    BY <1>3, WriteSettled
  <2>5. Begun' /\ packed' \subseteq case'.packed
    BY <1>0, <2>1 DEF Begun
  <2> QED
    BY <1>1, <2>2, <2>3, <2>4, <2>5 DEF IInv
<1>4. ASSUME NEW n \in prunable, GitPrunesOne(n)
      PROVE  IInv'
  <2>1. /\ stage = "git" /\ UNCHANGED <<case, stage, hidden, touched, uncompared, written, left, late>>
        /\ prunable' \subseteq prunable /\ ideal' \subseteq ideal /\ loose' \subseteq loose
        /\ packed' \subseteq packed
    BY <1>4 DEF GitPrunesOne
  <2>2. Cleared' /\ Asked' = Asked /\ Before' = Before /\ Pointers' = Pointers
        /\ Affected' = Affected /\ \A m : FileOf(m)' = FileOf(m)
    BY <1>0, <2>1, ChecksStay, BlindStays
  <2>3. Given'
    BY <1>0, <2>1, <2>2 DEF Given
  <2>4. Pointed'
    BY <1>0, <2>1, <2>2 DEF Pointed
  <2>5. Grown'
    <3>1. Listed' \subseteq Listed
      BY <2>1 DEF Listed, NamesOf
    <3> QED
      BY <1>0, <2>1, <2>2, <3>1 DEF Grown
  <2>6. Settled'
    BY <1>4, PruneSettled
  <2>7. Begun' /\ packed' \subseteq case'.packed
    BY <1>0, <2>1 DEF Begun
  <2> QED
    BY <1>1, <2>2, <2>3, <2>4, <2>5, <2>6, <2>7 DEF IInv
<1>5. ASSUME NEW k \in Newcomers, Meddle(k)
      PROVE  IInv'
  <2>1. /\ stage = "git" /\ UNCHANGED <<case, stage, hidden, touched, uncompared, written, packed, left, prunable>>
        /\ ideal' = Stored(ideal, Store(k, k)) /\ loose' = loose \cup {Store(k, k)}
        /\ late' = late \cup {k}
    BY <1>5 DEF Meddle
  <2>2. Cleared' /\ Asked' = Asked /\ Pointers' = Pointers /\ Affected \subseteq Affected'
        /\ \A n : FileOf(n)' = FileOf(n)
    BY <1>0, <2>1, ChecksStay, BlindGrows
  <2>3. /\ \A x \in ideal' : x \in ideal \/ ~x.sym
        /\ \A x \in loose' : x \in loose \/ ~x.sym
    BY <2>1 DEF Stored, Store
  <2>4. Given'
    BY <1>0, <2>1, <2>2, <2>3 DEF Given
  <2>5. Pointed'
    BY <1>0, <2>1, <2>2, <2>3 DEF Pointed
  <2>6. Grown'
    BY <2>1 DEF Grown
  <2>7. Settled'
    BY <1>5, MeddleSettled
  <2>8. Begun' /\ packed' \subseteq case'.packed
    BY <1>0, <2>1 DEF Begun
  <2> QED
    BY <1>1, <2>2, <2>4, <2>5, <2>6, <2>7, <2>8 DEF IInv
<1>6. CASE UNCHANGED vars
  <2>1. UNCHANGED <<case, stage, hidden, touched, uncompared, written, ideal, loose, packed, left, prunable, late>>
    BY <1>6 DEF vars
  <2>2. /\ Cleared' /\ Asked' = Asked /\ Before' = Before /\ Lost' = Lost
        /\ Pointers' = Pointers /\ Blind' = Blind /\ Affected' = Affected
        /\ \A n : FileOf(n)' = FileOf(n)
        /\ \A a, b : Collide(a, b)' <=> Collide(a, b)
    BY <1>0, <2>1, ChecksStay, BlindStays
  <2>3. Listed' = Listed /\ LocalRefs' = LocalRefs
    BY <2>1 DEF Listed, LocalRefs, Dangling, FollowBy, OnceBy, Target, Found, SameFile, FileOf
  <2>4. Begun' /\ Given' /\ Pointed' /\ Grown' /\ packed' \subseteq case'.packed
    BY <1>0, <2>1, <2>2, <2>3 DEF Begun, Given, Pointed, Grown
  <2>5. \A n : Agrees(n)' <=> Agrees(n)
    BY <2>1, <2>3 DEF Agrees, Meant, Found, SameFile, FileOf
  <2>6. Settled'
    BY <1>0, <2>1, <2>2, <2>3, <2>5 DEF Settled, Even, Single, FilesAgree, Apart
  <2> QED
    BY <1>1, <2>2, <2>4, <2>6 DEF IInv
<1> QED
  BY <1>2, <1>3, <1>4, <1>5, <1>6 DEF Next

THEOREM InvAlways == Spec => []IInv
BY InvInit, InvStep, PTL DEF Spec

\* Whatever git writes and prunes, and wherever it stops, every local ref that
\* had its own value under its own name keeps it, and no other name appears,
\* except among those affected by what the checks are blind to (macFetchCheck,
\* macPushCheck).
THEOREM FilesAgreeAlways == Spec => []FilesAgree
<1>1. IInv => FilesAgree
  BY DEF IInv, Settled
<1> QED
  BY <1>1, InvAlways, PTL

\* Where they are not blind, that is every ref.
THEOREM KeptWhereSeen == Spec => [](Blind = {} => \A n \in Names \ Lost : Agrees(n))
<1>1. ASSUME FilesAgree, Blind = {}
      PROVE  \A n \in Names \ Lost : Agrees(n)
  <2>1. Blurred = {}
    BY <1>1 DEF Blurred
  <2>2. ExpandSymrefs({}, Leads) \subseteq {}
    BY ExpandLeast
  <2>3. Affected = {}
    BY <2>1, <2>2, AffectedIs DEF Reached
  <2> QED
    BY <1>1, <2>3 DEF FilesAgree
<1> QED
  BY <1>1, FilesAgreeAlways, PTL

-----------------------------------------------------------------------------
(* The next fetch. *)

\* A repository with refs has at most the mapping of one without.
LEMMA FewerSpecs ==
    ASSUME NEW L, L # {}
    PROVE  /\ Maps(Specs(L)) \subseteq Maps(Specs(Before))
           /\ FetchDestinations(case.adv, Specs(L)) \subseteq FetchDestinations(case.adv, Specs(Before))
           /\ Before # {} => Specs(L) = Specs(Before)
<1>1. /\ Specs(L) \subseteq Specs(Before) /\ Specs(Before) \subseteq Specs(L) \cup {Default}
      /\ Before # {} => Specs(L) = Specs(Before)
  BY DEF Specs
<1>2. Default.kind # "negative"
  BY DEF Default
<1>3. Maps(Specs(L)) \subseteq Maps(Specs(Before))
  BY <1>1 DEF Maps
<1>4. \A n : Excluded(Specs(Before), n) => Excluded(Specs(L), n)
  BY <1>1, <1>2 DEF Excluded
<1>5. \A n : PushTrackingRefs(Specs(L), n) \subseteq PushTrackingRefs(Specs(Before), n)
  BY <1>3 DEF PushTrackingRefs
<1>6. \A n : MapRef(Specs(L), n) \subseteq MapRef(Specs(Before), n)
  BY <1>4, <1>5 DEF MapRef
<1>7. TrackingHeads(Specs(L)) \subseteq TrackingHeads(Specs(Before))
  BY <1>3 DEF TrackingHeads
<1>8. FetchDestinations(case.adv, Specs(L)) \subseteq FetchDestinations(case.adv, Specs(Before))
  BY <1>6, <1>7 DEF FetchDestinations
<1> QED
  BY <1>1, <1>3, <1>8

LEMMA NextPasses == IInv => NextFetchPasses
<1> DEFINE L == LocalRefs
           ds == FetchWrites(L)
           prune == MayPrune(L, ds)
<1> SUFFICES ASSUME IInv, stage = "git", case.cmd = "fetch", late = {}, hidden = {}, L # {}
             PROVE  MacFetchCheck(L, ds)
  BY DEF NextFetchPasses
<1>0. /\ TypeOK /\ Given
      /\ \A u \in uncompared, m \in Before \ uncompared : ~Collide(u, m)
      /\ \A t \in touched, m \in Before \cup touched : ~Collide(t, m)
      /\ case.reftable \/ AdvertisedPairs(case.adv) = {}
      /\ FetchDestinations(case.adv, Specs(Before)) \cap Names \subseteq touched
      /\ uncompared = MayPrune(Before, touched)
      /\ written \subseteq touched
      /\ \A e \in case.loose : e.sym /\ e.name \in touched => e.val \in touched
  <2>1. Read = Before
    BY DEF Read
  <2> QED
    BY <2>1, NothingUnseen DEF IInv, Cleared
<1>1. L \subseteq Before \cup touched /\ touched \subseteq Names /\ Before \subseteq Names
  BY <1>0, NamesAreNames DEF IInv, Grown, LocalRefs, TypeOK
<1>2. ds \cap Names \subseteq touched
  <2> DEFINE X == FetchDestinations(case.adv, Specs(Before)) \cup touched
  <2>1. FetchDestinations(case.adv, Specs(L)) \subseteq X
    BY FewerSpecs
  <2>2. ASSUME NEW e \in Symrefs, e.name \in X
        PROVE  e.val \in X
    <3>1. e \in ideal /\ e.sym /\ e.name \in Names
      BY <1>0 DEF Symrefs, TypeOK, Entry
    <3>2. e.name \in touched
      BY <1>0, <2>2, <3>1
    <3> QED
      BY <1>0, <3>1, <3>2 DEF IInv, Pointed
  <2>3. ds \subseteq X
    <3> HIDE DEF X, L
    <3> QED
      BY <2>1, <2>2, ExpandLeast DEF FetchWrites
  <2> QED
    BY <1>0, <1>1, <2>3
<1>3. CASE case.reftable
  BY <1>3 DEF MacFetchCheck, RefFormat
<1>4. CASE ~case.reftable
  <2>1. \A t \in touched, m \in Before \cup touched : ~Variants(t, m) /\ ~Variants(m, t)
    BY <1>0, <1>4, VariantsSymmetric DEF Collide
  <2>2. ASSUME NEW d \in ds, NEW m \in ConflictsIn(L \cup ds, d)
        PROVE  FALSE
    <3>1. d \in Names /\ m \in Names /\ m \in L \cup ds /\ Variants(d, m)
      BY DEF ConflictsIn, VariantPairs
    <3> QED
      BY <1>1, <1>2, <2>1, <3>1
  <2>3. ASSUME NEW d \in prune, NEW m \in ConflictsIn(L \ prune, d)
        PROVE  FALSE
    <3>1. d \in Names /\ m \in Names /\ m \in L \ prune /\ Variants(d, m)
      BY DEF ConflictsIn, VariantPairs
    <3>2. /\ case.prune /\ d \in L \ ds
          /\ \E sp \in Maps(Specs(L)) : Matches(sp.star, sp.dst, d)
      BY DEF MayPrune, PruneCandidates
    <3>3. d \in Before \ touched /\ m \in Before \ touched
      BY <1>1, <2>1, <3>1, <3>2
    <3>4. Specs(L) = Specs(Before)
      BY <3>3, FewerSpecs
    <3>5. d \in uncompared
      BY <1>0, <3>2, <3>3, <3>4 DEF MayPrune, PruneCandidates
    <3>6. m \in uncompared
      BY <1>0, <1>4, <3>1, <3>3, <3>5 DEF Collide
    <3>7. \E sp \in Maps(Specs(L)) : Matches(sp.star, sp.dst, m)
      BY <1>0, <3>2, <3>4, <3>6 DEF MayPrune, PruneCandidates
    <3>8. m \notin ds
      BY <1>2, <3>1, <3>3
    <3>9. m \in prune
      BY <3>1, <3>2, <3>7, <3>8 DEF MayPrune, PruneCandidates
    <3> QED
      BY <3>1, <3>9
  <2>4. ~DestinationsCollide(ds, L) /\ ~LocalsCollide(prune, L)
    <3> HIDE DEF ds, prune, L
    <3> QED
      BY <2>2, <2>3 DEF DestinationsCollide, LocalsCollide
  <2> QED
    BY <1>0, <1>4, <2>4 DEF MacFetchCheck
<1> QED
  BY <1>3, <1>4

\* A fetch that was let through does not stand in the way of the next one,
\* wherever git stopped (macFetchCheck).
THEOREM NextFetchPassesAlways == Spec => []NextFetchPasses
BY InvAlways, NextPasses, PTL
=============================================================================
