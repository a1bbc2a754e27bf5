------------------------------- MODULE RefNames -------------------------------
(***************************************************************************)
(* How the push rule and the Mac read rules compare ref names              *)
(* (internal/repo/casefold.go): a name is the sequence of its components   *)
(* below refs/, and a component has two keys, one by letter case and one   *)
(* by canonical caseless equivalence.  Neither relation contains the       *)
(* other, and neither is closed over the other.                            *)
(***************************************************************************)
EXTENDS SequencesExt

CONSTANTS
    Names,      \* ref names
    CaseKey,    \* CaseKey[c], CanonKey[c]: the keys of component c
    CanonKey

\* Every component has its keys.
ASSUME NameForm == Names \subseteq Seq(DOMAIN CaseKey)

\* One would be a folder that holds the other.
Nested(a, b) == IsStrictPrefix(a, b) \/ IsStrictPrefix(b, a)

Keys(key, n) == [i \in DOMAIN n |-> key[n[i]]]

\* The same by letter case, or by normalisation, but spelled differently.
SameKey(a, b) == Keys(CaseKey, a) = Keys(CaseKey, b) \/ Keys(CanonKey, a) = Keys(CanonKey, b)

\* caseConflicts: a prefix of one is such a variant of a prefix of the other.
Variants(a, b) ==
    \E i \in (DOMAIN a) \cap (DOMAIN b) :
        LET p == SubSeq(a, 1, i)
            q == SubSeq(b, 1, i)
        IN p # q /\ SameKey(p, q)

VariantPairs == {ab \in Names \X Names : Variants(ab[1], ab[2])}

ConflictsIn(set, n) == {m \in set : <<n, m>> \in VariantPairs}
=============================================================================
