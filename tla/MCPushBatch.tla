------------------------------ MODULE MCPushBatch ------------------------------
(* Instances of PushBatch: a name and its twins, as leaves and as folders. *)
EXTENDS PushBatch

CONSTANTS
    MaxEntries,     \* entries of a batch
    MaxSkipEntries, \* entries of a batch to a remote with a skipped path
    MaxMacEntries   \* entries of a batch judged by the Mac rule

\* A component, another by letter case and another by normalisation.  The two
\* are not variants of each other: alpha, combining iota, acute shares its case
\* key with alpha, iota, acute, and its canonical key with alpha, acute,
\* combining iota, which share neither.
MCComponents == {"a", "A", "aa"}

MCCaseKey == [c \in MCComponents |-> IF c = "A" THEN "a" ELSE c]

MCCanonKey == [c \in MCComponents |-> IF c = "aa" THEN "a" ELSE c]

\* Names that are variants in their whole or in a folder, and leaves that stand
\* where a folder would.
MCNames ==
    {<<"a">>, <<"A">>, <<"aa">>, <<"a", "a">>, <<"A", "a">>, <<"A", "A">>, <<"aa", "a">>}

\* What a folder tree can hold: no ref is a folder of another.
Trees == {t \in SUBSET MCNames : \A a, b \in t : ~Nested(a, b)}

UpTo(k, s) == UNION {kSubset(i, s) : i \in 0..k}

Batches(k) ==
    {b \in UpTo(k, MCNames) \X UpTo(k, MCNames) : Cardinality(b[1]) + Cardinality(b[2]) <= k}

\* A remote with a skipped path or without; on a Mac, one without a refspec or
\* with the usual one, and one tracking ref or none.
Plain ==
    {[b |-> bs[1], skip |-> bs[2], mac |-> FALSE, mapped |-> {}, tracked |-> {}] :
        bs \in Batches(MaxEntries) \X {{}} \cup Batches(MaxSkipEntries) \X {{<<"a">>}}}

TrackingRefs == {{}, {<<"a">>}, {<<"aa">>}, {<<"a", "a">>}}

OnMac ==
    {[b |-> b, skip |-> {}, mac |-> TRUE, mapped |-> m[1], tracked |-> m[2]] :
        b \in Batches(MaxMacEntries),
        m \in {<<{}, {}>>} \cup {<<MCNames, k>> : k \in TrackingRefs}}

MCCases ==
    {[refs |-> t \ x.skip, skipped |-> t \cap x.skip, dels |-> x.b[1], writes |-> x.b[2],
      mac |-> x.mac, mapped |-> x.mapped, tracked |-> x.tracked] :
        t \in Trees, x \in Plain \cup OnMac}
=============================================================================
