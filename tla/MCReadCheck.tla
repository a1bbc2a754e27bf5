----------------------------- MODULE MCReadCheck ------------------------------
(* Instances of ReadCheck: branches, tags and tracking refs whose last       *)
(* components are spellings of each other.                                   *)
EXTENDS ReadCheck

\* A letter, its capital and its other normalisation; and the two heads.
MCComponents == {"heads", "tags", "o", "a", "A", "aa", "b", "head", "HEAD"}

MCCaseKey == [c \in MCComponents |-> CASE c = "A" -> "a" [] c = "HEAD" -> "head" [] OTHER -> c]

MCCanonKey == [c \in MCComponents |-> IF c = "aa" THEN "a" ELSE MCCaseKey[c]]

Leaves == {<<"a">>, <<"A">>, <<"aa">>, <<"head">>, <<"a", "b">>, <<"A", "b">>}

MCNames == {<<ns>> \o l : ns \in {"heads", "o"}, l \in Leaves}
           \cup {<<"o", "HEAD">>, <<"o", "A", "head">>, <<"tags", "a">>, <<"tags", "A">>}

Remote == {<<"heads", "a">>, <<"heads", "A">>, <<"heads", "aa">>, <<"heads", "head">>,
           <<"heads", "a", "b">>, <<"tags", "a">>, <<"tags", "A">>}

UpTo(k, s) == UNION {kSubset(i, s) : i \in 0..k}

Trees == {t \in UpTo(2, Remote) : \A n, m \in t : ~Nested(n, m)}

Spec1(kind, star, src, dst) == [kind |-> kind, star |-> star, src |-> src, dst |-> dst]
Mirror == Spec1("map", TRUE, <<>>, <<>>)
Renamed == Spec1("map", FALSE, <<"heads", "a">>, <<"o", "A">>)
NotCapital == Spec1("negative", FALSE, <<"heads", "A">>, <<>>)
NoWrite == Spec1("nodst", FALSE, <<"heads", "a">>, <<>>)

\* Configured refspecs, whether there is a URL.
Remotes == {<<{Default}, TRUE>>, <<{Default}, FALSE>>, <<{}, TRUE>>, <<{NoWrite}, TRUE>>,
            <<{Mirror}, TRUE>>, <<{Renamed}, TRUE>>, <<{Default, NotCapital}, TRUE>>}

Ref(n) == Store(n, n)

\* Local refs, loose and packed: stale tracking refs, branches, tags, symbolic
\* refs.
Pool == {Ref(<<"o", "a">>), Ref(<<"o", "A">>), Ref(<<"o", "head">>), Ref(<<"heads", "a">>),
         Ref(<<"heads", "A">>), Ref(<<"o", "A", "b">>), Ref(<<"tags", "A">>),
         Point(<<"o", "HEAD">>, <<"o", "a">>)}

Small == {p \in (UpTo(2, Pool) \X UpTo(2, Pool)) :
            /\ Cardinality(p[1]) + Cardinality(p[2]) <= 2
            /\ p[1] \cap p[2] = {}
            /\ \A e \in p[2] : ~e.sym
            /\ FilesApart(p[1])
            /\ \A x, y \in p[1] \cup p[2] : x # y => x.name # y.name /\ ~Nested(x.name, y.name)}

\* Two spellings, both packed, and a tracking ref that leads to one of them.
Leading == <<{Point(<<"o", "head">>, <<"heads", "A">>)},
             {Ref(<<"heads", "A">>), Ref(<<"heads", "a">>)}>>

\* A fresh loose tag over its old packed value; the other spelling is packed.
Overlaid == <<{Ref(<<"tags", "a">>)}, {Store(<<"tags", "a">>, <<"o", "a">>), Ref(<<"tags", "A">>)}>>

\* Two branches and the tracking ref of one packed, a symbolic ref in its file.
Misled == <<{Point(<<"o", "A">>, <<"tags", "A">>), Ref(<<"tags", "A">>)},
            {Ref(<<"heads", "A">>), Ref(<<"heads", "a">>), Ref(<<"o", "a">>)}>>

\* A tracking HEAD whose branch was pruned, and spellings of that branch; a branch
\* whose tracking ref leads nowhere; two of them in a row.
Dangles ==
    {<<{Point(<<"o", "HEAD">>, t)}, l>> :
        t \in {<<"o", "a">>, <<"heads", "A">>}, l \in {{}, {Ref(<<"o", "A">>)}, {Ref(<<"heads", "a">>)}}}
    \cup {<<{Point(<<"o", "a">>, <<"heads", "A">>), Ref(<<"heads", "a">>)}, {}>>,
          <<{Point(<<"o", "A">>, <<"heads", "aa">>)}, {Ref(<<"heads", "a">>)}>>,
          <<{Point(<<"o", "head">>, <<"o", "aa">>), Point(<<"o", "aa">>, <<"tags", "A">>)},
            {Ref(<<"heads", "head">>)}>>}

\* The value of the remote's branch under another spelling of its name, and a
\* spelling of its tracking ref.
Respelled == <<{Store(<<"heads", "aa">>, <<"heads", "a">>), Ref(<<"o", "A">>)}, {}>>

Locals == Small \cup Dangles \cup {Leading, Overlaid, Misled, Respelled}

MCCases ==
    {[cmd |-> o[1], prune |-> o[2], reftable |-> o[3], adv |-> t, specs |-> r[1], urls |-> r[2],
      loose |-> l[1], packed |-> l[2]] :
        o \in {<<"fetch", FALSE, FALSE>>, <<"fetch", TRUE, FALSE>>, <<"push", FALSE, FALSE>>,
               <<"fetch", TRUE, TRUE>>},
        t \in Trees, r \in Remotes, l \in Locals}

\* A spelling of a tracking ref, and one of a folder that holds one.
MCNewcomers == {<<"o", "a">>, <<"o", "A", "head">>}
=============================================================================
