------------------------------- MODULE MCFetch -------------------------------
(***************************************************************************)
(* Model-checking instances of Fetch: a commit 1 with three parts 2, 3, 4. *)
(* Packs 1 to 3 hold what the remote has; pack 4 is a name only a false    *)
(* index speaks of.                                                        *)
(***************************************************************************)
EXTENDS Fetch, TLC

CONSTANTS f1, f2

Pair == {f1, f2}

MCObjects == 1..4
MCLinks == [o \in MCObjects |-> IF o = 1 THEN {2, 3, 4} ELSE {}]
MCPacks == 1..4
MCHolds == <<{1, 2}, {2, 3}, {3, 4}, {1, 4}>>

\* f1 alone, or both.
Alone == [f \in Fetchers |-> IF f = f1 THEN {1} ELSE {}]
Both == [f \in Fetchers |-> {1}]

Truthful == [p \in MCPacks |-> p]
Empty == [p \in MCPacks |-> NoFile]
Good == [pack |-> Truthful, idx |-> Truthful, first |-> {1, 2, 3}, coming |-> {},
         cache |-> Empty, local |-> {}, refd |-> {}, wants |-> Alone]

\* Every state of the cache of three packs.
AnyCache == {[Good EXCEPT !.cache = [Empty EXCEPT ![1] = a, ![2] = b, ![3] = c]] :
                a \in {NoFile, Broken, 1, 4}, b \in {NoFile, Broken, 2, 4}, c \in {NoFile, Broken, 3, 4}}

\* Remotes with one bad file, or one pair missing.
BadRemote ==
    {[Good EXCEPT !.pack[p] = b] : p \in {1, 3}, b \in {Broken, 2}}
    \cup {[Good EXCEPT !.idx[p] = b] : p \in {1, 3}, b \in {Broken, 4}}
    \cup {[Good EXCEPT !.pack[3] = 2, !.idx[3] = 2, !.first = {1, 3}, !.local = {4}]}
    \cup {[Good EXCEPT !.first = S, !.coming = {1, 2, 3} \ S] : S \in {{}, {1}, {1, 2}, {1, 3}}}

\* Local stores that hold part or all of it, referenced or not.
LocalPart ==
    {[Good EXCEPT !.local = s, !.refd = r] :
        s \in {{1}, {2, 3}, {1, 2, 3, 4}}, r \in {{}, {2}, {2, 3}}}

Consistent(st) == st.refd \subseteq st.local

\* Two fetchers and a cache in which one index is false.
Shared == {[Good EXCEPT !.first = {1, 3}, !.wants = Both, !.cache = [Empty EXCEPT ![1] = 4, ![3] = 3]]}

SomeStarts == AnyCache \cup BadRemote \cup {st \in LocalPart : Consistent(st)} \cup Shared
=============================================================================
