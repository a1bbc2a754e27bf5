------------------------------ MODULE MCBootstrap ------------------------------
(* Model-checking instance of Bootstrap: every folder a run may begin with,   *)
(* and every way to it through one parent.                                    *)
EXTENDS Bootstrap, TLC

CONSTANTS a, b, c

Three == {a, b, c}
Pair == {a, b}

Symmetry == Permutations(Three)
PairSymmetry == Permutations(Pair)

\* One with a layout has a prefix of it, or has lost one of its folders since.
AnyFolder ==
    [marker : Markers, foreign : BOOLEAN, lock : BOOLEAN,
     subdirs : {{}, {"refs"}, {"refs", "refs/heads"}, Subdirs, Subdirs \ {"packs"},
                Subdirs \ {"refs/heads"}}]

EmptyFolder == {f \in AnyFolder : Vacant(f)}

AnyPath == [Steps -> Nodes]

\* The root is there.
Whole == {[i \in Steps |-> "folder"]}
=============================================================================
