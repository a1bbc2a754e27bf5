------------------------------ MODULE MCRefTree ------------------------------
(* An instance of RefTree: refs/heads with a, a/b, a/b/c, d, and a name in a  *)
(* that git does not allow.                                                   *)
EXTENDS RefTree, TLC

CONSTANTS h, a, ab, abc, az, d

MCPaths == {h, a, ab, abc, az, d}

MCParent == (h :> None) @@ (a :> h) @@ (ab :> a) @@ (abc :> ab) @@ (az :> a) @@ (d :> h)

MCAbove ==
    (h :> {}) @@ (a :> {h}) @@ (ab :> {h, a}) @@ (abc :> {h, a, ab}) @@ (az :> {h, a}) @@ (d :> {h})

\* Every tree of refs and folders, empty ones a dead push left included.
MCStarts ==
    {st \in [MCPaths -> {"absent", "folder", "ref"}] :
        Rooted(st) /\ st[h] = "folder" /\ st[az] = "absent"}

Names == {a, ab, abc, d}

UpTo(k, s) == {x \in SUBSET s : Cardinality(x) <= k}

\* Up to two entries; a ref named like the layout's folder once.
MCAsks ==
    {[dels |-> x[1], writes |-> x[2]] :
        x \in {y \in UpTo(2, Names) \X UpTo(2, Names \cup {h}) :
                  Cardinality(y[1]) + Cardinality(y[2]) \in 1..2}}
=============================================================================
