----------------------------- MODULE SingleWriter -----------------------------
(***************************************************************************)
(* What the lock promises to the rest of the program: the sessions that    *)
(* may write to the remote form a set that is empty or has one member, and *)
(* a session joins it only when nobody is in it.                           *)
(***************************************************************************)
CONSTANT Sessions

VARIABLE writers

Init == writers = {}

Enter(s) ==
    /\ writers = {}
    /\ writers' = {s}

Leave(s) ==
    /\ writers = {s}
    /\ writers' = {}

Next == \E s \in Sessions : Enter(s) \/ Leave(s)

Spec == Init /\ [][Next]_writers
=============================================================================
