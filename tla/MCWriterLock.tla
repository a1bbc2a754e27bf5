----------------------------- MODULE MCWriterLock -----------------------------
(* Model-checking instance of WriterLock: sessions as symmetric model values. *)
EXTENDS WriterLock, TLC

CONSTANTS s1, s2, s3

MCSessions == {s1, s2, s3}
Pair == {s1, s2}

Symmetry == Permutations(MCSessions)
=============================================================================
