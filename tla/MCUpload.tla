------------------------------- MODULE MCUpload -------------------------------
(* Instances of LocalUpload for TLC. *)
EXTENDS LocalUpload

CONSTANT BusyTime

\* Uploads do not read the clock: they are at work up to BusyTime, and the
\* windows run on alone after it.
BusyEarly == now <= BusyTime \/ \A u \in Uploads : At(u, "idle")

Symmetry == Permutations(Uploads)
=============================================================================
