------------------------------ MODULE MCReplay ------------------------------
(* Instances of ReplaySystem for TLC. *)
EXTENDS ReplaySystem, TLC

\* Workers and requests are interchangeable: no definition names one of them.
Symmetry == Permutations(Workers) \cup Permutations(Requests)
=============================================================================
