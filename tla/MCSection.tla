------------------------------ MODULE MCSection ------------------------------
(* Instances of ReplaySection for TLC. *)
EXTENDS ReplaySection
=============================================================================
