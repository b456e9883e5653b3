------------------------------- MODULE MCMatches -------------------------------
(* Instances of MatchService for TLC. *)
EXTENDS MatchService
=============================================================================
