------------------------------- MODULE MCMedia -------------------------------
(* Instances of MediaPipeline for TLC. *)
EXTENDS MediaPipeline
=============================================================================
