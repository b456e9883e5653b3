------------------------------ MODULE MCDetection ------------------------------
(* Instances of PlatformDetection for TLC. *)
EXTENDS PlatformDetection
=============================================================================
