--------------------------- MODULE ReplayLifecycle ---------------------------
(* What the replay subsystem promises the owner of a replay, seen through the  *)
(* status route: an upload is processed, ends ready or failed, and a deletion  *)
(* is final.  A ready replay stays ready until it is deleted, and only a       *)
(* failed one is processed again.                                              *)

VARIABLE phase

Phase == {"none", "upload", "processing", "ready", "failed", "deleting",
          "deleted", "gone"}
Live == {"upload", "processing", "ready", "failed"}

Init == phase = "none"

Move(from, to) == phase \in from /\ phase' = to

Create == Move({"none"}, "upload")
Process == Move({"upload", "failed"}, "processing")
Succeed == Move({"processing"}, "ready")
Fail == Move({"processing"}, "failed")
Delete == Move(Live, "deleting")
Scrub == Move({"deleting"}, "deleted")
Purge == Move({"deleted"}, "gone")

Next == Create \/ Process \/ Succeed \/ Fail \/ Delete \/ Scrub \/ Purge

Spec == Init /\ [][Next]_phase
=============================================================================
