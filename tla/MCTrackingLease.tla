--------------------------- MODULE MCTrackingLease ---------------------------
(* TrackingLease on small instances: calls are interchangeable. *)
EXTENDS TrackingLease, TLC

Symmetric == Permutations(Calls)
=============================================================================
