------------------------- MODULE MCCampaignLifecycle -------------------------
(* Two requests, two workers and two texts: enough for an older request's  *)
(* job to be retried while a newer one runs, and for a version to be       *)
(* edited between a test and its record.                                   *)
EXTENDS CampaignLifecycle, TLC

CONSTANTS k1, k2, w1, w2, c1, c2, a1, a2

MCSymmetry == Permutations({k1, k2}) \cup Permutations({w1, w2}) \cup Permutations({c1, c2})
              \cup Permutations({a1, a2})
=============================================================================
