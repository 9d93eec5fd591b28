----------------------------- MODULE MCJobQueue -----------------------------
(* JobQueue on a small instance. *)
EXTENDS JobQueue, Retry

\* One tick is 30 s.
MCBackoff == [n \in 1 .. MaxAttempts |-> BackoffSeconds(n) \div 30]
=============================================================================
