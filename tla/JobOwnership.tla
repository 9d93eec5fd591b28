---------------------------- MODULE JobOwnership ----------------------------
(***************************************************************************)
(* What the durable job table promises its callers, whatever the workers   *)
(* do: a job has at most one owner; only the owner settles it; a settled   *)
(* job stays settled until somebody arms it again.  JobQueue implements    *)
(* this specification.                                                     *)
(***************************************************************************)
CONSTANTS Jobs, Workers, Nobody

VARIABLES phase,   \* phase[j]: absent, open (waiting or being worked on), done, failed
          owner    \* owner[j]: the worker whose claim on j is the current one

vars == <<phase, owner>>

Init ==
  /\ phase = [j \in Jobs |-> "absent"]
  /\ owner = [j \in Jobs |-> Nobody]

\* A claim: from nobody, or taken over from the previous owner.
Acquire(j, w) ==
  /\ phase[j] = "open"
  /\ owner' = [owner EXCEPT ![j] = w]
  /\ UNCHANGED phase

\* The owner, and nobody else, reports an outcome and gives the job up.
Settle(j, w) ==
  /\ phase[j] = "open" /\ owner[j] = w
  /\ owner' = [owner EXCEPT ![j] = Nobody]
  /\ \E p \in {"open", "done", "failed"} : phase' = [phase EXCEPT ![j] = p]

\* The job is created, or armed again, and belongs to nobody.
Arm(j) ==
  /\ phase' = [phase EXCEPT ![j] = "open"]
  /\ owner' = [owner EXCEPT ![j] = Nobody]

Next == \E j \in Jobs : Arm(j) \/ \E w \in Workers : Acquire(j, w) \/ Settle(j, w)

Spec == Init /\ [][Next]_vars
=============================================================================
