------------------------------ MODULE JobQueue ------------------------------
(***************************************************************************)
(* The PostgreSQL-backed job table and the JobRunner processes that drain  *)
(* it (worker/jobRunner.ts, db/rawQueries.ts:claimDueJob, worker.ts) and   *)
(* the four shapes of job upsert the rest of the service uses.             *)
(*                                                                         *)
(* Instants are kept as the time left until them, so that a run of the     *)
(* system is unbounded while its state is not: runIn[j] is run_at - now    *)
(* (0 once due), leaseLeft[j] is lock_expires_at - now (Expired once it    *)
(* is in the past).  A worker is one JobRunner object: its workerId is a   *)
(* fresh random UUID, so a restarted process is a different worker.        *)
(***************************************************************************)
EXTENDS Integers, FiniteSets

CONSTANTS
  Jobs,          \* rows of the jobs table, by unique key
  Workers,       \* JobRunner instances
  Nobody,        \* locked_by IS NULL
  NoJob,         \* a runner between two jobs
  MaxAttempts,   \* jobs.max_attempts
  LockTicks,     \* config.jobLockSeconds
  RenewEvery,    \* the renewal interval, a third of the lock
  Backoff,       \* ticks before the next run of a job that failed its n-th
  MaxRearms, MaxStalls, MaxCrashes   \* bounds on what the environment does

ASSUME QueueAssumption ==
  /\ Nobody \notin Workers /\ NoJob \notin Jobs
  /\ MaxAttempts \in Nat \ {0}
  /\ LockTicks \in Nat /\ RenewEvery \in Nat \ {0} /\ RenewEvery < LockTicks
  /\ Backoff \in [1 .. MaxAttempts -> Nat \ {0}]
  /\ MaxRearms \in Nat /\ MaxStalls \in Nat /\ MaxCrashes \in Nat

VARIABLES
  \* the jobs table
  status, runIn, attempts, lockedBy, leaseLeft,
  \* the runners: where run() is, the claimed row's id and its attempts
  \* column as RETURNING gave it, the renewal timer, and whether the process
  \* has kept up with its timers since the claim (ok, stalled, late)
  pc, work, seen, renewIn, health,
  \* how much the environment has done
  rearms, stalls, crashes

table   == <<status, runIn, attempts, lockedBy, leaseLeft>>
runners == <<pc, work, seen, renewIn, health>>
budget  == <<rearms, stalls, crashes>>
vars    == <<table, runners, budget>>

Status == {"ABSENT", "PENDING", "RUNNING", "COMPLETED", "FAILED"}
Expired == -1
Busy == {"handling", "succeeded", "threw"}

\* Every variable has its type, the lock columns of a row are set and cleared
\* together, and a row that is settled carries no lock.
TypeOK ==
  /\ status \in [Jobs -> Status]
  /\ runIn \in [Jobs -> Nat]
  /\ attempts \in [Jobs -> Nat]
  /\ lockedBy \in [Jobs -> Workers \cup {Nobody}]
  /\ leaseLeft \in [Jobs -> Expired .. LockTicks]
  /\ \A j \in Jobs : lockedBy[j] = Nobody => leaseLeft[j] = Expired
  /\ \A j \in Jobs : status[j] \in {"ABSENT", "COMPLETED", "FAILED"} => lockedBy[j] = Nobody
  /\ pc \in [Workers -> Busy \cup {"idle", "dead"}]
  /\ work \in [Workers -> Jobs \cup {NoJob}]
  /\ seen \in [Workers -> Nat]
  /\ renewIn \in [Workers -> 0 .. RenewEvery]
  /\ health \in [Workers -> {"ok", "stalled", "late"}]
  /\ rearms \in 0 .. MaxRearms /\ stalls \in 0 .. MaxStalls /\ crashes \in 0 .. MaxCrashes

Init ==
  /\ status = [j \in Jobs |-> "ABSENT"]
  /\ runIn = [j \in Jobs |-> 0]
  /\ attempts = [j \in Jobs |-> 0]
  /\ lockedBy = [j \in Jobs |-> Nobody]
  /\ leaseLeft = [j \in Jobs |-> Expired]
  /\ pc = [w \in Workers |-> "idle"]
  /\ work = [w \in Workers |-> NoJob]
  /\ seen = [w \in Workers |-> 0]
  /\ renewIn = [w \in Workers |-> 0]
  /\ health = [w \in Workers |-> "ok"]
  /\ rearms = 0 /\ stalls = 0 /\ crashes = 0

-----------------------------------------------------------------------------
(* Time. *)

Countdown(n, floor) == IF n > floor THEN n - 1 ELSE n

\* A timer of a process that is not stalled fires before the next tick.
Tick ==
  /\ \A w \in Workers : pc[w] \in Busy /\ health[w] # "stalled" => renewIn[w] > 0
  /\ runIn' = [j \in Jobs |-> Countdown(runIn[j], 0)]
  /\ leaseLeft' = [j \in Jobs |-> Countdown(leaseLeft[j], Expired)]
  /\ renewIn' = [w \in Workers |-> Countdown(renewIn[w], 0)]
  /\ UNCHANGED <<status, attempts, lockedBy, pc, work, seen, health, budget>>

-----------------------------------------------------------------------------
(* Other parts of the service write job rows. *)

StatusOnUpsert(j) == "PENDING"

\* One upsert by unique key: create the row, or update the existing one,
\* whatever its status.  The three update clauses in the code differ in
\* whether they clear the lock columns and whether they reset attempts.
Upsert(j, delay, clearLock, resetAttempts) ==
  /\ rearms < MaxRearms
  /\ rearms' = rearms + 1
  /\ status' = [status EXCEPT ![j] = StatusOnUpsert(j)]
  /\ runIn' = [runIn EXCEPT ![j] = delay]
  /\ attempts' = [attempts EXCEPT ![j] = IF resetAttempts THEN 0 ELSE @]
  /\ lockedBy' = [lockedBy EXCEPT ![j] = IF clearLock THEN Nobody ELSE @]
  /\ leaseLeft' = [leaseLeft EXCEPT ![j] = IF clearLock THEN Expired ELSE @]
  /\ UNCHANGED <<runners, stalls, crashes>>

\* scheduleDispatch and the resume job: the attempt count survives.
Rearm(j, delay) == Upsert(j, delay, TRUE, FALSE)
\* Snapshot and contact-import jobs start over.
Restart(j) == Upsert(j, 0, TRUE, TRUE)
\* OneKey sync (attempts reset) and webhook reconciliation (not reset) leave
\* the lock columns of the row as they are.
Requeue(j, delay, resetAttempts) == Upsert(j, delay, FALSE, resetAttempts)

-----------------------------------------------------------------------------
(* JobRunner.run *)

LeaseExpiredByLockedAt(j) == leaseLeft[j] < LockTicks
LeaseExpired(j) == leaseLeft[j] = Expired

DuePendingOnly(j) == status[j] = "PENDING" /\ runIn[j] = 0
Due(j) ==
  /\ status[j] = "PENDING" \/ (status[j] = "RUNNING" /\ LeaseExpired(j))
  /\ runIn[j] = 0

\* claimDueJob: one UPDATE over a FOR UPDATE SKIP LOCKED candidate.
Claim(w, j) ==
  /\ pc[w] = "idle" /\ health[w] # "stalled"
  /\ Due(j)
  /\ status' = [status EXCEPT ![j] = "RUNNING"]
  /\ attempts' = [attempts EXCEPT ![j] = @ + 1]
  /\ lockedBy' = [lockedBy EXCEPT ![j] = w]
  /\ leaseLeft' = [leaseLeft EXCEPT ![j] = LockTicks]
  /\ pc' = [pc EXCEPT ![w] = "handling"]
  /\ work' = [work EXCEPT ![w] = j]
  /\ seen' = [seen EXCEPT ![w] = attempts[j] + 1]
  /\ renewIn' = [renewIn EXCEPT ![w] = RenewEvery]
  /\ health' = [health EXCEPT ![w] = "ok"]
  /\ UNCHANGED <<runIn, budget>>

Owns(w, j) == status[j] = "RUNNING" /\ lockedBy[j] = w

\* The setInterval callback.  It keeps firing after the lease was lost, when
\* its update matches no row.
Renew(w) ==
  /\ pc[w] \in Busy /\ health[w] # "stalled" /\ renewIn[w] = 0
  /\ leaseLeft' = [j \in Jobs |->
        IF j = work[w] /\ Owns(w, j) THEN LockTicks ELSE leaseLeft[j]]
  /\ renewIn' = [renewIn EXCEPT ![w] = RenewEvery]
  /\ UNCHANGED <<status, runIn, attempts, lockedBy, pc, work, seen, health, budget>>

HandlerEnds(w, outcome) ==
  /\ pc[w] = "handling" /\ health[w] # "stalled"
  /\ pc' = [pc EXCEPT ![w] = outcome]
  /\ UNCHANGED <<table, work, seen, renewIn, health, budget>>

ToIdle(w) ==
  /\ pc' = [pc EXCEPT ![w] = "idle"]
  /\ work' = [work EXCEPT ![w] = NoJob]
  /\ UNCHANGED <<seen, renewIn, health, budget>>

ReleaseKeepsLock(j, newStatus, delay) ==
  /\ status' = [status EXCEPT ![j] = newStatus]
  /\ runIn' = [runIn EXCEPT ![j] = delay]
  /\ UNCHANGED <<attempts, lockedBy, leaseLeft>>

\* What both settlements write to a row the worker still owns.
Release(j, newStatus, delay) ==
  /\ status' = [status EXCEPT ![j] = newStatus]
  /\ runIn' = [runIn EXCEPT ![j] = delay]
  /\ lockedBy' = [lockedBy EXCEPT ![j] = Nobody]
  /\ leaseLeft' = [leaseLeft EXCEPT ![j] = Expired]
  /\ UNCHANGED attempts

CompleteUnowned(w) ==
  /\ pc[w] = "succeeded" /\ health[w] # "stalled"
  /\ Release(work[w], "COMPLETED", runIn[work[w]])
  /\ ToIdle(w)

\* completeClaimedJob
Complete(w) ==
  /\ pc[w] = "succeeded" /\ health[w] # "stalled"
  /\ IF Owns(w, work[w]) THEN Release(work[w], "COMPLETED", runIn[work[w]])
                         ELSE UNCHANGED table
  /\ ToIdle(w)

\* completeClaimedJob sits inside the try block: when it throws, the job whose
\* handler succeeded is failed instead.
CompleteThrows(w) ==
  /\ pc[w] = "succeeded" /\ health[w] # "stalled"
  /\ pc' = [pc EXCEPT ![w] = "threw"]
  /\ UNCHANGED <<table, work, seen, renewIn, health, budget>>

\* Decided from the row as it was returned by the claim.
Terminal(w) == seen[w] >= MaxAttempts

\* failClaimedJob
Fail(w) ==
  /\ pc[w] = "threw" /\ health[w] # "stalled"
  /\ IF ~Owns(w, work[w]) THEN UNCHANGED table
     ELSE IF Terminal(w)  THEN Release(work[w], "FAILED", runIn[work[w]])
                          ELSE Release(work[w], "PENDING", Backoff[seen[w]])
  /\ ToIdle(w)

-----------------------------------------------------------------------------
(* Processes fail. *)

\* Killed, forced out 25 s after SIGTERM, or failClaimedJob threw.  The row
\* keeps its lock until the lease runs out.  A graceful stop is the same
\* action on an idle runner.
Crash(w) ==
  /\ crashes < MaxCrashes /\ pc[w] # "dead"
  /\ crashes' = crashes + 1
  /\ pc' = [pc EXCEPT ![w] = "dead"]
  /\ work' = [work EXCEPT ![w] = NoJob]
  /\ UNCHANGED <<table, seen, renewIn, health, rearms, stalls>>

\* The event loop is blocked, the process is suspended, or its renewals keep
\* failing: the timers of a busy runner do not take effect for a while.
Stall(w) ==
  /\ stalls < MaxStalls /\ pc[w] \in Busy /\ health[w] # "stalled"
  /\ stalls' = stalls + 1
  /\ health' = [health EXCEPT ![w] = "stalled"]
  /\ UNCHANGED <<table, pc, work, seen, renewIn, rearms, crashes>>

Unstall(w) ==
  /\ pc[w] \in Busy /\ health[w] = "stalled"
  /\ health' = [health EXCEPT ![w] = "late"]
  /\ UNCHANGED <<table, pc, work, seen, renewIn, budget>>

-----------------------------------------------------------------------------
WorkerStep(w) ==
  \/ Renew(w) \/ Complete(w) \/ CompleteThrows(w) \/ Fail(w) \/ Unstall(w)
  \/ \E outcome \in {"succeeded", "threw"} : HandlerEnds(w, outcome)
  \/ \E j \in Jobs : Claim(w, j)

Arming(j) ==
  \/ Restart(j)
  \/ \E delay \in {0, 1} :
       Rearm(j, delay) \/ \E reset \in BOOLEAN : Requeue(j, delay, reset)

Next ==
  \/ Tick
  \/ \E w \in Workers : WorkerStep(w) \/ Crash(w) \/ Stall(w)
  \/ \E j \in Jobs : Arming(j)

Spec == Init /\ [][Next]_vars

\* Time passes; a live runner's loop goes on; a stalled process comes back.
\* ORDER BY run_at makes the queue first come, first served among due jobs:
\* an idle worker that keeps polling gets to each of them.
Fairness ==
  /\ WF_vars(Tick)
  /\ \A w \in Workers :
       /\ WF_vars(Renew(w)) /\ WF_vars(Unstall(w))
       /\ WF_vars(\E outcome \in {"succeeded", "threw"} : HandlerEnds(w, outcome))
       /\ WF_vars(Complete(w) \/ CompleteThrows(w)) /\ WF_vars(Fail(w))
  /\ \A j \in Jobs : SF_vars(\E w \in Workers : Claim(w, j))

FairSpec == Spec /\ Fairness

-----------------------------------------------------------------------------
(* Safety. *)

\* A row that says RUNNING under a live worker is the row that worker is
\* executing, and the attempt number the worker took from the claim is the
\* row's: failClaimedJob decides "last attempt?" from that copy, which other
\* writers of the row could have made stale.
OwnerIsCurrent ==
  \A j \in Jobs, w \in Workers :
    Owns(w, j) /\ pc[w] # "dead" =>
      pc[w] \in Busy /\ work[w] = j /\ seen[w] = attempts[j]

\* A worker whose timers run on time keeps its lease for as long as it owns
\* the row, however long the handler takes.
LiveLeaseHeld ==
  \A w \in Workers :
    pc[w] \in Busy /\ health[w] = "ok" /\ Owns(w, work[w]) => ~LeaseExpired(work[w])

\* "live workers renew active locks, and a different worker can reclaim an
\* expired RUNNING lock after a crash": nobody takes a RUNNING job away from
\* a worker that is alive and keeps up with its timers.
NoTheft ==
  [][\A j \in Jobs : \A v, w \in Workers :
       Owns(v, j) /\ pc[v] # "dead" /\ health[v] = "ok" /\ v # w => ~Owns(w, j)']_vars

\* A job becomes COMPLETED or FAILED only through the worker that holds the
\* current claim on it, and with the outcome that worker's handler had; a
\* worker that lost its lease settles nothing.
NoStaleSettlement ==
  [][\A j \in Jobs :
       status'[j] # status[j] /\ status'[j] \in {"COMPLETED", "FAILED"} =>
         \E w \in Workers :
           /\ Owns(w, j) /\ work[w] = j
           /\ pc[w] = (IF status'[j] = "COMPLETED" THEN "succeeded" ELSE "threw")]_vars

\* A job is given up only when the attempts in its row are used up, and a
\* failure that leaves attempts over puts it back with a delay.
BudgetRespected ==
  [][\A j \in Jobs, w \in Workers :
       Owns(w, j) /\ pc[w] = "threw" /\ pc'[w] = "idle" =>
         IF attempts[j] >= MaxAttempts THEN status'[j] = "FAILED"
         ELSE status'[j] = "PENDING" /\ runIn'[j] > 0]_vars

(* Liveness. *)

\* Every job that is waiting or running is settled, whatever crashed, stalled
\* or was armed again on the way, provided one worker survives.
EveryJobSettles ==
  \A j \in Jobs :
    status[j] \in {"PENDING", "RUNNING"} ~> status[j] \in {"COMPLETED", "FAILED"}

(* Refinement. *)

Phase(j) ==
  CASE status[j] = "ABSENT" -> "absent"
    [] status[j] \in {"PENDING", "RUNNING"} -> "open"
    [] status[j] = "COMPLETED" -> "done"
    [] status[j] = "FAILED" -> "failed"
Owner(j) == IF status[j] = "RUNNING" THEN lockedBy[j] ELSE Nobody

Ownership == INSTANCE JobOwnership WITH
  phase <- [j \in Jobs |-> Phase(j)], owner <- [j \in Jobs |-> Owner(j)]

\* The queue keeps the promise of JobOwnership to its callers: one owner at a
\* time, only the owner settles, settled stays settled until armed again.
ImplementsOwnership == Ownership!Spec
=============================================================================
