--------------------------- MODULE JobQueueProofs ---------------------------
(***************************************************************************)
(* Safety of JobQueue for any number of jobs and workers, any lease length *)
(* and any bounds on crashes, stalls and re-arming.                        *)
(***************************************************************************)
EXTENDS JobQueue, TLAPS

\* Countdown stays within a range that contains its floor.
LEMMA CountdownInRange ==
  ASSUME NEW floor \in Int, NEW top \in Int, NEW n \in floor .. top
  PROVE  Countdown(n, floor) \in floor .. top
  BY DEF Countdown

LEMMA CountdownNat ==
  ASSUME NEW n \in Nat
  PROVE  Countdown(n, 0) \in Nat
  BY DEF Countdown

-----------------------------------------------------------------------------
\* What an execution holds on to, apart from its type: a busy runner has a
\* job, and has counted at least the claim it is executing.
BusyHasJob ==
  \A w \in Workers : pc[w] \in Busy => work[w] \in Jobs /\ seen[w] >= 1

\* On a runner that keeps up, lease and renewal timer run in step.
LeaseInStep ==
  \A j \in Jobs, w \in Workers :
    Owns(w, j) /\ pc[w] \in Busy /\ health[w] = "ok" =>
      leaseLeft[j] = LockTicks - RenewEvery + renewIn[w]

\* The inductive invariant.
IInv == TypeOK /\ BusyHasJob /\ OwnerIsCurrent /\ LeaseInStep

LEMMA InitIInv == Init => IInv
  BY QueueAssumption DEF Init, IInv, TypeOK, BusyHasJob, OwnerIsCurrent, LeaseInStep,
     Owns, Busy, Status, Expired

-----------------------------------------------------------------------------
LEMMA StepTypeOK ==
  ASSUME TypeOK, BusyHasJob, [Next]_vars
  PROVE  TypeOK'
<1> USE QueueAssumption
<1>1. CASE Tick
  <2>1. \A j \in Jobs : Countdown(runIn[j], 0) \in Nat
    BY CountdownNat DEF TypeOK
  <2>2. \A j \in Jobs : Countdown(leaseLeft[j], Expired) \in Expired .. LockTicks
    <3>1. Expired \in Int /\ LockTicks \in Int
      BY DEF Expired
    <3>2. \A j \in Jobs : leaseLeft[j] \in Expired .. LockTicks
      BY DEF TypeOK
    <3> QED
      BY <3>1, <3>2, CountdownInRange
  <2>3. \A w \in Workers : Countdown(renewIn[w], 0) \in 0 .. RenewEvery
    BY CountdownInRange DEF TypeOK
  <2>4. \A j \in Jobs : lockedBy'[j] = Nobody => leaseLeft'[j] = Expired
    BY <1>1 DEF Tick, Countdown, TypeOK, Expired
  <2> QED
    BY <1>1, <2>1, <2>2, <2>3, <2>4 DEF Tick, TypeOK, budget
<1>2. ASSUME NEW w \in Workers, WorkerStep(w) PROVE TypeOK'
  <2>1. CASE Renew(w)
    BY <2>1 DEF Renew, TypeOK, Expired, Owns, budget
  <2>2. ASSUME NEW j \in Jobs, NEW s \in Status, NEW d \in Nat, Release(j, s, d), ToIdle(w)
        PROVE  TypeOK'
    BY <2>2, SMTT(60) DEF Release, ToIdle, TypeOK, Expired, budget
  <2>3. ASSUME UNCHANGED table, ToIdle(w) PROVE TypeOK'
    BY <2>3 DEF table, ToIdle, TypeOK, budget
  <2>4. CASE Complete(w)
    <3>1. work[w] \in Jobs
      BY <2>4 DEF Complete, BusyHasJob, Busy
    <3>2. runIn[work[w]] \in Nat
      BY <3>1 DEF TypeOK
    <3> QED
      BY <2>2, <2>3, <2>4, <3>1, <3>2 DEF Complete, Status
  <2>5. CASE Fail(w)
    <3>1. work[w] \in Jobs /\ seen[w] >= 1 /\ seen[w] \in Nat
      BY <2>5 DEF Fail, BusyHasJob, Busy, TypeOK
    <3>2. runIn[work[w]] \in Nat
      BY <3>1 DEF TypeOK
    <3>3. ~Terminal(w) => Backoff[seen[w]] \in Nat
      BY <3>1 DEF Terminal
    <3> QED
      BY <2>2, <2>3, <2>5, <3>1, <3>2, <3>3 DEF Fail, Status
  <2>6. CASE CompleteThrows(w) \/ Unstall(w)
               \/ \E outcome \in {"succeeded", "threw"} : HandlerEnds(w, outcome)
    BY <2>6, ZenonT(60) DEF CompleteThrows, Unstall, HandlerEnds, TypeOK, table, budget, Busy
  <2>7. ASSUME NEW j \in Jobs, Claim(w, j) PROVE TypeOK'
    BY <2>7, SMTT(30) DEF Claim, TypeOK, Status, Busy, Expired, budget
  <2> QED
    BY <1>2, <2>1, <2>4, <2>5, <2>6, <2>7 DEF WorkerStep
<1>3. ASSUME NEW w \in Workers, Crash(w) \/ Stall(w) PROVE TypeOK'
  <2>1. CASE Crash(w)
    BY <2>1 DEF Crash, TypeOK, table
  <2>2. CASE Stall(w)
    BY <2>2 DEF Stall, TypeOK, table
  <2> QED
    BY <1>3, <2>1, <2>2
<1>4. ASSUME NEW j \in Jobs, Arming(j) PROVE TypeOK'
  <2>1. ASSUME NEW d \in {0, 1}, NEW c \in BOOLEAN, NEW r \in BOOLEAN, Upsert(j, d, c, r)
        PROVE  TypeOK'
    BY <2>1 DEF Upsert, StatusOnUpsert, TypeOK, Status, Expired, runners
  <2> QED
    BY <1>4, <2>1 DEF Arming, Restart, Rearm, Requeue
<1>5. CASE UNCHANGED vars
  BY <1>5 DEF TypeOK, vars, table, runners, budget
<1> QED
  BY <1>1, <1>2, <1>3, <1>4, <1>5 DEF Next

-----------------------------------------------------------------------------
LEMMA StepBusyHasJob ==
  ASSUME IInv, [Next]_vars
  PROVE  BusyHasJob'
<1> SUFFICES ASSUME NEW v \in Workers, pc'[v] \in Busy
             PROVE  work'[v] \in Jobs /\ seen'[v] >= 1
  BY DEF BusyHasJob
<1> TypeOK /\ BusyHasJob
  BY DEF IInv
<1>1. ASSUME UNCHANGED <<pc, work, seen>> PROVE work'[v] \in Jobs /\ seen'[v] >= 1
  BY <1>1 DEF BusyHasJob
<1>2. CASE Tick
  BY <1>1, <1>2 DEF Tick
<1>3. ASSUME NEW w \in Workers, WorkerStep(w) PROVE work'[v] \in Jobs /\ seen'[v] >= 1
  <2>1. CASE Renew(w) \/ Unstall(w)
    BY <2>1, <1>1 DEF Renew, Unstall
  <2>2. ASSUME ToIdle(w) PROVE work'[v] \in Jobs /\ seen'[v] >= 1
    BY <2>2 DEF ToIdle, BusyHasJob, Busy, TypeOK
  <2>3. CASE Complete(w) \/ Fail(w)
    BY <2>2, <2>3 DEF Complete, Fail
  <2>4. CASE CompleteThrows(w) \/ \E outcome \in {"succeeded", "threw"} : HandlerEnds(w, outcome)
    BY <2>4 DEF CompleteThrows, HandlerEnds, BusyHasJob, Busy, TypeOK
  <2>5. ASSUME NEW j \in Jobs, Claim(w, j) PROVE work'[v] \in Jobs /\ seen'[v] >= 1
    BY <2>5 DEF Claim, BusyHasJob, TypeOK
  <2> QED
    BY <1>3, <2>1, <2>3, <2>4, <2>5 DEF WorkerStep
<1>4. ASSUME NEW w \in Workers, Crash(w) \/ Stall(w) PROVE work'[v] \in Jobs /\ seen'[v] >= 1
  BY <1>4 DEF Crash, Stall, BusyHasJob, Busy, TypeOK
<1>5. ASSUME NEW j \in Jobs, Arming(j) PROVE work'[v] \in Jobs /\ seen'[v] >= 1
  BY <1>5, <1>1 DEF Arming, Restart, Rearm, Requeue, Upsert, runners
<1>6. CASE UNCHANGED vars
  BY <1>6, <1>1 DEF vars, runners
<1> QED
  BY <1>2, <1>3, <1>4, <1>5, <1>6 DEF Next

-----------------------------------------------------------------------------
\* A worker owns at most the row it is working on, so a settlement by one
\* worker leaves every other worker's rows alone.
LEMMA OwnedIsWork ==
  ASSUME OwnerIsCurrent, NEW w \in Workers, NEW j \in Jobs, Owns(w, j), pc[w] # "dead"
  PROVE  pc[w] \in Busy /\ work[w] = j /\ seen[w] = attempts[j]
  BY DEF OwnerIsCurrent

LEMMA StepOwnerIsCurrent ==
  ASSUME IInv, [Next]_vars
  PROVE  OwnerIsCurrent'
<1> DEFINE Current(v, j) == pc[v] \in Busy /\ work[v] = j /\ seen[v] = attempts[j]
<1> SUFFICES ASSUME NEW j \in Jobs, NEW v \in Workers, Owns(v, j)', pc'[v] # "dead"
             PROVE  Current(v, j)'
  BY DEF OwnerIsCurrent
<1> TypeOK /\ BusyHasJob /\ OwnerIsCurrent
  BY DEF IInv
<1>1. ASSUME UNCHANGED <<status, lockedBy, attempts, pc, work, seen>> PROVE Current(v, j)'
  BY <1>1 DEF OwnerIsCurrent, Owns
<1>2. CASE Tick
  BY <1>1, <1>2 DEF Tick
<1>3. ASSUME NEW w \in Workers, WorkerStep(w) PROVE Current(v, j)'
  <2>1. CASE Renew(w) \/ Unstall(w)
    BY <2>1, <1>1 DEF Renew, Unstall, table
  <2>2. CASE CompleteThrows(w) \/ \E outcome \in {"succeeded", "threw"} : HandlerEnds(w, outcome)
    BY <2>2 DEF CompleteThrows, HandlerEnds, OwnerIsCurrent, Owns, Busy, TypeOK, table
  <2>3. ASSUME NEW s \in {"COMPLETED", "FAILED", "PENDING"}, NEW d, pc[w] \in Busy,
               IF Owns(w, work[w]) THEN Release(work[w], s, d) ELSE UNCHANGED table, ToIdle(w)
        PROVE  Current(v, j)'
    <3>1. work[w] \in Jobs /\ pc[w] # "dead"
      BY <2>3 DEF BusyHasJob, Busy
    <3>2. Owns(v, j) /\ attempts'[j] = attempts[j] /\ (Owns(w, work[w]) => j # work[w])
      BY <2>3, <3>1 DEF Release, Owns, TypeOK, table
    <3>3. v # w
      BY <3>1, <3>2 DEF OwnerIsCurrent
    <3> QED
      BY <2>3, <3>2, <3>3 DEF ToIdle, OwnerIsCurrent, TypeOK
  <2>4. CASE Complete(w)
    BY <2>4, <2>3 DEF Complete, Busy
  <2>5. CASE Fail(w)
    <3>1. pc[w] \in Busy /\ ToIdle(w)
      BY <2>5 DEF Fail, Busy
    <3>2. CASE Terminal(w)
      BY <2>3, <2>5, <3>1, <3>2 DEF Fail
    <3>3. CASE ~Terminal(w)
      BY <2>3, <2>5, <3>1, <3>3 DEF Fail
    <3> QED
      BY <3>2, <3>3
  <2>6. ASSUME NEW k \in Jobs, Claim(w, k) PROVE Current(v, j)'
    <3>1. CASE v = w
      <4>1. j = k
        BY <2>6, <3>1 DEF Claim, Owns, OwnerIsCurrent, TypeOK, Busy
      <4> QED
        BY <2>6, <3>1, <4>1 DEF Claim, TypeOK, Busy
    <3>2. CASE v # w
      <4>1. j # k /\ Owns(v, j)
        BY <2>6, <3>2 DEF Claim, Owns, TypeOK
      <4> QED
        BY <2>6, <3>2, <4>1 DEF Claim, OwnerIsCurrent, TypeOK
    <3> QED
      BY <3>1, <3>2
  <2> QED
    BY <1>3, <2>1, <2>2, <2>4, <2>5, <2>6 DEF WorkerStep
<1>4. ASSUME NEW w \in Workers, Crash(w) \/ Stall(w) PROVE Current(v, j)'
  BY <1>4 DEF Crash, Stall, OwnerIsCurrent, Owns, TypeOK, table
<1>5. ASSUME NEW k \in Jobs, Arming(k) PROVE Current(v, j)'
  <2>1. ASSUME NEW d, NEW c, NEW r, Upsert(k, d, c, r) PROVE Current(v, j)'
    BY <2>1 DEF Upsert, StatusOnUpsert, OwnerIsCurrent, Owns, TypeOK, runners
  <2> QED
    BY <1>5, <2>1 DEF Arming, Restart, Rearm, Requeue
<1>6. CASE UNCHANGED vars
  BY <1>6, <1>1 DEF vars, runners, table
<1> QED
  BY <1>2, <1>3, <1>4, <1>5, <1>6 DEF Next

-----------------------------------------------------------------------------
LEMMA StepLeaseInStep ==
  ASSUME IInv, [Next]_vars
  PROVE  LeaseInStep'
<1> USE QueueAssumption
<1> DEFINE InStep(v, j) == leaseLeft[j] = LockTicks - RenewEvery + renewIn[v]
<1> SUFFICES ASSUME NEW j \in Jobs, NEW v \in Workers,
                    Owns(v, j)', pc'[v] \in Busy, health'[v] = "ok"
             PROVE  InStep(v, j)'
  BY DEF LeaseInStep
<1> TypeOK /\ BusyHasJob /\ OwnerIsCurrent /\ LeaseInStep
  BY DEF IInv
<1> /\ leaseLeft[j] \in Int /\ renewIn[v] \in 0 .. RenewEvery
    /\ LockTicks \in Int /\ RenewEvery \in Int
  BY DEF TypeOK, Expired
<1>1. ASSUME Owns(v, j), pc[v] \in Busy, health[v] = "ok",
             leaseLeft'[j] = leaseLeft[j], renewIn'[v] = renewIn[v]
      PROVE  InStep(v, j)'
  BY <1>1 DEF LeaseInStep
<1>2. CASE Tick
  <2>1. Owns(v, j) /\ pc[v] \in Busy /\ health[v] = "ok"
    BY <1>2 DEF Tick, Owns
  <2>2. renewIn[v] > 0 /\ InStep(v, j)
    BY <1>2, <2>1 DEF Tick, LeaseInStep
  <2>3. renewIn'[v] = renewIn[v] - 1 /\ leaseLeft'[j] = leaseLeft[j] - 1
    BY <1>2, <2>2 DEF Tick, Countdown, Expired
  <2> QED
    BY <2>2, <2>3
<1>3. ASSUME NEW w \in Workers, WorkerStep(w) PROVE InStep(v, j)'
  <2>1. CASE Renew(w)
    <3>1. Owns(v, j) /\ pc[v] \in Busy /\ health[v] = "ok"
      BY <2>1 DEF Renew, Owns
    <3>2. CASE v = w
      <4>1. work[w] = j
        BY <3>1, <3>2, OwnedIsWork DEF Busy
      <4> QED
        BY <2>1, <3>1, <3>2, <4>1 DEF Renew, TypeOK
    <3>3. CASE v # w
      <4>1. leaseLeft'[j] = leaseLeft[j] /\ renewIn'[v] = renewIn[v]
        BY <2>1, <3>1, <3>3 DEF Renew, Owns, TypeOK
      <4> QED
        BY <1>1, <3>1, <4>1
    <3> QED
      BY <3>2, <3>3
  <2>2. CASE Unstall(w)
    BY <1>1, <2>2 DEF Unstall, Owns, TypeOK, table
  <2>3. CASE CompleteThrows(w) \/ \E outcome \in {"succeeded", "threw"} : HandlerEnds(w, outcome)
    BY <1>1, <2>3 DEF CompleteThrows, HandlerEnds, Owns, Busy, TypeOK, table
  <2>4. ASSUME NEW s \in {"COMPLETED", "FAILED", "PENDING"}, NEW d, pc[w] \in Busy,
               IF Owns(w, work[w]) THEN Release(work[w], s, d) ELSE UNCHANGED table, ToIdle(w)
        PROVE  InStep(v, j)'
    <3>1. work[w] \in Jobs
      BY <2>4 DEF BusyHasJob
    <3>2. Owns(v, j) /\ leaseLeft'[j] = leaseLeft[j]
      BY <2>4, <3>1 DEF Release, Owns, TypeOK, table
    <3>3. pc[v] \in Busy /\ health[v] = "ok" /\ renewIn'[v] = renewIn[v]
      BY <2>4 DEF ToIdle, TypeOK, Busy
    <3> QED
      BY <1>1, <3>2, <3>3
  <2>5. CASE Complete(w)
    BY <2>5, <2>4 DEF Complete, Busy
  <2>6. CASE Fail(w)
    <3>1. pc[w] \in Busy /\ ToIdle(w)
      BY <2>6 DEF Fail, Busy
    <3>2. CASE Terminal(w)
      BY <2>4, <2>6, <3>1, <3>2 DEF Fail
    <3>3. CASE ~Terminal(w)
      BY <2>4, <2>6, <3>1, <3>3 DEF Fail
    <3> QED
      BY <3>2, <3>3
  <2>7. ASSUME NEW k \in Jobs, Claim(w, k) PROVE InStep(v, j)'
    <3>1. CASE v = w
      <4>1. j = k
        <5>1. j # k => Owns(v, j) /\ pc[v] = "idle"
          BY <2>7, <3>1 DEF Claim, Owns, TypeOK
        <5> QED
          BY <5>1, OwnedIsWork DEF Busy
      <4>2. leaseLeft'[j] = LockTicks /\ renewIn'[v] = RenewEvery
        BY <2>7, <3>1, <4>1 DEF Claim, TypeOK
      <4> QED
        BY <4>2
    <3>2. CASE v # w
      BY <1>1, <2>7, <3>2 DEF Claim, Owns, TypeOK
    <3> QED
      BY <3>1, <3>2
  <2> QED
    BY <1>3, <2>1, <2>2, <2>3, <2>5, <2>6, <2>7 DEF WorkerStep
<1>4. ASSUME NEW w \in Workers, Crash(w) \/ Stall(w) PROVE InStep(v, j)'
  BY <1>1, <1>4 DEF Crash, Stall, Owns, Busy, TypeOK, table
<1>5. ASSUME NEW k \in Jobs, Arming(k) PROVE InStep(v, j)'
  <2>1. ASSUME NEW d, NEW c, NEW r, Upsert(k, d, c, r) PROVE InStep(v, j)'
    BY <1>1, <2>1 DEF Upsert, StatusOnUpsert, Owns, TypeOK, runners
  <2> QED
    BY <1>5, <2>1 DEF Arming, Restart, Rearm, Requeue
<1>6. CASE UNCHANGED vars
  BY <1>1, <1>6 DEF vars, runners, table, Owns
<1> QED
  BY <1>2, <1>3, <1>4, <1>5, <1>6 DEF Next

LEMMA StepIInv == IInv /\ [Next]_vars => IInv'
  BY StepTypeOK, StepBusyHasJob, StepOwnerIsCurrent, StepLeaseInStep DEF IInv

LEMMA Inductive == Spec => []IInv
  BY InitIInv, StepIInv, PTL DEF Spec

-----------------------------------------------------------------------------
\* Every row and every runner keeps its type, the counted-down lease and
\* renewal timers within their ranges; a row without an owner has no lease, and
\* a settled one no owner (jobs table, JobRunner.run, completeClaimedJob).
THEOREM TypeCorrect == Spec => []TypeOK
  BY Inductive, PTL DEF IInv

\* A row RUNNING under a live worker is the row this worker executes, and the
\* attempt count it decides by in failClaimedJob is the row's.
THEOREM OwnershipCorrect == Spec => []OwnerIsCurrent
  BY Inductive, PTL DEF IInv

LEMMA IInvLive == IInv => LiveLeaseHeld
<1> SUFFICES ASSUME IInv, NEW w \in Workers, pc[w] \in Busy, health[w] = "ok", Owns(w, work[w])
             PROVE  ~LeaseExpired(work[w])
  BY DEF LiveLeaseHeld
<1>1. work[w] \in Jobs /\ renewIn[w] \in 0 .. RenewEvery
  BY DEF IInv, BusyHasJob, TypeOK
<1>2. leaseLeft[work[w]] = LockTicks - RenewEvery + renewIn[w]
  BY <1>1 DEF IInv, LeaseInStep
<1> QED
  BY <1>1, <1>2, QueueAssumption DEF LeaseExpired, Expired

\* Renewal every third of the lock time keeps the lease of a worker whose
\* timers run on time, for every lock length and renewal interval below it.
THEOREM LeaseCorrect == Spec => []LiveLeaseHeld
  BY Inductive, IInvLive, PTL

-----------------------------------------------------------------------------
\* Which worker can come to own a row in a step: the one that claims it.
LEMMA OnlyClaimTakes ==
  ASSUME IInv, [Next]_vars, NEW j \in Jobs, NEW w \in Workers, Owns(w, j)', ~Owns(w, j)
  PROVE  Claim(w, j)
<1> TypeOK /\ BusyHasJob
  BY DEF IInv
<1>1. ~UNCHANGED <<status, lockedBy>>
  BY DEF Owns
<1>2. ~Tick /\ ~UNCHANGED vars
  BY <1>1 DEF Tick, vars, table
<1>3. ASSUME NEW v \in Workers, WorkerStep(v) PROVE Claim(w, j)
  <2>1. ~(Renew(v) \/ Unstall(v) \/ CompleteThrows(v))
    BY <1>1 DEF Renew, Unstall, CompleteThrows, table
  <2>2. ~\E outcome \in {"succeeded", "threw"} : HandlerEnds(v, outcome)
    BY <1>1 DEF HandlerEnds, table
  <2>3. ASSUME NEW s \in {"COMPLETED", "FAILED", "PENDING"}, NEW d, work[v] \in Jobs,
               IF Owns(v, work[v]) THEN Release(work[v], s, d) ELSE UNCHANGED table
        PROVE  FALSE
    BY <1>1, <2>3 DEF Release, Owns, TypeOK, table
  <2>4. Complete(v) \/ Fail(v) => work[v] \in Jobs
    BY DEF Complete, Fail, BusyHasJob, Busy
  <2>5. ~Complete(v)
    BY <2>3, <2>4 DEF Complete
  <2>6. ~Fail(v)
    <3>1. CASE Terminal(v)
      BY <2>3, <2>4, <3>1 DEF Fail
    <3>2. CASE ~Terminal(v)
      BY <2>3, <2>4, <3>2 DEF Fail
    <3> QED
      BY <3>1, <3>2
  <2>7. PICK k \in Jobs : Claim(v, k)
    BY <1>3, <2>1, <2>2, <2>5, <2>6 DEF WorkerStep
  <2>8. k = j /\ v = w
    BY <2>7 DEF Claim, Owns, TypeOK
  <2> QED
    BY <2>7, <2>8
<1>4. ASSUME NEW v \in Workers PROVE ~(Crash(v) \/ Stall(v))
  BY <1>1 DEF Crash, Stall, table
<1>5. ASSUME NEW k \in Jobs, Arming(k) PROVE FALSE
  <2>1. ASSUME NEW d, NEW c, NEW r, Upsert(k, d, c, r) PROVE FALSE
    BY <2>1 DEF Upsert, StatusOnUpsert, Owns, TypeOK
  <2> QED
    BY <1>5, <2>1 DEF Arming, Restart, Rearm, Requeue
<1> QED
  BY <1>2, <1>3, <1>4, <1>5 DEF Next

\* A RUNNING job is never taken from a live worker that keeps up with its
\* timers, however many workers poll and for any duration of the handler.
THEOREM TheftFree == Spec => NoTheft
<1> DEFINE Safe == \A j \in Jobs : \A v, w \in Workers :
             Owns(v, j) /\ pc[v] # "dead" /\ health[v] = "ok" /\ v # w => ~Owns(w, j)'
<1>1. ASSUME IInv, [Next]_vars PROVE Safe
  <2> SUFFICES ASSUME NEW j \in Jobs, NEW v \in Workers, NEW w \in Workers,
                      Owns(v, j), pc[v] # "dead", health[v] = "ok", v # w, Owns(w, j)'
               PROVE  FALSE
    OBVIOUS
  <2>1. Claim(w, j)
    BY <1>1, OnlyClaimTakes DEF Owns
  <2>2. leaseLeft[j] = Expired
    BY <2>1 DEF Claim, Due, LeaseExpired, Owns
  <2>3. pc[v] \in Busy /\ work[v] = j
    BY <1>1, OwnedIsWork DEF IInv
  <2> QED
    BY <1>1, <2>2, <2>3, IInvLive DEF LiveLeaseHeld, LeaseExpired
<1>2. ASSUME IInv, [Next]_vars PROVE [Safe]_vars
  BY <1>1, <1>2
<1> QED
  BY Inductive, <1>2, PTL DEF Spec, NoTheft

-----------------------------------------------------------------------------
\* Which step settles a row for good, or takes a runner from "threw" to
\* "idle": its own.
LEMMA OnlySettlementEnds ==
  ASSUME IInv, [Next]_vars, NEW j \in Jobs,
         status'[j] # status[j], status'[j] \in {"COMPLETED", "FAILED"}
  PROVE  \E w \in Workers : Complete(w) \/ Fail(w)
<1>1. ~Tick /\ ~UNCHANGED vars
  BY DEF Tick, vars, table
<1>2. ASSUME NEW k \in Jobs, Arming(k) PROVE FALSE
  <2>1. ASSUME NEW d, NEW c, NEW r, Upsert(k, d, c, r) PROVE FALSE
    BY <2>1 DEF Upsert, StatusOnUpsert, IInv, TypeOK
  <2> QED
    BY <1>2, <2>1 DEF Arming, Restart, Rearm, Requeue
<1>3. ASSUME NEW w \in Workers PROVE ~(Crash(w) \/ Stall(w))
  BY DEF Crash, Stall, table
<1>4. ASSUME NEW w \in Workers, WorkerStep(w) PROVE Complete(w) \/ Fail(w)
  <2>1. ~(Renew(w) \/ Unstall(w) \/ CompleteThrows(w))
    BY DEF Renew, Unstall, CompleteThrows, table
  <2>2. ~\E outcome \in {"succeeded", "threw"} : HandlerEnds(w, outcome)
    BY DEF HandlerEnds, table
  <2>3. ASSUME NEW k \in Jobs PROVE ~Claim(w, k)
    BY DEF Claim, IInv, TypeOK
  <2> QED
    BY <1>4, <2>1, <2>2, <2>3 DEF WorkerStep
<1> QED
  BY <1>1, <1>2, <1>3, <1>4 DEF Next

LEMMA OnlyFailFollowsThrew ==
  ASSUME IInv, [Next]_vars, NEW w \in Workers, pc[w] = "threw", pc'[w] = "idle"
  PROVE  Fail(w)
<1> TypeOK
  BY DEF IInv
<1>1. ~Tick /\ ~UNCHANGED vars
  BY DEF Tick, vars, runners
<1>2. ASSUME NEW k \in Jobs, Arming(k) PROVE FALSE
  BY <1>2 DEF Arming, Restart, Rearm, Requeue, Upsert, runners
<1>3. ASSUME NEW v \in Workers PROVE ~(Crash(v) \/ Stall(v))
  BY DEF Crash, Stall, TypeOK
<1>4. ASSUME NEW v \in Workers, WorkerStep(v) PROVE Fail(w)
  <2>1. ~(Renew(v) \/ Unstall(v) \/ CompleteThrows(v))
    BY DEF Renew, Unstall, CompleteThrows, TypeOK
  <2>2. ~\E outcome \in {"succeeded", "threw"} : HandlerEnds(v, outcome)
    BY DEF HandlerEnds, TypeOK
  <2>3. ASSUME NEW k \in Jobs PROVE ~Claim(v, k)
    BY DEF Claim, TypeOK
  <2>4. ~Complete(v)
    BY DEF Complete, ToIdle, TypeOK
  <2>5. Fail(v) => v = w
    BY DEF Fail, ToIdle, TypeOK
  <2> QED
    BY <1>4, <2>1, <2>2, <2>3, <2>4, <2>5 DEF WorkerStep
<1> QED
  BY <1>1, <1>2, <1>3, <1>4 DEF Next

\* A job ends only through the worker that holds the current claim on it, and
\* as that worker's handler ended; a worker that lost its lease ends nothing.
THEOREM SettlementCorrect == Spec => NoStaleSettlement
<1> DEFINE Safe == \A j \in Jobs :
       status'[j] # status[j] /\ status'[j] \in {"COMPLETED", "FAILED"} =>
         \E w \in Workers :
           /\ Owns(w, j) /\ work[w] = j
           /\ pc[w] = (IF status'[j] = "COMPLETED" THEN "succeeded" ELSE "threw")
<1>1. ASSUME IInv, [Next]_vars PROVE Safe
  <2> SUFFICES ASSUME NEW j \in Jobs, status'[j] # status[j], status'[j] \in {"COMPLETED", "FAILED"}
               PROVE  \E w \in Workers :
                 /\ Owns(w, j) /\ work[w] = j
                 /\ pc[w] = (IF status'[j] = "COMPLETED" THEN "succeeded" ELSE "threw")
    OBVIOUS
  <2>1. PICK w \in Workers : Complete(w) \/ Fail(w)
    BY <1>1, OnlySettlementEnds
  <2>2. work[w] \in Jobs
    BY <1>1, <2>1 DEF Complete, Fail, IInv, BusyHasJob, Busy
  <2>3. ASSUME NEW s \in {"COMPLETED", "FAILED", "PENDING"}, NEW d,
               IF Owns(w, work[w]) THEN Release(work[w], s, d) ELSE UNCHANGED table
        PROVE  Owns(w, work[w]) /\ work[w] = j /\ status'[j] = s
    BY <1>1, <2>2, <2>3 DEF Release, table, IInv, TypeOK
  <2>4. CASE Complete(w)
    <3>1. Owns(w, j) /\ work[w] = j /\ status'[j] = "COMPLETED"
      BY <2>3, <2>4 DEF Complete
    <3> QED
      BY <2>4, <3>1 DEF Complete
  <2>5. CASE Fail(w)
    <3>1. CASE Terminal(w)
      <4>1. Owns(w, j) /\ work[w] = j /\ status'[j] = "FAILED"
        BY <2>3, <2>5, <3>1 DEF Fail
      <4> QED
        BY <2>5, <4>1 DEF Fail
    <3>2. CASE ~Terminal(w)
      <4>1. status'[j] = "PENDING"
        BY <2>3, <2>5, <3>2 DEF Fail
      <4> QED
        BY <4>1
    <3> QED
      BY <3>1, <3>2
  <2> QED
    BY <2>1, <2>4, <2>5
<1>2. ASSUME IInv, [Next]_vars PROVE [Safe]_vars
  BY <1>1, <1>2
<1> QED
  BY Inductive, <1>2, PTL DEF Spec, NoStaleSettlement

\* failClaimedJob gives a job up exactly when the attempts in its row are used
\* up, although it decides from the copy the claim returned.
THEOREM BudgetCorrect == Spec => BudgetRespected
<1> DEFINE Safe == \A j \in Jobs, w \in Workers :
       Owns(w, j) /\ pc[w] = "threw" /\ pc'[w] = "idle" =>
         IF attempts[j] >= MaxAttempts THEN status'[j] = "FAILED"
         ELSE status'[j] = "PENDING" /\ runIn'[j] > 0
<1>1. ASSUME IInv, [Next]_vars PROVE Safe
  <2> SUFFICES ASSUME NEW j \in Jobs, NEW w \in Workers,
                      Owns(w, j), pc[w] = "threw", pc'[w] = "idle"
               PROVE  IF attempts[j] >= MaxAttempts THEN status'[j] = "FAILED"
                      ELSE status'[j] = "PENDING" /\ runIn'[j] > 0
    OBVIOUS
  <2>1. Fail(w)
    BY <1>1, OnlyFailFollowsThrew
  <2>2. work[w] = j /\ seen[w] = attempts[j]
    BY <1>1, OwnedIsWork DEF IInv
  <2>3. seen[w] \in Nat /\ seen[w] >= 1
    BY <1>1 DEF IInv, TypeOK, BusyHasJob, Busy
  <2>4. CASE Terminal(w)
    <3>1. Release(j, "FAILED", runIn[j])
      BY <2>1, <2>2, <2>4 DEF Fail
    <3> QED
      BY <1>1, <2>2, <2>4, <3>1 DEF Terminal, Release, IInv, TypeOK
  <2>5. CASE ~Terminal(w)
    <3>1. Release(j, "PENDING", Backoff[seen[w]])
      BY <2>1, <2>2, <2>5 DEF Fail
    <3>2. Backoff[seen[w]] > 0
      BY <2>3, <2>5, QueueAssumption DEF Terminal
    <3>3. status'[j] = "PENDING" /\ runIn'[j] = Backoff[seen[w]]
      BY <1>1, <3>1 DEF Release, IInv, TypeOK
    <3> QED
      BY <2>2, <2>3, <2>5, <3>2, <3>3, QueueAssumption DEF Terminal
  <2> QED
    BY <2>4, <2>5
<1>2. ASSUME IInv, [Next]_vars PROVE [Safe]_vars
  BY <1>1, <1>2
<1> QED
  BY Inductive, <1>2, PTL DEF Spec, BudgetRespected

-----------------------------------------------------------------------------
(* JobQueue implements JobOwnership. *)

\* How a step of the queue looks from outside: row j changes, if any.
LEMMA OnlyRowChanges ==
  ASSUME NEW j \in Jobs,
         \A k \in Jobs \ {j} : status'[k] = status[k] /\ lockedBy'[k] = lockedBy[k]
  PROVE  /\ [k \in Jobs |-> Phase(k)]' = [[k \in Jobs |-> Phase(k)] EXCEPT ![j] = Phase(j)']
         /\ [k \in Jobs |-> Owner(k)]' = [[k \in Jobs |-> Owner(k)] EXCEPT ![j] = Owner(j)']
<1>1. \A k \in Jobs \ {j} : Phase(k)' = Phase(k) /\ Owner(k)' = Owner(k)
  BY DEF Phase, Owner
<1> QED
  BY <1>1

LEMMA NoRowChanges ==
  ASSUME UNCHANGED <<status, lockedBy>>
  PROVE  UNCHANGED Ownership!vars
  BY DEF Ownership!vars, Phase, Owner

\* Only the holder of the current claim gives a row up, as JobOwnership asks.
LEMMA SettlementRefines ==
  ASSUME TypeOK, NEW w \in Workers, NEW j \in Jobs, NEW s \in {"COMPLETED", "FAILED", "PENDING"},
         NEW d, Owns(w, j), Release(j, s, d)
  PROVE  Ownership!Settle(j, w)
<1>1. /\ [k \in Jobs |-> Phase(k)]' = [[k \in Jobs |-> Phase(k)] EXCEPT ![j] = Phase(j)']
      /\ [k \in Jobs |-> Owner(k)]' = [[k \in Jobs |-> Owner(k)] EXCEPT ![j] = Owner(j)']
  BY OnlyRowChanges DEF Release, TypeOK
<1>2. Phase(j) = "open" /\ Owner(j) = w
  BY DEF Owns, Phase, Owner
<1>3. Phase(j)' \in {"open", "done", "failed"} /\ Owner(j)' = Nobody
  BY DEF Release, TypeOK, Phase, Owner
<1> QED
  BY <1>1, <1>2, <1>3 DEF Ownership!Settle

LEMMA StepRefines ==
  ASSUME IInv, [Next]_vars
  PROVE  [Ownership!Next]_(Ownership!vars)
<1> TypeOK /\ BusyHasJob
  BY DEF IInv
<1>1. CASE Tick \/ UNCHANGED vars
  BY <1>1, NoRowChanges DEF Tick, vars, table
<1>2. ASSUME NEW w \in Workers, WorkerStep(w) PROVE [Ownership!Next]_(Ownership!vars)
  <2>1. CASE \/ Renew(w) \/ Unstall(w) \/ CompleteThrows(w)
             \/ \E outcome \in {"succeeded", "threw"} : HandlerEnds(w, outcome)
    BY <2>1, NoRowChanges DEF Renew, Unstall, CompleteThrows, HandlerEnds, table
  <2>2. ASSUME NEW j \in Jobs, Claim(w, j) PROVE Ownership!Acquire(j, w)
    <3>1. /\ [k \in Jobs |-> Phase(k)]' = [[k \in Jobs |-> Phase(k)] EXCEPT ![j] = Phase(j)']
          /\ [k \in Jobs |-> Owner(k)]' = [[k \in Jobs |-> Owner(k)] EXCEPT ![j] = Owner(j)']
      BY <2>2, OnlyRowChanges DEF Claim, TypeOK
    <3>2. Phase(j) = "open" /\ Phase(j)' = "open" /\ Owner(j)' = w
      BY <2>2 DEF Claim, Due, TypeOK, Phase, Owner
    <3> QED
      BY <3>1, <3>2 DEF Ownership!Acquire
  <2>3. ASSUME NEW s \in {"COMPLETED", "FAILED", "PENDING"}, NEW d, work[w] \in Jobs,
               IF Owns(w, work[w]) THEN Release(work[w], s, d) ELSE UNCHANGED table
        PROVE  [Ownership!Next]_(Ownership!vars)
    <3>1. CASE Owns(w, work[w])
      BY <2>3, <3>1, SettlementRefines DEF Ownership!Next
    <3>2. CASE ~Owns(w, work[w])
      BY <2>3, <3>2, NoRowChanges DEF table
    <3> QED
      BY <3>1, <3>2
  <2>4. Complete(w) \/ Fail(w) => work[w] \in Jobs
    BY DEF Complete, Fail, BusyHasJob, Busy
  <2>5. CASE Complete(w)
    BY <2>3, <2>4, <2>5 DEF Complete
  <2>6. CASE Fail(w)
    <3>1. CASE Terminal(w)
      BY <2>3, <2>4, <2>6, <3>1 DEF Fail
    <3>2. CASE ~Terminal(w)
      BY <2>3, <2>4, <2>6, <3>2 DEF Fail
    <3> QED
      BY <3>1, <3>2
  <2> QED
    BY <1>2, <2>1, <2>2, <2>5, <2>6 DEF WorkerStep, Ownership!Next
<1>3. ASSUME NEW w \in Workers, Crash(w) \/ Stall(w) PROVE [Ownership!Next]_(Ownership!vars)
  BY <1>3, NoRowChanges DEF Crash, Stall, table
<1>4. ASSUME NEW j \in Jobs, Arming(j) PROVE Ownership!Arm(j)
  <2>1. ASSUME NEW d, NEW c, NEW r, Upsert(j, d, c, r) PROVE Ownership!Arm(j)
    <3>1. /\ [k \in Jobs |-> Phase(k)]' = [[k \in Jobs |-> Phase(k)] EXCEPT ![j] = Phase(j)']
          /\ [k \in Jobs |-> Owner(k)]' = [[k \in Jobs |-> Owner(k)] EXCEPT ![j] = Owner(j)']
      BY <2>1, OnlyRowChanges DEF Upsert, StatusOnUpsert, TypeOK
    <3>2. Phase(j)' = "open" /\ Owner(j)' = Nobody
      BY <2>1 DEF Upsert, StatusOnUpsert, TypeOK, Phase, Owner
    <3> QED
      BY <3>1, <3>2 DEF Ownership!Arm
  <2> QED
    BY <1>4, <2>1 DEF Arming, Restart, Rearm, Requeue
<1> QED
  BY <1>1, <1>2, <1>3, <1>4 DEF Next, Ownership!Next

LEMMA InitRefines == Init => Ownership!Init
  BY DEF Init, Ownership!Init, Phase, Owner

\* The queue of leases, crashes, stalls and competing upserts keeps the simple
\* promise of JobOwnership: one owner, only the owner settles.
THEOREM Refinement == Spec => ImplementsOwnership
<1>1. Init => Ownership!Init
  BY InitRefines
<1>2. IInv /\ [Next]_vars => [Ownership!Next]_(Ownership!vars)
  BY StepRefines
<1> QED
  BY <1>1, <1>2, Inductive, PTL DEF Spec, ImplementsOwnership, Ownership!Spec
=============================================================================
