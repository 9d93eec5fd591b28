------------------------- MODULE DeliveryBooksProofs -------------------------
(***************************************************************************)
(* The books of Delivery: a batch is in one worker's hands at a time, the  *)
(* recipients in flight stay put, the day's usage row covers what is       *)
(* reserved and what is out, and nobody is mailed twice.                   *)
(*                                                                         *)
(* All but the limit itself rest on two hypotheses that the model shows to *)
(* be needed: no worker loses its lease while it still runs, and the       *)
(* statistics after a committed result do not fail (see README.md).        *)
(***************************************************************************)
EXTENDS DeliveryProofs

\* The failures these results exclude: neither a stalled worker whose job is
\* taken over, nor an error of recomputeCampaignStats after the commit.
Calm == "lease loss" \notin Events /\ "stats error" \notin Events

-----------------------------------------------------------------------------
(* A batch has one holder. *)

\* A worker holds the batch its job names, and the one it is sending.
Holds(x, b) == x.pc # "idle" /\ (PayloadBatch(x.job) = b \/ (x.pc \in Holding /\ x.batch = b))
\* The jobs waiting to go on with one batch.
Keys(b) == {t \in wake : PayloadBatch(t) = b}

\* A batch is held by one worker, or waits under one key, or neither; before
\* it is reserved, neither.
HeldOnce(b) ==
  /\ \A v, w \in Workers : v # w => ~(Holds(run[v], b) /\ Holds(run[w], b))
  /\ \A w \in Workers : Holds(run[w], b) => Keys(b) = {}
  /\ \A s, t \in Keys(b) : s = t
  /\ batchStatus[b] = "ABSENT" => Keys(b) = {} /\ \A w \in Workers : ~Holds(run[w], b)
OneHolder == \A b \in Batches : HeldOnce(b)

\* What a worker's step may do to the batch: keep it or let it go, take it
\* from the waiting jobs, leave it to one, or reserve it.
HolderStep(w, b) ==
  \/ Keys(b)' \subseteq Keys(b) /\ (Holds(run'[w], b) => Holds(run[w], b))
  \/ \E t \in Keys(b) : Keys(b)' \subseteq Keys(b) \ {t}
  \/ Holds(run[w], b) /\ ~Holds(run'[w], b) /\ \E t : Keys(b)' \subseteq Keys(b) \cup {t}
  \/ batchStatus[b] = "ABSENT" /\ batchStatus'[b] # "ABSENT" /\ Keys(b)' \subseteq Keys(b)

LEMMA WorkHolds ==
  ASSUME RunOK, RowsOK, JobsOK, NEW w \in Workers, Work(w), NEW b \in Batches
  PROVE  HolderStep(w, b)
<1> USE DEF At
<1> DEFINE x == run[w]
<1>0. /\ x \in RunType /\ LocalOK(x) /\ JobOK(x) /\ None \notin Batches
      /\ x.pc # "idle" => x.job \in Wakes
  BY DeliveryAssumption DEF RunOK, LocalState, LocalOK, JobsOK
<1>k. wake' = wake => Keys(b)' \subseteq Keys(b)
  BY DEF Keys
<1>n. \A t : wake' = wake \cup {t} /\ PayloadBatch(t) # b => Keys(b)' \subseteq Keys(b)
  BY DEF Keys
<1>t. \A t : wake' = wake \cup {t} => Keys(b)' \subseteq Keys(b) \cup {t}
  BY DEF Keys
<1>i. Finished(w) => ~Holds(run'[w], b)
  BY FinishedEffect DEF Holds, Idle
<1>g. ASSUME x.pc # "idle", run'[w].job = x.job, run'[w].pc \in Holding => x.pc \in Holding,
             run'[w].batch = x.batch
      PROVE  Holds(run'[w], b) => Holds(x, b)
  BY <1>g DEF Holds
<1>e. ASSUME NEW step, Goto(w, step), x.pc # "idle", step \in Holding => x.pc \in Holding
      PROVE  Holds(run'[w], b) => Holds(x, b)
  BY <1>e, <1>g, GotoEffect DEF Gets
<1>r. Return(w) => ~Holds(run'[w], b)
  BY <1>0, ReturnEffect DEF Gets, Holds, Idle, Holding, Working
<1>m. ASSUME Misread(w), x.pc \in Holding, x.pc # "idle" PROVE Holds(run'[w], b) => Holds(x, b)
  BY <1>m, <1>g, MisreadEffect DEF Gets
<1>1. ASSUME NEW t \in Wakes, Claim(w, t) PROVE HolderStep(w, b)
  <2>1. t \in wake /\ wake' = wake \ {t}
    BY <1>1 DEF Claim
  <2>2. CASE PayloadBatch(t) = b
    BY <2>1, <2>2 DEF HolderStep, Keys
  <2>3. CASE PayloadBatch(t) # b
    <3>1. Keys(b)' \subseteq Keys(b)
      BY <2>1 DEF Keys
    <3>2. Holds(run'[w], b) => Holds(run[w], b)
      BY <1>1, <2>3, ClaimStarts DEF Gets, Holds, Holding, Working
    <3> QED
      BY <3>1, <3>2 DEF HolderStep
  <2> QED
    BY <2>2, <2>3
<1>2. CASE Hold(w)
  BY <1>0, <1>2, <1>i, <1>n, WakeKeys DEF Hold, HolderStep
<1>3. CASE SlotDenied(w)
  <2> DEFINE t == <<"slot", PayloadBatch(x.job)>>
  <2>1. PayloadBatch(t) = PayloadBatch(x.job) /\ wake' = wake \cup {t} /\ Finished(w) /\ x.pc = "loaded"
    BY <1>3 DEF SlotDenied, PayloadBatch
  <2> HIDE DEF t
  <2>2. CASE PayloadBatch(t) = b
    BY <1>i, <1>t, <2>1, <2>2 DEF HolderStep, Holds
  <2>3. CASE PayloadBatch(t) # b
    BY <1>i, <1>n, <2>1, <2>3 DEF HolderStep
  <2> QED
    BY <2>2, <2>3
<1>4. CASE SlotTaken(w) \/ MarkSending(w) \/ SuppressPending(w)
  BY <1>4, <1>e, <1>k DEF SlotTaken, MarkSending, SuppressPending, HolderStep, Holding, Working, db
<1>5. CASE ClaimReservedBatch(w)
  <2>1. x.pc = "retrying" /\ wake' = wake
    BY <1>5 DEF ClaimReservedBatch
  <2>2. Holds(run'[w], b) => Holds(x, b)
    BY <1>5, <2>1, ClaimReservedEffect DEF Gets, Holds, Idle
  <2> QED
    BY <1>k, <2>1, <2>2 DEF HolderStep
<1>6. CASE Reserve(w)
  <2>1. x.pc = "reserving" /\ wake' = wake /\ PayloadBatch(x.job) = None
    BY <1>0, <1>6 DEF Reserve, JobOK, CampaignLevel
  <2>2. CASE Allowed = 0 \/ Candidates = {}
    BY <1>6, <1>e, <1>k, <2>1, <2>2 DEF Reserve, HolderStep, Holding, Working
  <2>3. CASE ~(Allowed = 0 \/ Candidates = {})
    <3>1. PICK c \in Batches : /\ batchStatus[c] = "ABSENT"
                               /\ batchStatus' = [batchStatus EXCEPT ![c] = "PREPARING"]
                               /\ run'[w].batch = c /\ run'[w].job = x.job
      BY <1>6, <2>3, ReserveEffect DEF Gets
    <3>2. CASE b = c
      BY <1>k, <2>1, <3>1, <3>2 DEF HolderStep, RowsOK
    <3>3. CASE b # c
      BY <1>0, <1>k, <2>1, <3>1, <3>3 DEF HolderStep, Holds
    <3> QED
      BY <3>2, <3>3
  <2> QED
    BY <2>2, <2>3
<1>7. CASE CheckSuppression(w) \/ Block(w) \/ PrepareAttempt(w)
  <2>1. x.pc \in Holding /\ x.pc # "idle" /\ wake' = wake
    BY <1>7 DEF CheckSuppression, Block, PrepareAttempt, Holding, Working, db
  <2>2. Holds(run'[w], b) => Holds(x, b)
    <3>1. Return(w) \/ Goto(w, "submitting") => (Holds(run'[w], b) => Holds(x, b))
      BY <1>e, <1>r, <2>1
    <3> QED
      BY <1>7, <1>g, <2>1, <3>1, CheckEffect, BlockEffect DEF Gets, PrepareAttempt
  <2> QED
    BY <1>k, <2>1, <2>2 DEF HolderStep
<1>8. CASE SubmitAnswered(w) \/ \E e \in ProviderErrors : SubmitThrows(w, e)
  <2>1. x.pc \in Holding /\ x.pc # "idle" /\ wake' = wake
    BY <1>8 DEF SubmitAnswered, SubmitThrows, Holding, Working, db
  <2>2. Holds(run'[w], b) => Holds(x, b)
    BY <1>8, <1>g, <2>1, AnsweredEffect, ThrowsEffect DEF Gets
  <2> QED
    BY <1>k, <2>1, <2>2 DEF HolderStep
<1>9. CASE Finish(w) \/ FinishThrows(w) \/ StatsThrow(w) \/ FailBatch(w)
  <2>1. x.pc \in Holding /\ x.pc # "idle" /\ wake' = wake
    BY <1>9 DEF Finish, FinishThrows, StatsThrow, CommitResult, FailBatch, Holding, Working, db
  <2>2. Holds(run'[w], b) => Holds(x, b)
    BY <1>9, <1>e, <1>m, <1>r, <2>1 DEF Finish, FinishThrows, StatsThrow, FailBatch
  <2> QED
    BY <1>k, <2>1, <2>2 DEF HolderStep
<1>10. CASE CheckViolated(w)
  <2>1. x.pc # "idle" /\ Finished(w) /\ (wake' = wake \/ wake' = wake \cup {x.job})
    BY <1>10 DEF CheckViolated
  <2>2. CASE PayloadBatch(x.job) = b
    BY <1>i, <1>k, <1>t, <2>1, <2>2 DEF HolderStep, Holds
  <2>3. CASE PayloadBatch(x.job) # b
    BY <1>i, <1>k, <1>n, <2>1, <2>3 DEF HolderStep
  <2> QED
    BY <2>2, <2>3
<1>11. CASE ScheduleRetry(w)
  <2> DEFINE t == <<"retry", x.batch>>
  <2>1. /\ x.pc = "rescheduling" /\ Return(w) /\ wake' = wake \cup {t}
        /\ PayloadBatch(t) = x.batch
    BY <1>11 DEF ScheduleRetry, PayloadBatch
  <2> HIDE DEF t
  <2>2. CASE x.batch = b
    BY <1>r, <1>t, <2>1, <2>2 DEF HolderStep, Holds, Holding
  <2>3. CASE x.batch # b
    BY <1>r, <1>n, <2>1, <2>3 DEF HolderStep
  <2> QED
    BY <2>2, <2>3
<1>12. CASE ScheduleNext(w)
  <2>1. /\ x.pc = "chaining" /\ Goto(w, "counting") /\ x.batch \in Batches
        /\ wake' = wake \cup {<<"next", x.batch>>}
    BY <1>0, <1>12 DEF ScheduleNext, NextJob, LocalOK, WithBatch
  <2>2. PayloadBatch(<<"next", x.batch>>) # b
    BY <1>0, <2>1, WakeKeys
  <2> QED
    BY <1>e, <1>n, <2>1, <2>2 DEF HolderStep, Holding, Working
<1>13. CASE CountRemaining(w)
  <2>1. x.pc = "counting" /\ (Goto(w, "completing") \/ Finished(w))
        /\ (wake' = wake \/ wake' = wake \cup {<<"quota", None>>})
    BY <1>13 DEF CountRemaining
  <2>2. PayloadBatch(<<"quota", None>>) # b
    BY <1>0, WakeKeys
  <2> QED
    BY <1>e, <1>i, <1>k, <1>n, <2>1, <2>2 DEF HolderStep, Holding, Working
<1>14. CASE CompleteCampaign(w)
  BY <1>14, <1>i, <1>k DEF CompleteCampaign, HolderStep
<1> QED
  BY <1>1, <1>2, <1>3, <1>4, <1>5, <1>6, <1>7, <1>8, <1>9, <1>10, <1>11, <1>12, <1>13, <1>14 DEF Work

\* A batch number that was given out stays given out.
LEMMA NeverAbsentAgain ==
  ASSUME RunOK, RowsOK, Next, NEW b \in Batches, batchStatus'[b] = "ABSENT"
  PROVE  batchStatus[b] = "ABSENT"
<1>1. CASE Environment
  BY <1>1 DEF Environment, Pause, Resume, Cancel, GuardTrips, Suppress, CloseGate, OpenGate, SlotFrees,
     KeyExpires, Abort, LoseLease, db, RowsOK
<1>2. ASSUME NEW w \in Workers, Work(w), batchStatus[b] # "ABSENT" PROVE FALSE
  <2>1. ~ClaimReservedBatch(w)
    BY <1>2, ClaimReservedEffect DEF RowsOK
  <2>2. ~Reserve(w)
    <3>1. CASE Allowed = 0 \/ Candidates = {}
      BY <1>2, <3>1 DEF Reserve
    <3>2. CASE ~(Allowed = 0 \/ Candidates = {})
      BY <1>2, <3>2, ReserveEffect DEF RowsOK
    <3> QED
      BY <3>1, <3>2
  <2>3. ~Block(w) /\ ~PrepareAttempt(w) /\ ~CommitResult(w) /\ ~FailBatch(w)
    BY <1>2 DEF Block, PrepareAttempt, CommitResult, FailBatch, RowsOK
  <2> QED
    BY <1>2, <2>1, <2>2, <2>3 DEF Work, Claim, Hold, SlotDenied, SlotTaken, MarkSending, SuppressPending,
       CheckSuppression, SubmitAnswered, SubmitThrows, Finish, FinishThrows, StatsThrow, CheckViolated,
       ScheduleRetry, ScheduleNext, CountRemaining, CompleteCampaign, db
<1> QED
  BY <1>1, <1>2 DEF Next

\* The environment gives no batch a holder: a worker that dies leaves it to
\* its job, or to nobody.
LEMMA EnvironmentHolds ==
  ASSUME RunOK, RowsOK, Environment, "lease loss" \notin Events, NEW b \in Batches
  PROVE  \/ run' = run /\ Keys(b)' \subseteq Keys(b)
         \/ \E w \in Workers : HolderStep(w, b) /\ \A v \in Workers : v # w => run'[v] = run[v]
<1>1. ASSUME NEW w \in Workers, Abort(w) PROVE HolderStep(w, b) /\ \A v \in Workers : v # w => run'[v] = run[v]
  <2>1. run[w].pc # "idle" /\ Finished(w) /\ (wake' = wake \/ wake' = wake \cup {run[w].job})
    BY <1>1 DEF Abort, At
  <2>2. ~Holds(run'[w], b)
    <3>1. run'[w] = Idle /\ Idle.pc = "idle"
      BY <2>1, FinishedEffect DEF Idle
    <3> QED
      BY <3>1 DEF Holds
  <2>3. CASE wake' = wake \/ PayloadBatch(run[w].job) # b
    <3>1. Keys(b)' \subseteq Keys(b)
      BY <2>1, <2>3 DEF Keys
    <3> QED
      BY <2>1, <2>2, <3>1 DEF HolderStep, Finished, RunOK
  <2>4. CASE PayloadBatch(run[w].job) = b
    <3>1. Keys(b)' \subseteq Keys(b) \cup {run[w].job}
      BY <2>1 DEF Keys
    <3>2. Holds(run[w], b)
      BY <2>1, <2>4 DEF Holds
    <3> QED
      BY <2>1, <2>2, <3>1, <3>2 DEF HolderStep, Finished, RunOK
  <2> QED
    BY <2>3, <2>4
<1>2. CASE Pause \/ Resume \/ Cancel \/ GuardTrips \/ \E r \in Recipients, u \in BOOLEAN : Suppress(r, u)
  <2>1. run' = run /\ (wake' = wake \/ wake' = wake \cup {<<"resume", None>>})
    BY <1>2 DEF Pause, Resume, Cancel, GuardTrips, Suppress
  <2>2. PayloadBatch(<<"resume", None>>) # b
    BY WakeKeys
  <2> QED
    BY <2>1, <2>2 DEF Keys
<1>3. CASE CloseGate \/ OpenGate \/ SlotFrees \/ \E c \in Batches : KeyExpires(c)
  BY <1>3 DEF CloseGate, OpenGate, SlotFrees, KeyExpires, db, Keys
<1>4. \A w \in Workers : ~LoseLease(w)
  BY DEF LoseLease, Event
<1> QED
  BY <1>1, <1>2, <1>3, <1>4 DEF Environment

LEMMA HolderStepKeeps ==
  ASSUME NEW w \in Workers, NEW b \in Batches, HeldOnce(b), HolderStep(w, b),
         \A v \in Workers : v # w => run'[v] = run[v],
         batchStatus'[b] = "ABSENT" => batchStatus[b] = "ABSENT"
  PROVE  HeldOnce(b)'
<1>0. \A v \in Workers : v # w => (Holds(run'[v], b) <=> Holds(run[v], b))
  OBVIOUS
<1>1. CASE Keys(b)' \subseteq Keys(b) /\ (Holds(run'[w], b) => Holds(run[w], b))
  BY <1>0, <1>1 DEF HeldOnce
<1>2. CASE \E t \in Keys(b) : Keys(b)' \subseteq Keys(b) \ {t}
  <2>1. Keys(b)' = {}
    BY <1>2 DEF HeldOnce
  <2>2. \A v \in Workers : v # w => ~Holds(run'[v], b)
    BY <1>0, <1>2 DEF HeldOnce
  <2>3. batchStatus'[b] # "ABSENT"
    BY <1>2 DEF HeldOnce
  <2> QED
    BY <2>1, <2>2, <2>3 DEF HeldOnce
<1>3. CASE Holds(run[w], b) /\ ~Holds(run'[w], b) /\ \E t : Keys(b)' \subseteq Keys(b) \cup {t}
  <2>1. Keys(b) = {} /\ batchStatus'[b] # "ABSENT"
    BY <1>3 DEF HeldOnce
  <2>2. \A v \in Workers : ~Holds(run'[v], b)
    BY <1>0, <1>3 DEF HeldOnce
  <2> QED
    BY <1>3, <2>1, <2>2 DEF HeldOnce
<1>4. CASE batchStatus[b] = "ABSENT" /\ batchStatus'[b] # "ABSENT" /\ Keys(b)' \subseteq Keys(b)
  BY <1>0, <1>4 DEF HeldOnce
<1> QED
  BY <1>1, <1>2, <1>3, <1>4 DEF HolderStep

LEMMA StepOneHolder ==
  ASSUME "lease loss" \notin Events
  PROVE  TypeInv /\ JobsOK /\ OneHolder /\ [Next]_vars => OneHolder'
<1> SUFFICES ASSUME TypeInv, JobsOK, OneHolder, [Next]_vars, NEW b \in Batches PROVE HeldOnce(b)'
  BY DEF OneHolder
<1>0. RunOK /\ RowsOK /\ HeldOnce(b)
  BY DEF TypeInv, OneHolder
<1>1. CASE UNCHANGED vars
  BY <1>0, <1>1 DEF vars, db, HeldOnce, Keys
<1>2. CASE Next
  <2>1. batchStatus'[b] = "ABSENT" => batchStatus[b] = "ABSENT"
    BY <1>0, <1>2, NeverAbsentAgain
  <2>2. CASE run' = run /\ Keys(b)' \subseteq Keys(b)
    BY <1>0, <2>1, <2>2 DEF HeldOnce
  <2>3. ASSUME NEW w \in Workers, HolderStep(w, b), \A v \in Workers : v # w => run'[v] = run[v]
        PROVE  HeldOnce(b)'
    BY <1>0, <2>1, <2>3, HolderStepKeeps
  <2>4. CASE Environment
    BY <1>0, <2>2, <2>3, <2>4, EnvironmentHolds
  <2>5. ASSUME NEW w \in Workers, Work(w) PROVE HeldOnce(b)'
    BY <1>0, <2>3, <2>5, WorkHolds, OthersKeep
  <2> QED
    BY <1>2, <2>4, <2>5 DEF Next
<1> QED
  BY <1>1, <1>2

LEMMA HolderInvariant ==
  ASSUME "lease loss" \notin Events
  PROVE  Spec => []OneHolder
<1>1. Init => OneHolder
  <2> SUFFICES ASSUME Init, NEW b \in Batches PROVE HeldOnce(b)
    BY DEF OneHolder
  <2>1. \A w \in Workers : ~Holds(run[w], b)
    BY DEF Init, Idle, Holds
  <2>2. Keys(b) = {}
    BY WakeKeys DEF Init, Keys
  <2> QED
    BY <2>1, <2>2 DEF HeldOnce
<1> QED
  BY <1>1, StepOneHolder, JobsInvariant, TypeInvariant, PTL DEF Spec

-----------------------------------------------------------------------------
(* The recipients in flight stay put. *)

\* The recipients a worker works on are SENDING members of its batch, and
\* the batch's status says how far the worker has come.
FrozenOK(x) ==
  /\ x.pc \in Working =>
       /\ \A r \in x.recips : sendState[r] = "SENDING" /\ sendBatch[r] = x.batch
       /\ batchStatus[x.batch] = IF x.pc \in InFlight THEN "SUBMITTING" ELSE "PREPARING"
  /\ x.pc \in {"blocking", "finishing"} => x.hit \subseteq x.recips
Frozen == \A w \in Workers : FrozenOK(run[w])

\* The transactions of a dispatch that write to the rows below.
LEMMA WritersOfRows ==
  ASSUME NEW w \in Workers, Work(w)
  PROVE  \/ UNCHANGED <<sendState, sendBatch, batchStatus, usage>>
         \/ ClaimReservedBatch(w) \/ SuppressPending(w) \/ Reserve(w) \/ Block(w) \/ PrepareAttempt(w)
         \/ CommitResult(w) \/ FailBatch(w)
  BY DEF Work, Claim, Hold, SlotDenied, SlotTaken, MarkSending, CheckSuppression, SubmitAnswered,
     SubmitThrows, Finish, FinishThrows, StatsThrow, CheckViolated, ScheduleRetry, ScheduleNext,
     CountRemaining, CompleteCampaign, db

\* A batch nobody touches: its status, and the members that do not wait.
Movable == {"PENDING", "RESERVED", "TEMPORARY_FAILED"}
BatchKept(b) ==
  /\ batchStatus'[b] = batchStatus[b]
  /\ \A r \in Recipients : sendBatch[r] = b /\ sendState[r] \notin Movable =>
                              sendState'[r] = sendState[r] /\ sendBatch'[r] = b
  /\ \A r \in Recipients : sendBatch'[r] = b => sendBatch[r] = b

LEMMA WorkKeepsBatch ==
  ASSUME RunOK, RowsOK, NEW w \in Workers, Work(w), FrozenOK(run[w]), NEW b \in Batches,
         ~Holds(run[w], b), batchStatus[b] # "ABSENT"
  PROVE  BatchKept(b)
<1> USE DEF At
<1> DEFINE x == run[w]
<1>0. /\ x \in RunType /\ LocalOK(x) /\ None \notin Batches
      /\ x.pc \in Working => x.batch \in Batches /\ x.batch # b
  BY DeliveryAssumption DEF RunOK, LocalState, LocalOK, Holds, Holding, Working, WithBatch
<1>a. x.pc \in Working => \A r \in x.recips : r \in Recipients /\ sendBatch[r] # b
  BY <1>0 DEF FrozenOK, RunType
<1>1. CASE UNCHANGED <<sendState, sendBatch, batchStatus, usage>>
  BY <1>1 DEF BatchKept
<1>2. CASE ClaimReservedBatch(w)
  <2> DEFINE c == PayloadBatch(x.job)
  <2>1. x.pc = "retrying" /\ c # b /\ sendBatch' = sendBatch
    BY <1>2 DEF ClaimReservedBatch, Holds
  <2>2. \/ UNCHANGED <<batchStatus, sendState>>
        \/ batchStatus' = [batchStatus EXCEPT ![c] = "PREPARING"] /\ SetState(Revived(c), "SENDING")
    BY <1>2, ClaimReservedEffect
  <2> HIDE DEF c
  <2> QED
    BY <2>1, <2>2 DEF BatchKept, SetState, Revived, InState, Movable, RowsOK
<1>3. CASE SuppressPending(w)
  BY <1>3 DEF SuppressPending, BatchKept, SetState, InState, Movable
<1>4. CASE Reserve(w)
  <2>1. CASE Allowed = 0 \/ Candidates = {}
    BY <1>4, <2>1 DEF Reserve, BatchKept
  <2>2. CASE ~(Allowed = 0 \/ Candidates = {})
    <3>1. PICK S \in kSubset(Smaller(Allowed, Cardinality(Candidates)), Candidates), c \in Batches :
            /\ batchStatus[c] = "ABSENT"
            /\ batchStatus' = [batchStatus EXCEPT ![c] = "PREPARING"]
            /\ SetState(S, "SENDING")
            /\ sendBatch' = [r \in Recipients |-> IF r \in S THEN c ELSE sendBatch[r]]
      BY <1>4, <2>2, ReserveEffect
    <3>2. \A r \in S : sendState[r] \in Movable
      BY ReservationSize DEF Candidates, InState, Movable
    <3> QED
      BY <3>1, <3>2 DEF BatchKept, SetState, RowsOK
  <2> QED
    BY <2>1, <2>2
<1>5. CASE Block(w)
  <2>1. x.pc = "blocking" /\ SetState(x.hit, "SUPPRESSED")
        /\ (batchStatus' = batchStatus \/ batchStatus' = [batchStatus EXCEPT ![x.batch] = "PERMANENT_FAILED"])
        /\ (sendBatch' = sendBatch
              \/ sendBatch' = [r \in Recipients |-> IF r \in x.hit THEN None ELSE sendBatch[r]])
    BY <1>5 DEF Block
  <2>2. x.pc \in Working /\ \A r \in x.hit : sendBatch[r] # b
    BY <1>a, <2>1 DEF FrozenOK, Working
  <2>3. batchStatus'[b] = batchStatus[b]
    BY <1>0, <2>1, <2>2 DEF RowsOK
  <2>4. \A r \in Recipients : sendBatch[r] = b => sendState'[r] = sendState[r] /\ sendBatch'[r] = b
    BY <2>1, <2>2 DEF SetState
  <2>5. \A r \in Recipients : sendBatch'[r] = b => sendBatch[r] = b
    BY <1>0, <2>1
  <2> QED
    BY <2>3, <2>4, <2>5 DEF BatchKept
<1>6. CASE PrepareAttempt(w)
  BY <1>0, <1>6 DEF PrepareAttempt, BatchKept, RowsOK, Working
<1>7. CASE CommitResult(w)
  <2>1. x.pc \in Working /\ sendBatch' = sendBatch /\ x.hit \subseteq x.recips
    BY <1>7 DEF CommitResult, FrozenOK, Working
  <2>2. batchStatus'[b] = batchStatus[b]
    BY <1>0, <1>7, <2>1 DEF CommitResult, RowsOK
  <2>3. \A r \in Recipients : sendBatch[r] = b => sendState'[r] = sendState[r]
    BY <1>7, <1>a, <2>1 DEF CommitResult, AcceptedItems
  <2> QED
    BY <2>1, <2>2, <2>3 DEF BatchKept
<1>8. CASE FailBatch(w)
  <2>1. x.pc \in Working /\ sendBatch' = sendBatch
    BY <1>8 DEF FailBatch, Working
  <2>2. batchStatus'[b] = batchStatus[b]
    BY <1>0, <1>8, <2>1 DEF FailBatch, RowsOK
  <2>3. \A r \in Recipients : sendBatch[r] = b => sendState'[r] = sendState[r]
    BY <1>0, <1>8, <2>1 DEF FailBatch, SetState
  <2> QED
    BY <2>1, <2>2, <2>3 DEF BatchKept
<1> QED
  BY <1>1, <1>2, <1>3, <1>4, <1>5, <1>6, <1>7, <1>8, WritersOfRows

LEMMA EnvironmentKeepsBatch ==
  ASSUME RowsOK, Environment, NEW b \in Batches, batchStatus[b] # "TEMPORARY_FAILED"
  PROVE  BatchKept(b)
<1>1. CASE Cancel
  <2>1. SetState(Cancellable, "CANCELLED") /\ sendBatch' = sendBatch /\ batchStatus'[b] = batchStatus[b]
    BY <1>1 DEF Cancel
  <2> QED
    BY <2>1 DEF SetState, Cancellable, InState, BatchKept, Movable
<1>2. ASSUME NEW r \in Recipients, NEW u \in BOOLEAN, Suppress(r, u) PROVE BatchKept(b)
  BY <1>2 DEF Suppress, SetState, InState, BatchKept, Movable
<1>3. CASE Pause \/ Resume \/ GuardTrips \/ CloseGate \/ OpenGate \/ SlotFrees
  BY <1>3 DEF Pause, Resume, GuardTrips, CloseGate, OpenGate, SlotFrees, db, BatchKept
<1>4. CASE (\E c \in Batches : KeyExpires(c)) \/ (\E w \in Workers : Abort(w) \/ LoseLease(w))
  BY <1>4 DEF KeyExpires, Abort, LoseLease, db, BatchKept
<1> QED
  BY <1>1, <1>2, <1>3, <1>4 DEF Environment

LEMMA WorkFreezes ==
  ASSUME RunOK, RowsOK, Calm, NEW w \in Workers, Work(w), FrozenOK(run[w])
  PROVE  FrozenOK(run[w])'
<1> USE DEF At
<1> DEFINE x == run[w]
           y == run'[w]
<1>0. x \in RunType /\ (x.pc \in Working => x.batch \in Batches) /\ (x.pc = "retrying" => PayloadBatch(x.job) \in Batches)
  BY DEF RunOK, LocalState, LocalOK, Working, WithBatch
<1>z. y.pc \notin Working => FrozenOK(run[w])'
  BY DEF FrozenOK, Working
<1>i. Finished(w) => FrozenOK(run[w])'
  <2>1. Idle.pc \notin Working
    BY DEF Idle, Working
  <2> QED
    BY <1>z, <2>1, FinishedEffect
<1>r. Return(w) => FrozenOK(run[w])'
  BY <1>z, ReturnEffect DEF Gets, Idle, Working
<1>g. ASSUME NEW step, Goto(w, step), step \notin Working PROVE FrozenOK(run[w])'
  BY <1>z, <1>g, GotoEffect DEF Gets
<1>1. ASSUME NEW t \in Wakes, Claim(w, t) PROVE FrozenOK(run[w])'
  <2>1. y.pc \notin Working
    BY <1>1, ClaimStarts DEF Gets, Claim, Working
  <2> QED
    BY <1>z, <2>1
<1>2. CASE Hold(w) \/ SlotDenied(w) \/ SlotTaken(w) \/ MarkSending(w) \/ SuppressPending(w)
  BY <1>2, <1>i, <1>g DEF Hold, SlotDenied, SlotTaken, MarkSending, SuppressPending, Working
<1>3. CASE ClaimReservedBatch(w)
  <2> DEFINE c == PayloadBatch(x.job)
  <2>1. c \in Batches /\ sendBatch' = sendBatch
    BY <1>0, <1>3 DEF ClaimReservedBatch
  <2>2. \/ y = Idle
        \/ /\ batchStatus' = [batchStatus EXCEPT ![c] = "PREPARING"]
           /\ SetState(Revived(c), "SENDING")
           /\ y.pc = "checking" /\ y.batch = c /\ y.recips = Taken(c)
    BY <1>3, ClaimReservedEffect DEF Gets
  <2> HIDE DEF c
  <2>3. CASE y = Idle
    BY <1>z, <2>3 DEF Idle, Working
  <2>4. CASE /\ batchStatus' = [batchStatus EXCEPT ![c] = "PREPARING"]
             /\ SetState(Revived(c), "SENDING")
             /\ y.pc = "checking" /\ y.batch = c /\ y.recips = Taken(c)
    <3>1. batchStatus'[y.batch] = "PREPARING"
      BY <2>1, <2>4 DEF RowsOK
    <3>2. \A r \in y.recips : sendState'[r] = "SENDING" /\ sendBatch'[r] = y.batch
      BY <2>1, <2>4 DEF Taken, SetState
    <3> QED
      BY <2>4, <3>1, <3>2 DEF FrozenOK, InFlight
  <2> QED
    BY <2>2, <2>3, <2>4
<1>4. CASE Reserve(w)
  <2>1. CASE Allowed = 0 \/ Candidates = {}
    BY <1>4, <1>g, <2>1 DEF Reserve, Working
  <2>2. CASE ~(Allowed = 0 \/ Candidates = {})
    <3>1. PICK S \in kSubset(Smaller(Allowed, Cardinality(Candidates)), Candidates), c \in Batches :
            /\ batchStatus' = [batchStatus EXCEPT ![c] = "PREPARING"]
            /\ SetState(S, "SENDING")
            /\ sendBatch' = [r \in Recipients |-> IF r \in S THEN c ELSE sendBatch[r]]
            /\ y.pc = "checking" /\ y.batch = c /\ y.recips = S
      BY <1>4, <2>2, ReserveEffect DEF Gets
    <3>2. S \subseteq Recipients
      BY ReservationSize
    <3>3. batchStatus'[y.batch] = "PREPARING"
      BY <3>1 DEF RowsOK
    <3>4. \A r \in y.recips : sendState'[r] = "SENDING" /\ sendBatch'[r] = y.batch
      BY <3>1, <3>2 DEF SetState
    <3> QED
      BY <3>1, <3>3, <3>4 DEF FrozenOK, InFlight
  <2> QED
    BY <2>1, <2>2
<1>5. CASE CheckSuppression(w)
  <2>1. /\ x.pc = "checking" /\ UNCHANGED <<sendState, sendBatch, batchStatus>>
        /\ y.pc \in {"preparing", "blocking"} /\ y.batch = x.batch /\ y.recips = x.recips
        /\ y.hit = SuppressedNow(w)
    BY <1>5, CheckEffect DEF Gets, CheckSuppression, db
  <2> QED
    BY <2>1 DEF FrozenOK, SuppressedNow, Working, InFlight
<1>6. CASE Block(w)
  <2>1. x.pc = "blocking" /\ SetState(x.hit, "SUPPRESSED")
    BY <1>6 DEF Block
  <2>2. CASE Return(w)
    BY <1>r, <2>2
  <2>3. CASE ~Return(w)
    <3>1. /\ y.pc = "preparing" /\ y.batch = x.batch /\ y.recips = x.recips \ x.hit
      BY <1>6, <2>3, BlockEffect DEF Gets
    <3>2. /\ sendBatch' = [r \in Recipients |-> IF r \in x.hit THEN None ELSE sendBatch[r]]
          /\ batchStatus' = batchStatus
      BY <1>6, <2>3 DEF Block
    <3>3. \A r \in y.recips : r \in Recipients /\ r \notin x.hit /\ r \in x.recips
      BY <1>0, <3>1 DEF RunType
    <3>4. \A r \in y.recips : sendState'[r] = "SENDING" /\ sendBatch'[r] = y.batch
      BY <2>1, <3>1, <3>2, <3>3 DEF SetState, FrozenOK, Working
    <3>5. batchStatus'[y.batch] = "PREPARING"
      BY <2>1, <3>1, <3>2 DEF FrozenOK, Working, InFlight
    <3> QED
      BY <3>1, <3>4, <3>5 DEF FrozenOK, InFlight
  <2> QED
    BY <2>2, <2>3
<1>7. CASE PrepareAttempt(w)
  <2>1. CASE Return(w)
    BY <1>r, <2>1
  <2>2. CASE ~Return(w)
    <3>1. /\ x.pc = "preparing" /\ Goto(w, "submitting") /\ UNCHANGED <<sendState, sendBatch>>
          /\ batchStatus' = [batchStatus EXCEPT ![x.batch] = "SUBMITTING"]
      BY <1>7, <2>2 DEF PrepareAttempt
    <3>2. y.pc = "submitting" /\ y.batch = x.batch /\ y.recips = x.recips
      BY <3>1, GotoEffect DEF Gets
    <3>3. batchStatus'[y.batch] = "SUBMITTING"
      BY <1>0, <3>1, <3>2 DEF RowsOK, Working
    <3> QED
      BY <3>1, <3>2, <3>3 DEF FrozenOK, Working, InFlight
  <2> QED
    BY <2>1, <2>2
<1>8. CASE SubmitAnswered(w) \/ \E e \in ProviderErrors : SubmitThrows(w, e)
  <2>1. /\ x.pc = "submitting" /\ UNCHANGED <<sendState, sendBatch, batchStatus>>
    BY <1>8 DEF SubmitAnswered, SubmitThrows, db
  <2>2. /\ y.pc \in {"finishing", "failing"} /\ y.batch = x.batch /\ y.recips = x.recips
        /\ y.pc = "finishing" => y.hit \subseteq x.recips
    BY <1>8, AnsweredEffect, ThrowsEffect DEF Gets
  <2> QED
    BY <2>1, <2>2 DEF FrozenOK, Working, InFlight
<1>9. CASE Finish(w) \/ FailBatch(w) \/ CheckViolated(w) \/ ScheduleRetry(w)
  BY <1>9, <1>g, <1>i, <1>r DEF Finish, FailBatch, CheckViolated, ScheduleRetry, Working
<1>10. CASE FinishThrows(w)
  <2>1. x.pc = "finishing" /\ Misread(w) /\ UNCHANGED <<sendState, sendBatch, batchStatus>>
    BY <1>10 DEF FinishThrows, db
  <2>2. y.pc = "failing" /\ y.batch = x.batch /\ y.recips = x.recips
    BY <2>1, MisreadEffect DEF Gets
  <2> QED
    BY <2>1, <2>2 DEF FrozenOK, Working, InFlight
<1>11. ~StatsThrow(w)
  BY DEF StatsThrow, Event, Calm
<1>12. CASE ScheduleNext(w) \/ CountRemaining(w) \/ CompleteCampaign(w)
  BY <1>12, <1>g, <1>i DEF ScheduleNext, CountRemaining, CompleteCampaign, Working
<1> QED
  BY <1>1, <1>2, <1>3, <1>4, <1>5, <1>6, <1>7, <1>8, <1>9, <1>10, <1>11, <1>12 DEF Work

\* A worker whose batch is kept stays as it is.
LEMMA KeptStaysFrozen ==
  ASSUME RunOK, NEW v \in Workers, FrozenOK(run[v]), run'[v] = run[v],
         run[v].pc \in Working => BatchKept(run[v].batch)
  PROVE  FrozenOK(run[v])'
<1>1. run[v].recips \subseteq Recipients
  BY DEF RunOK, RunType
<1>2. CASE run[v].pc \in Working
  BY <1>1, <1>2 DEF FrozenOK, BatchKept, Movable
<1>3. CASE run[v].pc \notin Working
  BY <1>3 DEF FrozenOK, Working
<1> QED
  BY <1>2, <1>3

LEMMA StepFrozen ==
  ASSUME Calm
  PROVE  TypeInv /\ OneHolder /\ Frozen /\ [Next]_vars => Frozen'
<1> SUFFICES ASSUME TypeInv, OneHolder, Frozen, [Next]_vars, NEW v \in Workers PROVE FrozenOK(run[v])'
  BY DEF Frozen
<1>0. RunOK /\ RowsOK /\ FrozenOK(run[v]) /\ (run[v].pc \in Working => run[v].batch \in Batches)
  BY DEF TypeInv, Frozen, RunOK, LocalState, LocalOK, Working, WithBatch
<1>1. CASE UNCHANGED vars
  BY <1>0, <1>1 DEF vars, db, FrozenOK
<1>2. CASE Environment
  <2>1. CASE run'[v] = Idle
    BY <2>1 DEF Idle, FrozenOK, Working
  <2>2. CASE run'[v] = run[v]
    <3>1. ASSUME run[v].pc \in Working PROVE BatchKept(run[v].batch)
      BY <1>0, <1>2, <3>1, EnvironmentKeepsBatch DEF FrozenOK
    <3> QED
      BY <1>0, <2>2, <3>1, KeptStaysFrozen
  <2> QED
    BY <1>0, <1>2, <2>1, <2>2, EnvironmentKeeps DEF Calm
<1>3. CASE Work(v)
  BY <1>0, <1>3, WorkFreezes
<1>4. ASSUME NEW w \in Workers, Work(w), w # v PROVE FrozenOK(run[v])'
  <2>1. run'[v] = run[v]
    BY <1>0, <1>4, OthersKeep
  <2>2. ASSUME run[v].pc \in Working PROVE BatchKept(run[v].batch)
    <3>1. Holds(run[v], run[v].batch)
      BY <2>2 DEF Holds, Holding, Working
    <3>2. ~Holds(run[w], run[v].batch) /\ batchStatus[run[v].batch] # "ABSENT"
      BY <1>0, <1>4, <2>2, <3>1 DEF OneHolder, HeldOnce
    <3> QED
      BY <1>0, <1>4, <2>2, <3>2, WorkKeepsBatch DEF Frozen
  <2> QED
    BY <1>0, <2>1, <2>2, KeptStaysFrozen
<1> QED
  BY <1>1, <1>2, <1>3, <1>4 DEF Next

LEMMA FrozenInvariant ==
  ASSUME Calm
  PROVE  Spec => []Frozen
<1>1. Init => Frozen
  BY DEF Init, Idle, Frozen, FrozenOK, Working
<1> QED
  BY <1>1, StepFrozen, HolderInvariant, TypeInvariant, PTL DEF Spec, Calm

\* While a worker is at the provider, nothing re-reserves, cancels, revives
\* or moves the recipients in its hands, whichever commands, suppressions,
\* provider errors and deaths of workers come in between.
THEOREM FlightFrozen ==
  ASSUME Calm
  PROVE  Spec => []InFlightFrozen
<1>1. Frozen => InFlightFrozen
  BY DEF Frozen, FrozenOK, InFlightFrozen, InFlight, Working
<1> QED
  BY <1>1, FrozenInvariant, PTL

-----------------------------------------------------------------------------
(* The day's usage row. *)

\* Sizes of sets of recipients.
LEMMA Sizes ==
  ASSUME NEW A \in SUBSET Recipients, NEW B \in SUBSET Recipients, NEW C \in SUBSET Recipients
  PROVE  /\ A \subseteq B => Cardinality(A) <= Cardinality(B)
         /\ A \subseteq B \cup C => Cardinality(A) <= Cardinality(B) + Cardinality(C)
         /\ A \subseteq B /\ C \subseteq B \ A => Cardinality(A) + Cardinality(C) <= Cardinality(B)
<1>0. /\ IsFiniteSet(A) /\ IsFiniteSet(B) /\ IsFiniteSet(C)
      /\ Cardinality(A) \in Nat /\ Cardinality(B) \in Nat /\ Cardinality(C) \in Nat
  BY RecipientsFinite
<1>1. ASSUME A \subseteq B PROVE Cardinality(A) <= Cardinality(B)
  BY <1>0, <1>1, FS_Subset
<1>2. ASSUME A \subseteq B \cup C PROVE Cardinality(A) <= Cardinality(B) + Cardinality(C)
  <2>1. /\ IsFiniteSet(B \cup C)
        /\ Cardinality(B \cup C) = Cardinality(B) + Cardinality(C) - Cardinality(B \cap C)
    BY <1>0, FS_Union
  <2>2. Cardinality(B \cap C) \in Nat
    BY <1>0, FS_Intersection, FS_CardinalityType
  <2>3. Cardinality(A) <= Cardinality(B \cup C)
    BY <1>2, <2>1, FS_Subset
  <2> QED
    BY <1>0, <2>1, <2>2, <2>3
<1>3. ASSUME A \subseteq B, C \subseteq B \ A PROVE Cardinality(A) + Cardinality(C) <= Cardinality(B)
  <2>1. IsFiniteSet(B \ A) /\ Cardinality(B \ A) = Cardinality(B) - Cardinality(B \cap A)
    BY <1>0, FS_Difference
  <2>2. B \cap A = A
    BY <1>3
  <2>3. Cardinality(C) <= Cardinality(B \ A)
    BY <1>3, <2>1, FS_Subset
  <2>4. Cardinality(B \ A) = Cardinality(B) - Cardinality(A)
    BY <2>1, <2>2, Zenon
  <2> QED
    BY <1>0, <2>3, <2>4
<1> QED
  BY <1>1, <1>2, <1>3

\* Some recipients give their part of the limit back.
GaveBack(S) ==
  /\ usage.reserved >= Cardinality(S)
  /\ usage'.reserved = usage.reserved - Cardinality(S) /\ usage'.accepted = usage.accepted

LEMMA BlockUsage ==
  ASSUME RunOK, RowsOK, NEW w \in Workers, Block(w)
  PROVE  GaveBack(run[w].hit)
<1> DEFINE k == Cardinality(run[w].hit)
<1>1. k \in Nat /\ usage.reserved >= k /\ usage' = [usage EXCEPT !.reserved = @ - k, !.released = @ + k]
  BY RecipientsFinite DEF Block, RunOK, RunType
<1> HIDE DEF k
<1>2. usage'.reserved = usage.reserved - k /\ usage'.accepted = usage.accepted
  BY <1>1, UsageGivenBack DEF RowsOK
<1> QED
  BY <1>1, <1>2 DEF GaveBack, k

LEMMA FailUsage ==
  ASSUME RunOK, RowsOK, NEW w \in Workers, FailBatch(w)
  PROVE  \/ usage' = usage /\ \E s \in {"TEMPORARY_FAILED", "MANUAL_REVIEW"} :
                                 batchStatus' = [batchStatus EXCEPT ![run[w].batch] = s]
         \/ /\ GaveBack(run[w].recips)
            /\ batchStatus' = [batchStatus EXCEPT ![run[w].batch] = "PERMANENT_FAILED"]
<1> DEFINE n == Cardinality(run[w].recips)
           status == IF Retryable(w) THEN "TEMPORARY_FAILED"
                     ELSE IF run[w].failure = "uncertain" THEN "MANUAL_REVIEW" ELSE "PERMANENT_FAILED"
<1>1. /\ n \in Nat
      /\ status = "PERMANENT_FAILED" => usage.reserved >= n
      /\ batchStatus' = [batchStatus EXCEPT ![run[w].batch] = status]
      /\ usage' = IF status = "PERMANENT_FAILED" THEN [usage EXCEPT !.reserved = @ - n, !.released = @ + n]
                  ELSE usage
  BY RecipientsFinite DEF FailBatch, RunOK, RunType
<1>2. status \in {"TEMPORARY_FAILED", "MANUAL_REVIEW", "PERMANENT_FAILED"}
  OBVIOUS
<1> HIDE DEF n, status
<1>3. CASE status = "PERMANENT_FAILED"
  <2>1. usage'.reserved = usage.reserved - n /\ usage'.accepted = usage.accepted
    BY <1>1, <1>3, UsageGivenBack DEF RowsOK
  <2> QED
    BY <1>1, <1>3, <2>1 DEF GaveBack, n
<1>4. CASE status # "PERMANENT_FAILED"
  BY <1>1, <1>2, <1>4
<1> QED
  BY <1>3, <1>4

LEMMA CommitUsage ==
  ASSUME RunOK, RowsOK, NEW w \in Workers, CommitResult(w)
  PROVE  /\ usage.reserved >= Cardinality(run[w].recips)
         /\ usage'.reserved = usage.reserved - Cardinality(run[w].recips)
         /\ usage'.accepted = usage.accepted + Cardinality(run[w].hit)
  BY DEF CommitResult, AcceptedItems

\* Whoever waits for the retry of a batch that is cancelled.
Retrying(B) == {r \in InState({"TEMPORARY_FAILED"}) : sendBatch[r] \in B}

LEMMA CancelUsage ==
  ASSUME RowsOK, Cancel
  PROVE  \E covered \in SUBSET {b \in Batches : batchStatus[b] = "TEMPORARY_FAILED"} :
           GaveBack(Retrying(covered))
<1>1. PICK covered \in SUBSET {b \in Batches : batchStatus[b] = "TEMPORARY_FAILED"} :
        /\ usage.reserved >= Cardinality(Retrying(covered))
        /\ usage' = [usage EXCEPT !.reserved = @ - Cardinality(Retrying(covered)),
                                  !.released = @ + Cardinality(Retrying(covered))]
  BY DEF Cancel, Retrying
<1> DEFINE k == Cardinality(Retrying(covered))
<1>2. k \in Nat
  BY RecipientsFinite DEF Retrying, InState
<1> HIDE DEF k
<1>3. usage'.reserved = usage.reserved - k /\ usage'.accepted = usage.accepted
  BY <1>1, <1>2, UsageGivenBack DEF RowsOK, k
<1> QED
  BY <1>1, <1>3 DEF GaveBack, k

\* Beside cancel, no environment event touches the usage row or a batch.
LEMMA EnvironmentUsage ==
  ASSUME Environment, ~Cancel
  PROVE  UNCHANGED <<usage, batchStatus, sendBatch>>
  BY DEF Environment, Pause, Resume, GuardTrips, Suppress, CloseGate, OpenGate, SlotFrees,
     KeyExpires, Abort, LoseLease, db

LEMMA ReserveUsage ==
  ASSUME RowsOK, NEW S \in kSubset(Smaller(Allowed, Cardinality(Candidates)), Candidates),
         usage' = [usage EXCEPT !.reserved = @ + Cardinality(S)]
  PROVE  /\ usage'.reserved = usage.reserved + Cardinality(S) /\ usage'.accepted = usage.accepted
         /\ S \subseteq Recipients /\ Cardinality(S) \in Nat
  BY ReservationSize, UsageTaken DEF RowsOK

\* A worker that goes through its result was told about its own recipients.
AnswersWithin == \A w \in Workers : run[w].pc = "finishing" => run[w].hit \subseteq run[w].recips

LEMMA StepAnswersWithin == TypeInv /\ AnswersWithin /\ [Next]_vars => AnswersWithin'
<1> SUFFICES ASSUME TypeInv, AnswersWithin, [Next]_vars, NEW v \in Workers, run'[v].pc = "finishing"
             PROVE  run'[v].hit \subseteq run'[v].recips
  BY DEF AnswersWithin
<1>0. RunOK /\ RowsOK
  BY DEF TypeInv
<1>1. CASE run'[v] = run[v]
  BY <1>1 DEF AnswersWithin
<1>2. CASE UNCHANGED vars
  BY <1>1, <1>2 DEF vars
<1>3. CASE Environment
  <2>1. run'[v] # Idle
    BY DEF Idle
  <2> QED
    BY <1>0, <1>1, <1>3, <2>1, EnvironmentKeeps DEF LeaseLost, Gets, AnswersWithin
<1>4. ASSUME NEW w \in Workers, Work(w), w # v PROVE run'[v] = run[v]
  BY <1>0, <1>4, OthersKeep
<1>5. CASE Work(v)
  BY <1>0, <1>5, EntersFinishing, AnsweredEffect DEF Gets
<1> QED
  BY <1>1, <1>2, <1>3, <1>4, <1>5 DEF Next

\* The second half of DailyLimitHolds: what is reserved and what was accepted
\* stay within the sender's limit of the day.
WithinLimit == Limit # None => usage.accepted + usage.reserved <= Limit

LEMMA StepWithinLimit == TypeInv /\ AnswersWithin /\ WithinLimit /\ [Next]_vars => WithinLimit'
<1> SUFFICES ASSUME TypeInv, AnswersWithin, WithinLimit, [Next]_vars, Limit # None
             PROVE  usage'.accepted + usage'.reserved <= Limit
  BY DEF WithinLimit
<1>0. /\ RunOK /\ RowsOK /\ usage.accepted \in Nat /\ usage.reserved \in Nat /\ Limit \in Nat
      /\ usage.accepted + usage.reserved <= Limit
  BY DeliveryAssumption DEF TypeInv, RowsOK, UsageType, WithinLimit
<1>a. ASSUME usage' = usage PROVE usage'.accepted + usage'.reserved <= Limit
  BY <1>0, <1>a
<1>b. ASSUME NEW S \in SUBSET Recipients, GaveBack(S) PROVE usage'.accepted + usage'.reserved <= Limit
  BY <1>0, <1>b, RecipientsFinite DEF GaveBack
<1>1. CASE UNCHANGED vars
  BY <1>1, <1>a DEF vars, db
<1>2. CASE Environment
  <2>1. CASE Cancel
    BY <1>0, <1>b, <2>1, CancelUsage DEF Retrying, InState
  <2> QED
    BY <1>2, <1>a, <2>1, EnvironmentUsage
<1>3. ASSUME NEW w \in Workers, Work(w) PROVE usage'.accepted + usage'.reserved <= Limit
  <2>0. run[w].recips \in SUBSET Recipients /\ run[w].hit \in SUBSET Recipients
    BY <1>0 DEF RunOK, RunType
  <2>1. CASE ClaimReservedBatch(w) \/ SuppressPending(w) \/ PrepareAttempt(w)
    BY <1>a, <2>1 DEF ClaimReservedBatch, SuppressPending, PrepareAttempt
  <2>2. CASE Reserve(w)
    <3>1. CASE Allowed = 0 \/ Candidates = {}
      BY <1>a, <2>2, <3>1 DEF Reserve
    <3>2. CASE ~(Allowed = 0 \/ Candidates = {})
      <4>1. PICK S \in kSubset(Smaller(Allowed, Cardinality(Candidates)), Candidates) :
              usage' = [usage EXCEPT !.reserved = @ + Cardinality(S)]
        BY <1>0, <2>2, <3>2, ReserveEffect
      <4>2. Cardinality(S) \in Nat /\ Cardinality(S) <= Allowed
        BY <1>0, ReservationSize
      <4>3. Allowed <= Limit - (usage.accepted + usage.reserved)
        BY <1>0, <3>2, DeliveryAssumption DEF Allowed, Smaller
      <4>4. usage'.reserved = usage.reserved + Cardinality(S) /\ usage'.accepted = usage.accepted
        BY <1>0, <4>1, ReserveUsage
      <4>5. Allowed \in Nat
        BY <1>0, ReservationSize
      <4> HIDE DEF Allowed
      <4> QED
        BY <1>0, <4>2, <4>3, <4>4, <4>5
    <3> QED
      BY <3>1, <3>2
  <2>3. CASE Block(w)
    BY <1>0, <1>b, <2>0, <2>3, BlockUsage
  <2>4. CASE FailBatch(w)
    BY <1>0, <1>a, <1>b, <2>0, <2>4, FailUsage
  <2>5. CASE CommitResult(w)
    <3>1. run[w].hit \subseteq run[w].recips
      BY <2>5 DEF CommitResult, At, AnswersWithin
    <3>2. /\ Cardinality(run[w].hit) <= Cardinality(run[w].recips)
          /\ Cardinality(run[w].hit) \in Nat /\ Cardinality(run[w].recips) \in Nat
      BY <2>0, <3>1, Sizes, RecipientsFinite
    <3> QED
      BY <1>0, <2>5, <3>2, CommitUsage
  <2> QED
    BY <1>3, <1>a, <2>1, <2>2, <2>3, <2>4, <2>5, WritersOfRows
<1> QED
  BY <1>1, <1>2, <1>3 DEF Next

\* Whatever fails and whoever loses its lease, what is reserved and what was
\* accepted never pass the sender's limit of the day.
THEOREM LimitRespected == Spec => []WithinLimit
<1>1. Init => AnswersWithin /\ WithinLimit
  <2> SUFFICES ASSUME Init PROVE AnswersWithin /\ WithinLimit
    OBVIOUS
  <2>1. AnswersWithin
    BY DEF Init, Idle, AnswersWithin
  <2>2. WithinLimit
    BY DeliveryAssumption DEF Init, WithinLimit
  <2> QED
    BY <2>1, <2>2
<1> QED
  BY <1>1, StepAnswersWithin, StepWithinLimit, TypeInvariant, PTL DEF Spec

-----------------------------------------------------------------------------
(* What the usage row covers. *)

AcceptedRecipients == InState({"ACCEPTED"})
\* Every accepted recipient is counted.
Counted == Cardinality(AcceptedRecipients) <= usage.accepted

LEMMA StepCounted == TypeInv /\ Counted /\ [Next]_vars => Counted'
<1> SUFFICES ASSUME TypeInv, Counted, [Next]_vars PROVE Counted'
  OBVIOUS
<1> DEFINE A == AcceptedRecipients
<1>0. /\ RunOK /\ RowsOK /\ usage.accepted \in Nat /\ Cardinality(A) <= usage.accepted
      /\ A \in SUBSET Recipients /\ A' \in SUBSET Recipients
      /\ Cardinality(A) \in Nat /\ Cardinality(A') \in Nat
  <2>1. A \in SUBSET Recipients /\ A' \in SUBSET Recipients
    BY DEF AcceptedRecipients, InState
  <2>2. Cardinality(A) \in Nat /\ Cardinality(A') \in Nat
    BY <2>1, RecipientsFinite
  <2> HIDE DEF A
  <2> QED
    BY <2>1, <2>2 DEF TypeInv, RowsOK, UsageType, Counted, A
<1>a. ASSUME A' \subseteq A, usage'.accepted = usage.accepted PROVE Counted'
  <2>1. Cardinality(A') <= Cardinality(A)
    BY <1>0, <1>a, Sizes
  <2> HIDE DEF A
  <2>2. Cardinality(A') <= usage'.accepted
    BY <1>0, <1>a, <2>1
  <2> QED
    BY <2>2 DEF Counted, A
<1>b. ASSUME \A r \in Recipients : sendState'[r] = "ACCEPTED" => sendState[r] = "ACCEPTED"
      PROVE  A' \subseteq A
  BY <1>b DEF AcceptedRecipients, InState
<1>1. CASE UNCHANGED vars
  BY <1>1, <1>a, <1>b DEF vars, db
<1>2. ASSUME NEW w \in Workers, Work(w), ~CommitResult(w) PROVE A' \subseteq A
  <2>1. ASSUME NEW r \in Recipients, sendState'[r] = "ACCEPTED", sendState[r] # "ACCEPTED" PROVE FALSE
    <3>1. ~ClaimReservedBatch(w)
      BY <1>0, <2>1, ClaimReservedEffect DEF SetState
    <3>2. ~Reserve(w)
      <4>1. CASE Allowed = 0 \/ Candidates = {}
        BY <2>1, <4>1 DEF Reserve
      <4>2. CASE ~(Allowed = 0 \/ Candidates = {})
        BY <1>0, <2>1, <4>2, ReserveEffect DEF SetState
      <4> QED
        BY <4>1, <4>2
    <3>3. ~SuppressPending(w) /\ ~Block(w) /\ ~FailBatch(w) /\ ~PrepareAttempt(w)
      BY <2>1 DEF SuppressPending, Block, FailBatch, PrepareAttempt, SetState
    <3> QED
      BY <1>2, <2>1, <3>1, <3>2, <3>3, WritersOfRows
  <2> QED
    BY <1>b, <2>1
<1>3. CASE Environment
  <2>1. usage'.accepted = usage.accepted
    BY <1>0, <1>3, CancelUsage, EnvironmentUsage DEF GaveBack
  <2>2. ASSUME NEW r \in Recipients, sendState'[r] = "ACCEPTED" PROVE sendState[r] = "ACCEPTED"
    BY <1>3, <2>2 DEF Environment, Pause, Resume, Cancel, GuardTrips, Suppress, CloseGate, OpenGate,
       SlotFrees, KeyExpires, Abort, LoseLease, db, SetState
  <2> QED
    BY <1>a, <1>b, <2>1, <2>2
<1>4. ASSUME NEW w \in Workers, Work(w), CommitResult(w) PROVE Counted'
  <2> DEFINE H == run[w].hit
  <2>1. H \in SUBSET Recipients /\ Cardinality(H) \in Nat
    BY <1>0, RecipientsFinite DEF RunOK, RunType
  <2>2. A' \subseteq A \cup H
    BY <1>4 DEF CommitResult, AcceptedItems, AcceptedRecipients, InState
  <2>3. usage'.accepted = usage.accepted + Cardinality(H)
    BY <1>0, <1>4, CommitUsage
  <2>4. Cardinality(A') <= Cardinality(A) + Cardinality(H)
    BY <1>0, <2>1, <2>2, Sizes
  <2> HIDE DEF A, H
  <2>5. Cardinality(A') <= usage'.accepted
    BY <1>0, <2>1, <2>3, <2>4
  <2> QED
    BY <2>5 DEF Counted, A
<1>5. ASSUME NEW w \in Workers, Work(w), ~CommitResult(w) PROVE usage'.accepted = usage.accepted
  <2>1. CASE ClaimReservedBatch(w) \/ SuppressPending(w) \/ PrepareAttempt(w)
    BY <2>1 DEF ClaimReservedBatch, SuppressPending, PrepareAttempt
  <2>2. CASE Reserve(w)
    <3>1. CASE Allowed = 0 \/ Candidates = {}
      BY <2>2, <3>1 DEF Reserve
    <3>2. CASE ~(Allowed = 0 \/ Candidates = {})
      BY <1>0, <2>2, <3>2, ReserveEffect, ReserveUsage
    <3> QED
      BY <3>1, <3>2
  <2>3. CASE Block(w) \/ FailBatch(w)
    BY <1>0, <2>3, BlockUsage, FailUsage DEF GaveBack
  <2> QED
    BY <1>5, <2>1, <2>2, <2>3, WritersOfRows
<1> QED
  BY <1>1, <1>2, <1>3, <1>4, <1>5, <1>a DEF Next

LEMMA CountedInvariant == Spec => []Counted
<1>1. Init => Counted
  <2> SUFFICES ASSUME Init PROVE Counted
    OBVIOUS
  <2>1. AcceptedRecipients = {} /\ usage.accepted = 0
    BY DEF Init, AcceptedRecipients, InState
  <2> QED
    BY <2>1, FS_EmptySet DEF Counted
<1> QED
  BY <1>1, StepCounted, TypeInvariant, PTL DEF Spec

\* Every recipient whose batch is not over has its part of the limit.
Open == {"PREPARING", "SUBMITTING", "TEMPORARY_FAILED", "MANUAL_REVIEW"}
Claimed == {r \in Recipients : sendBatch[r] # None /\ batchStatus[sendBatch[r]] \in Open}
Covered == Cardinality(Claimed) <= usage.reserved
\* A recipient's batch has been given out.
NoGhosts == \A r \in Recipients : sendBatch[r] # None => batchStatus[sendBatch[r]] # "ABSENT"

\* Every worker's recipients are among the claimed.
LEMMA InHandsClaimed ==
  ASSUME RunOK, Frozen, NEW w \in Workers, run[w].pc \in Working
  PROVE  run[w].recips \subseteq Claimed
<1>1. run[w].recips \subseteq Recipients /\ run[w].batch \in Batches /\ None \notin Batches
  BY DeliveryAssumption DEF RunOK, RunType, LocalState, LocalOK, Working, WithBatch
<1>2. /\ \A r \in run[w].recips : sendBatch[r] = run[w].batch
      /\ batchStatus[run[w].batch] \in Open
  BY DEF Frozen, FrozenOK, Open
<1> QED
  BY <1>1, <1>2 DEF Claimed

LEMMA StepNoGhosts == TypeInv /\ NoGhosts /\ [Next]_vars => NoGhosts'
<1> SUFFICES ASSUME TypeInv, NoGhosts, [Next]_vars, NEW r \in Recipients, sendBatch'[r] # None
             PROVE  batchStatus'[sendBatch'[r]] # "ABSENT"
  BY DEF NoGhosts
<1>0. RunOK /\ RowsOK /\ sendBatch[r] \in Batches \cup {None}
  BY DEF TypeInv, RowsOK
<1>1. CASE UNCHANGED vars
  BY <1>1 DEF vars, db, NoGhosts
<1>2. CASE Next /\ sendBatch'[r] = sendBatch[r]
  BY <1>0, <1>2, NeverAbsentAgain DEF NoGhosts
<1>3. CASE Next /\ sendBatch'[r] # sendBatch[r]
  <2>1. PICK w \in Workers : Work(w)
    BY <1>3 DEF Next, Environment, Pause, Resume, Cancel, GuardTrips, Suppress, CloseGate, OpenGate, SlotFrees,
       KeyExpires, Abort, LoseLease, db
  <2>2. Reserve(w) \/ Block(w)
    BY <1>3, <2>1, WritersOfRows DEF ClaimReservedBatch, SuppressPending, PrepareAttempt, CommitResult, FailBatch
  <2>3. ~Block(w)
    BY <1>3 DEF Block
  <2>4. ~(Allowed = 0 \/ Candidates = {})
    BY <1>3, <2>2, <2>3 DEF Reserve
  <2>5. PICK S \in kSubset(Smaller(Allowed, Cardinality(Candidates)), Candidates), c \in Batches :
          /\ batchStatus' = [batchStatus EXCEPT ![c] = "PREPARING"]
          /\ sendBatch' = [s \in Recipients |-> IF s \in S THEN c ELSE sendBatch[s]]
    BY <1>0, <2>2, <2>3, <2>4, ReserveEffect
  <2> QED
    BY <1>0, <1>3, <2>5 DEF RowsOK
<1> QED
  BY <1>1, <1>2, <1>3

LEMMA StepCovered == TypeInv /\ Frozen /\ NoGhosts /\ Covered /\ [Next]_vars => Covered'
<1> SUFFICES ASSUME TypeInv, Frozen, NoGhosts, Covered, [Next]_vars PROVE Covered'
  OBVIOUS
<1> USE DEF At
<1>0. /\ RunOK /\ RowsOK /\ None \notin Batches
      /\ usage.reserved \in Nat /\ Cardinality(Claimed) <= usage.reserved
      /\ Claimed \in SUBSET Recipients /\ Claimed' \in SUBSET Recipients
      /\ Cardinality(Claimed) \in Nat /\ Cardinality(Claimed') \in Nat
  <2>1. Claimed \in SUBSET Recipients /\ Claimed' \in SUBSET Recipients
    BY DEF Claimed
  <2>2. Cardinality(Claimed) \in Nat /\ Cardinality(Claimed') \in Nat
    BY <2>1, RecipientsFinite
  <2> HIDE DEF Claimed
  <2> QED
    BY <2>1, <2>2, DeliveryAssumption DEF TypeInv, RowsOK, UsageType, Covered
<1>a. ASSUME Claimed' \subseteq Claimed, usage'.reserved = usage.reserved PROVE Covered'
  <2>1. Cardinality(Claimed') <= Cardinality(Claimed)
    BY <1>0, <1>a, Sizes
  <2> QED
    BY <1>0, <1>a, <2>1 DEF Covered
<1>b. ASSUME NEW S \in SUBSET Claimed, Claimed' \subseteq Claimed \ S, usage.reserved >= Cardinality(S),
             usage'.reserved = usage.reserved - Cardinality(S)
      PROVE  Covered'
  <2>1. S \in SUBSET Recipients /\ Cardinality(S) \in Nat
    BY <1>0, RecipientsFinite
  <2>2. Cardinality(Claimed') + Cardinality(S) <= Cardinality(Claimed)
    BY <1>0, <1>b, <2>1, Sizes
  <2> QED
    BY <1>0, <1>b, <2>1, <2>2 DEF Covered
<1>1. CASE UNCHANGED vars
  BY <1>1, <1>a DEF vars, db, Claimed
<1>2. CASE Environment
  <2>1. CASE Cancel
    <3>1. PICK covered \in SUBSET {b \in Batches : batchStatus[b] = "TEMPORARY_FAILED"} :
            GaveBack(Retrying(covered))
      BY <1>0, <2>1, CancelUsage
    <3>2. /\ sendBatch' = sendBatch
          /\ \A b \in Batches : batchStatus'[b] = IF batchStatus[b] = "TEMPORARY_FAILED" THEN "PERMANENT_FAILED"
                                                  ELSE batchStatus[b]
      BY <1>0, <2>1 DEF Cancel, RowsOK
    <3>3. \A r \in Recipients : sendBatch[r] # None => sendBatch[r] \in Batches
      BY <1>0 DEF RowsOK
    <3>4. Retrying(covered) \subseteq Claimed
      BY <1>0, <3>1 DEF Retrying, InState, Claimed, Open
    <3>5. Claimed' \subseteq Claimed \ Retrying(covered)
      BY <3>1, <3>2, <3>3 DEF Retrying, InState, Claimed, Open
    <3> QED
      BY <1>b, <3>1, <3>4, <3>5 DEF GaveBack
  <2>2. CASE ~Cancel
    BY <1>2, <1>a, <2>2, EnvironmentUsage DEF Claimed
  <2> QED
    BY <2>1, <2>2
<1>3. ASSUME NEW w \in Workers, Work(w) PROVE Covered'
  <2> DEFINE x == run[w]
  <2>0. /\ x.pc \in Working => x.recips \subseteq Claimed /\ x.batch \in Batches
        /\ x.pc \in {"blocking", "finishing"} => x.hit \subseteq x.recips
        /\ \A r \in Recipients : sendBatch[r] # None => sendBatch[r] \in Batches
    BY <1>0, InHandsClaimed DEF Frozen, FrozenOK, RunOK, LocalState, LocalOK, Working, WithBatch, RowsOK
  <2>1. CASE UNCHANGED <<sendState, sendBatch, batchStatus, usage>>
    BY <1>a, <2>1 DEF Claimed
  <2>2. CASE ClaimReservedBatch(w)
    <3>1. sendBatch' = sendBatch /\ usage' = usage
      BY <2>2 DEF ClaimReservedBatch
    <3>2. \A b \in Batches : batchStatus'[b] \in Open => batchStatus[b] \in Open
      BY <1>0, <2>2, ClaimReservedEffect DEF RowsOK, Open
    <3> QED
      BY <1>a, <2>0, <3>1, <3>2 DEF Claimed
  <2>3. CASE SuppressPending(w)
    BY <1>a, <2>3 DEF SuppressPending, Claimed
  <2>4. CASE Reserve(w)
    <3>1. CASE Allowed = 0 \/ Candidates = {}
      BY <1>a, <2>4, <3>1 DEF Reserve, Claimed
    <3>2. CASE ~(Allowed = 0 \/ Candidates = {})
      <4>1. PICK S \in kSubset(Smaller(Allowed, Cardinality(Candidates)), Candidates), b \in Batches :
              /\ batchStatus[b] = "ABSENT"
              /\ usage' = [usage EXCEPT !.reserved = @ + Cardinality(S)]
              /\ batchStatus' = [batchStatus EXCEPT ![b] = "PREPARING"]
              /\ sendBatch' = [r \in Recipients |-> IF r \in S THEN b ELSE sendBatch[r]]
        BY <1>0, <2>4, <3>2, ReserveEffect
      <4>2. usage'.reserved = usage.reserved + Cardinality(S) /\ S \in SUBSET Recipients /\ Cardinality(S) \in Nat
        BY <1>0, <4>1, ReserveUsage
      <4>3. Claimed' \subseteq Claimed \cup S
        <5>1. ASSUME NEW r \in Claimed', r \notin S PROVE r \in Claimed
          <6>1. r \in Recipients /\ sendBatch'[r] = sendBatch[r] /\ sendBatch[r] # None
                /\ batchStatus'[sendBatch[r]] \in Open
            BY <4>1, <5>1 DEF Claimed
          <6>2. sendBatch[r] # b /\ sendBatch[r] \in Batches
            BY <2>0, <4>1, <6>1 DEF NoGhosts
          <6>3. batchStatus'[sendBatch[r]] = batchStatus[sendBatch[r]]
            BY <1>0, <4>1, <6>2 DEF RowsOK
          <6> QED
            BY <6>1, <6>3 DEF Claimed
        <5> QED
          BY <5>1
      <4>4. Cardinality(Claimed') <= Cardinality(Claimed) + Cardinality(S)
        BY <1>0, <4>2, <4>3, Sizes
      <4> QED
        BY <1>0, <4>2, <4>4 DEF Covered
    <3> QED
      BY <3>1, <3>2
  <2>5. CASE Block(w)
    <3>1. GaveBack(x.hit)
      BY <1>0, <2>5, BlockUsage
    <3>2. x.hit \subseteq Claimed
      BY <2>0, <2>5 DEF Block, Working
    <3>3. Claimed' \subseteq Claimed \ x.hit
      <4>1. CASE x.recips \ x.hit = {}
        <5>1. sendBatch' = sendBatch /\ batchStatus' = [batchStatus EXCEPT ![x.batch] = "PERMANENT_FAILED"]
          BY <2>5, <4>1 DEF Block
        <5>2. \A r \in x.hit : sendBatch[r] = x.batch
          BY <2>0, <2>5 DEF Block, Frozen, FrozenOK, Working
        <5> QED
          BY <1>0, <2>0, <5>1, <5>2 DEF Claimed, Open, RowsOK
      <4>2. CASE x.recips \ x.hit # {}
        <5>1. /\ batchStatus' = batchStatus
              /\ sendBatch' = [r \in Recipients |-> IF r \in x.hit THEN None ELSE sendBatch[r]]
          BY <2>5, <4>2 DEF Block
        <5> QED
          BY <5>1 DEF Claimed
      <4> QED
        BY <4>1, <4>2
    <3> QED
      BY <1>b, <3>1, <3>2, <3>3 DEF GaveBack
  <2>6. CASE PrepareAttempt(w)
    <3>1. sendBatch' = sendBatch /\ usage' = usage
      BY <2>6 DEF PrepareAttempt
    <3>2. \A b \in Batches : batchStatus'[b] \in Open => batchStatus[b] \in Open
      BY <1>0, <2>0, <2>6 DEF PrepareAttempt, RowsOK, Open, Working
    <3> QED
      BY <1>a, <2>0, <3>1, <3>2 DEF Claimed
  <2>e. ASSUME NEW s, s \notin Open, batchStatus' = [batchStatus EXCEPT ![x.batch] = s], x.pc \in Working,
               sendBatch' = sendBatch
        PROVE  Claimed' \subseteq Claimed \ x.recips
    <3>1. \A r \in x.recips : sendBatch[r] = x.batch
      BY <2>e DEF Frozen, FrozenOK
    <3> QED
      BY <1>0, <2>0, <2>e, <3>1 DEF Claimed, RowsOK
  <2>7. CASE CommitResult(w)
    <3>1. x.pc \in Working /\ sendBatch' = sendBatch
      BY <2>7 DEF CommitResult, Working
    <3>2. PICK s \in {"ACCEPTED", "PERMANENT_FAILED", "PARTIAL"} : batchStatus' = [batchStatus EXCEPT ![x.batch] = s]
      BY <2>7 DEF CommitResult
    <3>3. Claimed' \subseteq Claimed \ x.recips
      BY <2>e, <3>1, <3>2 DEF Open
    <3> QED
      BY <1>0, <1>b, <2>0, <2>7, <3>1, <3>3, CommitUsage
  <2>8. CASE FailBatch(w)
    <3>1. x.pc \in Working /\ sendBatch' = sendBatch
      BY <2>8 DEF FailBatch, Working
    <3>2. CASE GaveBack(x.recips) /\ batchStatus' = [batchStatus EXCEPT ![x.batch] = "PERMANENT_FAILED"]
      <4>0. "PERMANENT_FAILED" \notin Open
        BY DEF Open
      <4>1. Claimed' \subseteq Claimed \ x.recips
        BY <2>e, <3>1, <3>2, <4>0
      <4> QED
        BY <1>b, <2>0, <3>1, <3>2, <4>1 DEF GaveBack
    <3>3. ASSUME NEW s \in {"TEMPORARY_FAILED", "MANUAL_REVIEW"}, usage' = usage,
                 batchStatus' = [batchStatus EXCEPT ![x.batch] = s]
          PROVE  Covered'
      <4>1. batchStatus[x.batch] \in Open
        BY <3>1 DEF Frozen, FrozenOK, Open
      <4>2. \A b \in Batches : batchStatus'[b] \in Open => batchStatus[b] \in Open
        BY <1>0, <3>3, <4>1 DEF RowsOK
      <4> QED
        BY <1>a, <2>0, <3>1, <3>3, <4>2 DEF Claimed
    <3> QED
      BY <1>0, <2>8, <3>2, <3>3, FailUsage
  <2> QED
    BY <1>3, <2>1, <2>2, <2>3, <2>4, <2>5, <2>6, <2>7, <2>8, WritersOfRows
<1> QED
  BY <1>1, <1>2, <1>3 DEF Next

LEMMA CoveredInvariant ==
  ASSUME Calm
  PROVE  Spec => []Covered
<1>1. Init => NoGhosts /\ Covered
  <2> SUFFICES ASSUME Init PROVE NoGhosts /\ Covered
    OBVIOUS
  <2>1. NoGhosts /\ Claimed = {} /\ usage.reserved = 0
    BY DEF Init, NoGhosts, Claimed
  <2> QED
    BY <2>1, FS_EmptySet DEF Covered
<1> QED
  BY <1>1, StepNoGhosts, StepCovered, FrozenInvariant, TypeInvariant, PTL DEF Spec

\* What the transactions that give reservations back are about to give back
\* is there: the CHECK on reserved_count fails none of them, and cancel
\* releases every batch that waits for a retry.
ReservationsThere ==
  /\ \A w \in Workers :
       /\ At(w, "blocking") => usage.reserved >= Cardinality(run[w].hit)
       /\ run[w].pc \in {"finishing", "failing"} => usage.reserved >= Cardinality(run[w].recips)
  /\ usage.reserved >= Cardinality(Retrying({b \in Batches : batchStatus[b] = "TEMPORARY_FAILED"}))

LEMMA CoveredIsThere ==
  ASSUME TypeInv, Frozen, Covered
  PROVE  ReservationsThere
<1>0. /\ RunOK /\ usage.reserved \in Nat /\ Cardinality(Claimed) <= usage.reserved
      /\ Claimed \in SUBSET Recipients /\ None \notin Batches
  BY DeliveryAssumption DEF TypeInv, RowsOK, UsageType, Covered, Claimed
<1>1. ASSUME NEW S \in SUBSET Claimed PROVE usage.reserved >= Cardinality(S)
  <2>1. S \in SUBSET Recipients /\ Cardinality(S) \in Nat /\ Cardinality(Claimed) \in Nat
    BY <1>0, RecipientsFinite
  <2>2. Cardinality(S) <= Cardinality(Claimed)
    BY <1>0, <2>1, Sizes
  <2> QED
    BY <1>0, <2>1, <2>2
<1>2. ASSUME NEW w \in Workers
      PROVE  /\ At(w, "blocking") => usage.reserved >= Cardinality(run[w].hit)
             /\ run[w].pc \in {"finishing", "failing"} => usage.reserved >= Cardinality(run[w].recips)
  <2>1. run[w].pc \in Working => run[w].recips \in SUBSET Claimed
    BY <1>0, InHandsClaimed
  <2>2. run[w].pc = "blocking" => run[w].hit \subseteq run[w].recips
    BY DEF Frozen, FrozenOK
  <2> QED
    BY <1>1, <2>1, <2>2 DEF At, Working
<1>3. Retrying({b \in Batches : batchStatus[b] = "TEMPORARY_FAILED"}) \in SUBSET Claimed
  BY <1>0 DEF Retrying, InState, Claimed, Open
<1> QED
  BY <1>1, <1>2, <1>3 DEF ReservationsThere

\* However reservations, blocks, refusals, retries, commands and deaths of
\* workers interleave, no transaction of a dispatch runs into the CHECK on
\* reserved_count, and no cancelled batch keeps its part of the limit.
THEOREM ReservationsCovered ==
  ASSUME Calm
  PROVE  Spec => []ReservationsThere
  BY CoveredIsThere, CoveredInvariant, FrozenInvariant, TypeInvariant, PTL

-----------------------------------------------------------------------------
(* Nobody is mailed twice. *)

\* What this needs beside: an error of the provider call means that nothing
\* went out, and an answer that arrived is committed.
Clean == Calm /\ Ambiguous = {} /\ "commit error" \notin Events

\* Whoever has been sent a message is in flight, or accepted.
Sent(r) ==
  /\ copies[r] = 1 /\ sendBatch[r] # None
  /\ \/ sendState[r] = "SENDING" /\ batchStatus[sendBatch[r]] = "SUBMITTING"
     \/ sendState[r] = "ACCEPTED" /\ batchStatus[sendBatch[r]] \in {"ACCEPTED", "PARTIAL"}
SentOnce == \A r \in Recipients : copies[r] = 0 \/ Sent(r)

\* Before the answer nobody in the batch has been sent a message; with the
\* answer at hand only those it names, and after a failure nobody.
UnsentOK(x) ==
  /\ x.pc \in {"submitting", "failing"} => \A r \in Recipients : sendBatch[r] = x.batch => copies[r] = 0
  /\ x.pc = "finishing" => \A r \in Recipients : sendBatch[r] = x.batch => copies[r] = 0 \/ r \in x.hit
Unsent == \A w \in Workers : UnsentOK(run[w])

\* A step sends to recipients in the hands of its worker only.
LEMMA WorkCopies ==
  ASSUME RunOK, OtherOK, NEW w \in Workers, Work(w), FrozenOK(run[w]), NEW r \in Recipients,
         copies'[r] # copies[r]
  PROVE  /\ run[w].pc = "submitting" /\ r \in run[w].recips /\ sendBatch[r] = run[w].batch
         /\ copies'[r] = copies[r] + 1
<1>1. /\ run[w].pc = "submitting"
      /\ \E A \in SUBSET run[w].recips : ProviderTakes(run[w].batch, run[w].recips, A)
  BY WorkMail DEF MailStep
<1>2. PICK A \in SUBSET run[w].recips : copies' = [s \in Recipients |-> IF s \in A THEN copies[s] + 1 ELSE copies[s]]
  BY <1>1 DEF ProviderTakes
<1>3. r \in run[w].recips /\ copies'[r] = copies[r] + 1
  BY <1>2
<1> QED
  BY <1>1, <1>3 DEF FrozenOK, Working

LEMMA StepUnsent ==
  ASSUME Clean
  PROVE  TypeInv /\ OneHolder /\ Frozen /\ Covered /\ SentOnce /\ Unsent /\ [Next]_vars => Unsent'
<1> SUFFICES ASSUME TypeInv, OneHolder, Frozen, Covered, SentOnce, Unsent, [Next]_vars, NEW v \in Workers
             PROVE  UnsentOK(run[v])'
  BY DEF Unsent
<1> USE DEF At
<1>0. /\ RunOK /\ RowsOK /\ OtherOK /\ FrozenOK(run[v]) /\ UnsentOK(run[v])
      /\ run[v].pc \in Working => run[v].batch \in Batches
  BY DEF TypeInv, Frozen, Unsent, RunOK, LocalState, LocalOK, Working, WithBatch
<1>1. CASE UNCHANGED vars
  BY <1>0, <1>1 DEF vars, db, mail, UnsentOK
<1>2. CASE Environment
  <2>1. CASE run'[v] = Idle
    BY <2>1 DEF Idle, UnsentOK
  <2>2. CASE run'[v] = run[v] /\ run[v].pc \in InFlight
    <3>1. BatchKept(run[v].batch)
      BY <1>0, <1>2, <2>2, EnvironmentKeepsBatch DEF FrozenOK, InFlight, Working
    <3>2. copies' = copies
      BY <1>2, EnvironmentMail
    <3> QED
      BY <1>0, <2>2, <3>1, <3>2 DEF BatchKept, UnsentOK
  <2>3. CASE run'[v] = run[v] /\ run[v].pc \notin InFlight
    BY <2>3 DEF UnsentOK, InFlight
  <2> QED
    BY <1>0, <1>2, <2>1, <2>2, <2>3, EnvironmentKeeps DEF Clean, Calm
<1>3. ASSUME NEW w \in Workers, Work(w), w # v PROVE UnsentOK(run[v])'
  <2>1. run'[v] = run[v]
    BY <1>0, <1>3, OthersKeep
  <2>2. CASE run[v].pc \in InFlight
    <3>1. Holds(run[v], run[v].batch) /\ run[v].batch \in Batches
      BY <1>0, <2>2 DEF Holds, Holding, Working, InFlight
    <3>2. ~Holds(run[w], run[v].batch) /\ batchStatus[run[v].batch] # "ABSENT" /\ FrozenOK(run[w])
      BY <1>3, <3>1 DEF OneHolder, HeldOnce, Frozen
    <3>3. BatchKept(run[v].batch)
      BY <1>0, <1>3, <3>1, <3>2, WorkKeepsBatch
    <3>4. run[w].pc = "submitting" => run[w].batch # run[v].batch
      BY <3>2 DEF Holds, Holding, Working
    <3>5. \A r \in Recipients : sendBatch[r] = run[v].batch => copies'[r] = copies[r]
      BY <1>0, <1>3, <3>2, <3>4, WorkCopies
    <3> QED
      BY <1>0, <2>1, <3>3, <3>5 DEF BatchKept, UnsentOK
  <2>3. CASE run[v].pc \notin InFlight
    BY <2>1, <2>3 DEF UnsentOK, InFlight
  <2> QED
    BY <2>2, <2>3
<1>4. CASE Work(v)
  <2> DEFINE x == run[v]
  <2>1. CASE run'[v].pc \notin InFlight
    BY <2>1 DEF UnsentOK, InFlight
  <2>2. CASE PrepareAttempt(v) /\ Goto(v, "submitting") /\ batchStatus[x.batch] = "PREPARING"
    <3>1. /\ run'[v].pc = "submitting" /\ run'[v].batch = x.batch
          /\ sendBatch' = sendBatch /\ copies' = copies
      BY <1>0, <2>2, GotoEffect DEF Gets, PrepareAttempt, mail
    <3>2. \A r \in Recipients : sendBatch[r] = x.batch => copies[r] = 0
      BY <2>2 DEF SentOnce, Sent
    <3> QED
      BY <3>1, <3>2 DEF UnsentOK
  <2>3. CASE SubmitAnswered(v)
    <3>1. PICK A \in SUBSET x.recips : /\ ProviderTakes(x.batch, x.recips, A)
                                       /\ run'[v].pc = "finishing" /\ run'[v].batch = x.batch /\ run'[v].hit = A
      BY <1>0, <2>3, AnsweredEffect DEF Gets
    <3>2. x.pc = "submitting" /\ sendBatch' = sendBatch
      BY <2>3 DEF SubmitAnswered, db
    <3>3. \A r \in Recipients : r \notin A => copies'[r] = copies[r]
      BY <3>1 DEF ProviderTakes
    <3> QED
      BY <1>0, <3>1, <3>2, <3>3 DEF UnsentOK
  <2>4. ASSUME NEW e \in ProviderErrors, SubmitThrows(v, e) PROVE UnsentOK(run[v])'
    <3>1. /\ x.pc = "submitting" /\ sendBatch' = sendBatch /\ copies' = copies
      BY <2>4 DEF SubmitThrows, db, Clean
    <3>2. run'[v].pc = "failing" /\ run'[v].batch = x.batch
      BY <1>0, <2>4, ThrowsEffect DEF Gets
    <3> QED
      BY <1>0, <3>1, <3>2 DEF UnsentOK
  <2>5. ~FinishThrows(v) /\ ~StatsThrow(v)
    <3>1. x.pc = "finishing" => ~(usage.reserved < Cardinality(x.recips))
      <4>1. ReservationsThere /\ Cardinality(x.recips) \in Nat /\ usage.reserved \in Nat
        BY <1>0, CoveredIsThere, RecipientsFinite DEF RunOK, RunType, RowsOK, UsageType
      <4> QED
        BY <4>1 DEF ReservationsThere
    <3> QED
      BY <3>1 DEF FinishThrows, StatsThrow, Event, Clean, Calm
  <2> QED
    BY <1>0, <1>4, <2>1, <2>2, <2>3, <2>4, <2>5, FlightActions
<1> QED
  BY <1>1, <1>2, <1>3, <1>4 DEF Next

LEMMA StepSentOnce ==
  TypeInv /\ JobsOK /\ Frozen /\ SentOnce /\ Unsent /\ [Next]_vars => SentOnce'
<1> SUFFICES ASSUME TypeInv, JobsOK, Frozen, SentOnce, Unsent, [Next]_vars, NEW r \in Recipients,
                    copies'[r] # 0
             PROVE  Sent(r)'
  BY DEF SentOnce
<1> USE DEF At
<1>0. RunOK /\ RowsOK /\ OtherOK /\ None \notin Batches /\ sendBatch[r] \in Batches \cup {None}
  BY DeliveryAssumption DEF TypeInv, RowsOK
<1>a. ASSUME Sent(r), BatchKept(sendBatch[r]), copies'[r] = copies[r] PROVE Sent(r)'
  BY <1>a DEF Sent, BatchKept, Movable
<1>1. CASE UNCHANGED vars
  BY <1>1 DEF vars, db, mail, SentOnce, Sent
<1>2. CASE Environment
  <2>1. copies' = copies
    BY <1>2, EnvironmentMail
  <2>2. Sent(r)
    BY <2>1 DEF SentOnce
  <2> QED
    BY <1>0, <1>2, <1>a, <2>1, <2>2, EnvironmentKeepsBatch DEF Sent
<1>3. ASSUME NEW w \in Workers, Work(w) PROVE Sent(r)'
  <2> DEFINE x == run[w]
             c == sendBatch[r]
  <2>0. /\ FrozenOK(x) /\ JobOK(x) /\ UnsentOK(x) /\ x \in RunType
        /\ x.pc \in Working => x.batch \in Batches
        /\ x.pc = "retrying" => PayloadBatch(x.job) \in Batches
    BY <1>0 DEF Frozen, JobsOK, Unsent, RunOK, LocalState, LocalOK, Working, WithBatch
  <2>1. CASE copies'[r] # copies[r]
    <3>1. x.pc = "submitting" /\ r \in x.recips /\ c = x.batch /\ copies'[r] = copies[r] + 1
      BY <1>0, <1>3, <2>0, <2>1, WorkCopies
    <3>2. copies'[r] = 1
      BY <2>0, <3>1 DEF UnsentOK
    <3>3. c \in Batches /\ sendState[r] = "SENDING" /\ batchStatus[c] = "SUBMITTING"
      BY <2>0, <3>1 DEF FrozenOK, Working, InFlight
    <3>4. UNCHANGED <<sendState, sendBatch, batchStatus>>
      <4>1. ~(ClaimReservedBatch(w) \/ SuppressPending(w) \/ Reserve(w) \/ Block(w) \/ PrepareAttempt(w)
                \/ CommitResult(w) \/ FailBatch(w))
        BY <3>1 DEF ClaimReservedBatch, SuppressPending, Reserve, Block, PrepareAttempt, CommitResult, FailBatch
      <4> QED
        BY <1>3, <4>1, WritersOfRows
    <3> QED
      BY <1>0, <3>2, <3>3, <3>4 DEF Sent
  <2>2. CASE copies'[r] = copies[r]
    <3>0. Sent(r) /\ c \in Batches /\ copies[r] # 0
      BY <1>0, <2>2 DEF SentOnce, Sent
    <3>1. CASE ~Holds(x, c)
      BY <1>0, <1>3, <1>a, <2>0, <2>2, <3>0, <3>1, WorkKeepsBatch DEF Sent
    <3>2. CASE Holds(x, c)
      <4>a. ASSUME x.pc \in Working PROVE x.batch = c
        BY <1>0, <2>0, <3>0, <3>2, <4>a DEF JobOK, Holds, Holding
      <4>b. ASSUME sendState'[r] = sendState[r], sendBatch'[r] = c, batchStatus'[c] = batchStatus[c] PROVE Sent(r)'
        BY <2>2, <3>0, <4>b DEF Sent
      <4>1. CASE UNCHANGED <<sendState, sendBatch, batchStatus, usage>>
        BY <4>1, <4>b
      <4>2. CASE ClaimReservedBatch(w)
        <5>1. x.pc = "retrying" /\ PayloadBatch(x.job) = c /\ sendBatch' = sendBatch
          BY <3>2, <4>2 DEF ClaimReservedBatch, Holds, Holding, Working
        <5>2. UNCHANGED <<batchStatus, sendState>>
          BY <1>0, <3>0, <4>2, <5>1, ClaimReservedEffect DEF Sent
        <5> QED
          BY <4>b, <5>1, <5>2
      <4>3. CASE SuppressPending(w)
        BY <3>0, <4>3, <4>b DEF SuppressPending, SetState, InState, Sent
      <4>4. ~Reserve(w)
        BY <1>0, <2>0, <3>0, <3>2 DEF Reserve, JobOK, CampaignLevel, Holds, Holding, Working
      <4>5. ~Block(w) /\ ~PrepareAttempt(w)
        <5>1. x.pc \in {"blocking", "preparing"} => batchStatus[c] = "PREPARING"
          BY <2>0, <4>a DEF FrozenOK, Working, InFlight
        <5> QED
          BY <3>0, <5>1 DEF Sent, Block, PrepareAttempt
      <4>6. CASE CommitResult(w)
        <5>1. x.pc = "finishing" /\ x.batch = c /\ sendBatch' = sendBatch
          BY <4>6, <4>a DEF CommitResult, Working
        <5>2. r \in x.hit
          BY <2>0, <3>0, <5>1 DEF UnsentOK
        <5>3. sendState'[r] = "ACCEPTED"
          BY <4>6, <5>2 DEF CommitResult, AcceptedItems
        <5>4. batchStatus'[c] \in {"ACCEPTED", "PARTIAL"}
          BY <1>0, <3>0, <4>6, <5>1, <5>2 DEF CommitResult, AcceptedItems, RowsOK
        <5> QED
          BY <2>2, <3>0, <5>1, <5>3, <5>4 DEF Sent
      <4>7. ~FailBatch(w)
        <5>1. x.pc = "failing" => copies[r] = 0
          BY <2>0, <4>a DEF UnsentOK, Working
        <5> QED
          BY <3>0, <5>1 DEF FailBatch
      <4> QED
        BY <1>3, <4>1, <4>2, <4>3, <4>4, <4>5, <4>6, <4>7, WritersOfRows
    <3> QED
      BY <3>1, <3>2
  <2> QED
    BY <2>1, <2>2
<1> QED
  BY <1>1, <1>2, <1>3 DEF Next

LEMMA SentInvariant ==
  ASSUME Clean
  PROVE  Spec => []SentOnce
<1>1. Init => SentOnce /\ Unsent
  <2> SUFFICES ASSUME Init PROVE SentOnce /\ Unsent
    OBVIOUS
  <2>1. \A w \in Workers : run[w].pc = "idle"
    BY DEF Init, Idle
  <2> QED
    BY <2>1 DEF Init, SentOnce, Unsent, UnsentOK
<1>2. Calm
  BY DEF Clean
<1> QED
  BY <1>1, <1>2, StepUnsent, StepSentOnce, CoveredInvariant, FrozenInvariant, HolderInvariant, JobsInvariant,
     TypeInvariant, PTL DEF Spec, Calm

\* Nobody is mailed twice, whatever is refused, retried, suppressed, paused,
\* cancelled or aborted, and whichever keys expire, as long as an error of
\* the provider call means that nothing went out and an answer is committed.
THEOREM MailedOnce ==
  ASSUME Clean
  PROVE  Spec => []NoDuplicateDelivery
<1>1. SentOnce => NoDuplicateDelivery
  BY DEF SentOnce, Sent, NoDuplicateDelivery
<1> QED
  BY <1>1, SentInvariant, PTL

\* The messages that are out are one per recipient that has been sent one.
Out == {r \in Recipients : copies[r] # 0}

LEMMA MessagesOut ==
  ASSUME SentOnce
  PROVE  Messages = Out \X {1}
<1>1. ASSUME NEW r \in Recipients PROVE 1 .. copies[r] = IF r \in Out THEN {1} ELSE {}
  <2>1. CASE copies[r] = 0
    BY <2>1 DEF Out
  <2>2. CASE copies[r] # 0
    <3>1. copies[r] = 1
      BY <2>2 DEF SentOnce, Sent
    <3> QED
      BY <3>1 DEF Out
  <2> QED
    BY <2>1, <2>2
<1>2. ASSUME NEW m \in Messages PROVE m \in Out \X {1}
  <2>1. PICK r \in Recipients : m \in {r} \X (1 .. copies[r])
    BY <1>2 DEF Messages
  <2> QED
    BY <1>1, <2>1
<1>3. ASSUME NEW m \in Out \X {1} PROVE m \in Messages
  <2>1. PICK r \in Out : m = <<r, 1>>
    BY <1>3
  <2>2. r \in Recipients /\ m \in {r} \X (1 .. copies[r])
    BY <1>1, <2>1 DEF Out
  <2> QED
    BY <2>2 DEF Messages
<1> QED
  BY <1>2, <1>3

LEMMA OutCovered ==
  ASSUME TypeInv, SentOnce, Counted, Covered
  PROVE  Cardinality(Messages) <= usage.accepted + usage.reserved
<1>0. /\ usage.accepted \in Nat /\ usage.reserved \in Nat
      /\ Cardinality(AcceptedRecipients) <= usage.accepted /\ Cardinality(Claimed) <= usage.reserved
  BY DEF TypeInv, RowsOK, UsageType, Counted, Covered
<1>1. Out \subseteq AcceptedRecipients \cup Claimed
  BY DEF Out, SentOnce, Sent, AcceptedRecipients, InState, Claimed, Open
<1>2. Out \in SUBSET Recipients /\ AcceptedRecipients \in SUBSET Recipients /\ Claimed \in SUBSET Recipients
  BY DEF Out, AcceptedRecipients, InState, Claimed
<1>3. /\ Cardinality(Out) <= Cardinality(AcceptedRecipients) + Cardinality(Claimed)
      /\ IsFiniteSet(Out) /\ Cardinality(Out) \in Nat
      /\ Cardinality(AcceptedRecipients) \in Nat /\ Cardinality(Claimed) \in Nat
  BY <1>1, <1>2, Sizes, RecipientsFinite
<1>4. IsFiniteSet({1}) /\ Cardinality({1}) = 1
  BY FS_Singleton
<1>5. Cardinality(Out \X {1}) = Cardinality(Out) * Cardinality({1})
  BY <1>3, <1>4, FS_Product
<1>6. Cardinality(Messages) = Cardinality(Out \X {1})
  BY MessagesOut, Zenon
<1>7. Cardinality(Messages) = Cardinality(Out)
  <2> HIDE DEF Out
  <2> DEFINE n == Cardinality(Out)
             one == Cardinality({1})
  <2>1. n \in Nat /\ one = 1 /\ Cardinality(Messages) = n * one
    BY <1>3, <1>4, <1>5, <1>6, Zenon
  <2> HIDE DEF n, one
  <2>2. Cardinality(Messages) = n
    BY <2>1
  <2> QED
    BY <2>2 DEF n
<1> QED
  BY <1>0, <1>3, <1>7

\* The day's usage row covers every message that is out and never passes the
\* limit: so many messages leave in a day at most.
THEOREM DailyLimitKept ==
  ASSUME Clean
  PROVE  Spec => []DailyLimitHolds
<1>1. TypeInv /\ SentOnce /\ Counted /\ Covered /\ WithinLimit => DailyLimitHolds
  <2> SUFFICES ASSUME TypeInv, SentOnce, Counted, Covered, WithinLimit PROVE DailyLimitHolds
    OBVIOUS
  <2>1. Cardinality(Messages) <= usage.accepted + usage.reserved
    BY OutCovered
  <2>2. Limit # None => usage.accepted + usage.reserved <= Limit
    BY DEF WithinLimit
  <2> QED
    BY <2>1, <2>2 DEF DailyLimitHolds
<1>2. Calm
  BY DEF Clean
<1>3. Spec => []TypeInv /\ []SentOnce /\ []Counted /\ []Covered /\ []WithinLimit
  BY <1>2, SentInvariant, CountedInvariant, CoveredInvariant, LimitRespected, TypeInvariant
<1> QED
  BY <1>1, <1>3, PTL

-----------------------------------------------------------------------------
(* What a recipient's row says agrees with what its batch's row says. *)

\* A recipient is not in a batch before it was reserved; one that failed
\* failed with its batch; one whose outcome is final is in a batch that is.
RowAgrees(r) ==
  /\ sendState[r] # "RESERVED"
  /\ sendState[r] = "PENDING" => sendBatch[r] = None
  /\ sendState[r] = "CANCELLED" => sendBatch[r] = None \/ batchStatus[sendBatch[r]] = "PERMANENT_FAILED"
  /\ sendState[r] \in {"TEMPORARY_FAILED", "MANUAL_REVIEW"} =>
       sendBatch[r] # None /\ batchStatus[sendBatch[r]] = sendState[r]
  /\ sendState[r] = "PERMANENT_FAILED" =>
       sendBatch[r] # None /\ batchStatus[sendBatch[r]] \in {"PERMANENT_FAILED", "PARTIAL"}
  /\ sendState[r] = "ACCEPTED" =>
       sendBatch[r] # None /\ batchStatus[sendBatch[r]] \in {"ACCEPTED", "PARTIAL"}
RowsAgree == \A r \in Recipients : RowAgrees(r)

\* A row stays in agreement when it stays and its batch's row stays, or goes
\* between the states of a batch that is being worked on.
LEMMA AgreesStill ==
  ASSUME NEW r \in Recipients, RowAgrees(r), sendState'[r] = sendState[r], sendBatch'[r] = sendBatch[r],
         sendBatch[r] # None =>
           \/ batchStatus'[sendBatch[r]] = batchStatus[sendBatch[r]]
           \/ batchStatus[sendBatch[r]] \in {"PREPARING", "SUBMITTING"}
  PROVE  RowAgrees(r)'
  BY DEF RowAgrees

\* The members of a batch that is being worked on are SENDING, or were
\* suppressed in between two of its attempts.
LEMMA MembersAtWork ==
  ASSUME TypeInv, RowsAgree, NEW r \in Recipients, sendBatch[r] # None,
         batchStatus[sendBatch[r]] \in {"PREPARING", "SUBMITTING"}
  PROVE  sendState[r] \in {"SENDING", "SUPPRESSED"}
<1>1. sendState[r] \in SendStates
  BY DEF TypeInv, RowsOK
<1> QED
  BY <1>1 DEF RowsAgree, RowAgrees, SendStates, Unfinished

LEMMA EnvironmentAgrees ==
  ASSUME TypeInv, RowsAgree, Environment
  PROVE  RowsAgree'
<1> SUFFICES ASSUME NEW r \in Recipients PROVE RowAgrees(r)'
  BY DEF RowsAgree
<1>0. RowAgrees(r) /\ RowsOK /\ sendBatch[r] \in Batches \cup {None}
  BY DEF RowsAgree, TypeInv, RowsOK
<1>1. CASE Cancel
  <2>1. /\ sendBatch' = sendBatch
        /\ \A b \in Batches :
             batchStatus'[b] = IF batchStatus[b] = "TEMPORARY_FAILED" THEN "PERMANENT_FAILED" ELSE batchStatus[b]
        /\ sendState'[r] = IF sendState[r] \in {"PENDING", "TEMPORARY_FAILED", "RESERVED"} THEN "CANCELLED"
                           ELSE sendState[r]
    BY <1>1 DEF Cancel, SetState, Cancellable, InState
  <2> QED
    BY <1>0, <2>1 DEF RowAgrees
<1>2. ASSUME NEW s \in Recipients, NEW u \in BOOLEAN, Suppress(s, u) PROVE RowAgrees(r)'
  <2>1. /\ UNCHANGED <<sendBatch, batchStatus>>
        /\ sendState'[r] = "SUPPRESSED" \/ sendState'[r] = sendState[r]
    BY <1>2 DEF Suppress, SetState
  <2> QED
    BY <1>0, <2>1 DEF RowAgrees
<1>3. CASE UNCHANGED <<sendState, sendBatch, batchStatus>>
  BY <1>0, <1>3 DEF RowAgrees
<1> QED
  BY <1>1, <1>2, <1>3 DEF Environment, Pause, Resume, GuardTrips, CloseGate, OpenGate, SlotFrees, KeyExpires,
     Abort, LoseLease, db

LEMMA WorkAgrees ==
  ASSUME TypeInv, JobsOK, Frozen, NoGhosts, RowsAgree, NEW w \in Workers, Work(w)
  PROVE  RowsAgree'
<1> USE DEF At
<1> SUFFICES ASSUME NEW r \in Recipients PROVE RowAgrees(r)'
  BY DEF RowsAgree
<1> DEFINE x == run[w]
           b == x.batch
<1>0. /\ RunOK /\ RowsOK /\ RowAgrees(r) /\ None \notin Batches /\ sendBatch[r] \in Batches \cup {None}
      /\ FrozenOK(x) /\ x \in RunType
      /\ x.pc \in Working => b \in Batches
      /\ x.pc = "retrying" => PayloadBatch(x.job) \in Batches
  BY DeliveryAssumption DEF TypeInv, RowsOK, RowsAgree, Frozen, RunOK, LocalState, LocalOK, Working, WithBatch
<1>1. CASE UNCHANGED <<sendState, sendBatch, batchStatus, usage>>
  BY <1>0, <1>1 DEF RowAgrees
<1>2. CASE ClaimReservedBatch(w)
  <2> DEFINE c == PayloadBatch(x.job)
  <2>1. c \in Batches /\ sendBatch' = sendBatch
    BY <1>0, <1>2 DEF ClaimReservedBatch
  <2>2. \/ UNCHANGED <<batchStatus, sendState>>
        \/ /\ batchStatus[c] \in {"TEMPORARY_FAILED", "PREPARING"}
           /\ batchStatus' = [batchStatus EXCEPT ![c] = "PREPARING"]
           /\ SetState(Revived(c), "SENDING")
    BY <1>0, <1>2, ClaimReservedEffect
  <2> HIDE DEF c
  <2>3. CASE UNCHANGED <<batchStatus, sendState>>
    BY <1>0, <2>1, <2>3 DEF RowAgrees
  <2>4. CASE /\ batchStatus[c] \in {"TEMPORARY_FAILED", "PREPARING"}
             /\ batchStatus' = [batchStatus EXCEPT ![c] = "PREPARING"]
             /\ SetState(Revived(c), "SENDING")
    <3>1. CASE r \in Revived(c)
      BY <2>4, <3>1 DEF SetState, RowAgrees
    <3>2. CASE r \notin Revived(c)
      <4>1. sendState'[r] = sendState[r]
        BY <2>4, <3>2 DEF SetState
      <4>2. CASE sendBatch[r] # c
        BY <1>0, <2>1, <2>4, <4>1, <4>2, AgreesStill DEF RowsOK
      <4>3. CASE sendBatch[r] = c
        <5>1. sendState[r] # "TEMPORARY_FAILED"
          BY <1>0, <3>2, <4>3 DEF Revived, InState, RowAgrees
        <5> QED
          BY <1>0, <2>1, <2>4, <4>1, <4>3, <5>1 DEF RowAgrees
      <4> QED
        BY <4>2, <4>3
    <3> QED
      BY <3>1, <3>2
  <2> QED
    BY <2>2, <2>3, <2>4
<1>3. CASE SuppressPending(w)
  <2>1. /\ UNCHANGED <<sendBatch, batchStatus>>
        /\ sendState'[r] = "SUPPRESSED" \/ sendState'[r] = sendState[r]
    BY <1>3 DEF SuppressPending, SetState
  <2> QED
    BY <1>0, <2>1 DEF RowAgrees
<1>4. CASE Reserve(w)
  <2>1. CASE Allowed = 0 \/ Candidates = {}
    BY <1>0, <1>4, <2>1 DEF Reserve, RowAgrees
  <2>2. CASE ~(Allowed = 0 \/ Candidates = {})
    <3>1. PICK S \in kSubset(Smaller(Allowed, Cardinality(Candidates)), Candidates), c \in Batches :
            /\ batchStatus[c] = "ABSENT"
            /\ batchStatus' = [batchStatus EXCEPT ![c] = "PREPARING"]
            /\ SetState(S, "SENDING")
            /\ sendBatch' = [s \in Recipients |-> IF s \in S THEN c ELSE sendBatch[s]]
      BY <1>0, <1>4, <2>2, ReserveEffect
    <3>2. CASE r \in S
      BY <3>1, <3>2 DEF SetState, RowAgrees
    <3>3. CASE r \notin S
      <4>1. sendState'[r] = sendState[r] /\ sendBatch'[r] = sendBatch[r]
        BY <3>1, <3>3 DEF SetState
      <4>2. sendBatch[r] # None => sendBatch[r] # c
        BY <3>1 DEF NoGhosts
      <4>3. sendBatch[r] # None => batchStatus'[sendBatch[r]] = batchStatus[sendBatch[r]]
        BY <1>0, <3>1, <4>2 DEF RowsOK
      <4> QED
        BY <1>0, <4>1, <4>3, AgreesStill
    <3> QED
      BY <3>2, <3>3
  <2> QED
    BY <2>1, <2>2
<1>5. CASE Block(w)
  <2>1. /\ x.pc = "blocking" /\ SetState(x.hit, "SUPPRESSED")
        /\ batchStatus' = batchStatus \/ batchStatus' = [batchStatus EXCEPT ![b] = "PERMANENT_FAILED"]
        /\ \/ sendBatch' = sendBatch
           \/ sendBatch' = [s \in Recipients |-> IF s \in x.hit THEN None ELSE sendBatch[s]]
    BY <1>5 DEF Block
  <2>2. b \in Batches /\ batchStatus[b] = "PREPARING"
    BY <1>0, <2>1 DEF FrozenOK, Working, InFlight
  <2>3. CASE r \in x.hit
    BY <2>1, <2>3 DEF SetState, RowAgrees
  <2>4. CASE r \notin x.hit
    <3>1. sendState'[r] = sendState[r] /\ sendBatch'[r] = sendBatch[r]
      BY <2>1, <2>4 DEF SetState
    <3>2. sendBatch[r] # None =>
            batchStatus'[sendBatch[r]] = batchStatus[sendBatch[r]] \/ batchStatus[sendBatch[r]] = "PREPARING"
      BY <1>0, <2>1, <2>2 DEF RowsOK
    <3> QED
      BY <1>0, <3>1, <3>2, AgreesStill
  <2> QED
    BY <2>3, <2>4
<1>6. CASE PrepareAttempt(w)
  <2>1. UNCHANGED <<sendState, sendBatch>>
    BY <1>6 DEF PrepareAttempt
  <2>2. \/ batchStatus' = batchStatus
        \/ batchStatus[b] = "PREPARING" /\ batchStatus' = [batchStatus EXCEPT ![b] = "SUBMITTING"]
    BY <1>6 DEF PrepareAttempt
  <2>3. sendBatch[r] # None =>
          batchStatus'[sendBatch[r]] = batchStatus[sendBatch[r]] \/ batchStatus[sendBatch[r]] = "PREPARING"
    BY <1>0, <2>2 DEF RowsOK
  <2> QED
    BY <1>0, <2>1, <2>3, AgreesStill
<1>7. CASE CommitResult(w)
  <2> DEFINE refused == x.recips \ x.hit
  <2>1. /\ x.pc = "finishing" /\ sendBatch' = sendBatch /\ x.hit \subseteq x.recips
        /\ sendState'[r] = IF r \in x.hit THEN "ACCEPTED" ELSE IF r \in refused THEN "PERMANENT_FAILED"
                           ELSE sendState[r]
        /\ batchStatus' = [batchStatus EXCEPT ![b] =
             IF refused = {} THEN "ACCEPTED" ELSE IF x.hit = {} THEN "PERMANENT_FAILED" ELSE "PARTIAL"]
    BY <1>0, <1>7 DEF CommitResult, AcceptedItems, FrozenOK
  <2>2. /\ b \in Batches /\ batchStatus[b] = "SUBMITTING"
        /\ \A s \in x.recips : sendBatch[s] = b
    BY <1>0, <2>1 DEF FrozenOK, Working, InFlight
  <2>3. batchStatus'[b] = IF refused = {} THEN "ACCEPTED"
                          ELSE IF x.hit = {} THEN "PERMANENT_FAILED" ELSE "PARTIAL"
    BY <1>0, <2>1, <2>2 DEF RowsOK
  <2>4. CASE r \in x.hit
    BY <1>0, <2>1, <2>2, <2>3, <2>4 DEF RowAgrees
  <2>5. CASE r \in refused
    BY <1>0, <2>1, <2>2, <2>3, <2>5 DEF RowAgrees
  <2>6. CASE r \notin x.recips
    <3>1. sendState'[r] = sendState[r] /\ sendBatch'[r] = sendBatch[r]
      BY <2>1, <2>6
    <3>2. sendBatch[r] # None =>
            batchStatus'[sendBatch[r]] = batchStatus[sendBatch[r]] \/ batchStatus[sendBatch[r]] = "SUBMITTING"
      BY <1>0, <2>1, <2>2 DEF RowsOK
    <3> QED
      BY <1>0, <3>1, <3>2, AgreesStill
  <2> QED
    BY <2>4, <2>5, <2>6
<1>8. CASE FailBatch(w)
  <2>1. PICK f \in {"TEMPORARY_FAILED", "MANUAL_REVIEW", "PERMANENT_FAILED"} :
          /\ x.pc = "failing" /\ sendBatch' = sendBatch
          /\ batchStatus' = [batchStatus EXCEPT ![b] = f]
          /\ SetState({s \in Recipients : sendBatch[s] = b}, f)
    BY <1>8 DEF FailBatch
  <2>2. b \in Batches
    BY <1>0, <2>1 DEF Working
  <2>3. CASE sendBatch[r] = b
    BY <1>0, <2>1, <2>2, <2>3 DEF SetState, RowAgrees, RowsOK
  <2>4. CASE sendBatch[r] # b
    <3>1. sendState'[r] = sendState[r]
      BY <2>1, <2>4 DEF SetState
    <3>2. sendBatch[r] # None => batchStatus'[sendBatch[r]] = batchStatus[sendBatch[r]]
      BY <1>0, <2>1, <2>4 DEF RowsOK
    <3> QED
      BY <1>0, <2>1, <3>1, <3>2, AgreesStill
  <2> QED
    BY <2>3, <2>4
<1> QED
  BY <1>1, <1>2, <1>3, <1>4, <1>5, <1>6, <1>7, <1>8, WritersOfRows

LEMMA StepRowsAgree ==
  TypeInv /\ JobsOK /\ Frozen /\ NoGhosts /\ RowsAgree /\ [Next]_vars => RowsAgree'
<1>1. TypeInv /\ RowsAgree /\ UNCHANGED vars => RowsAgree'
  BY DEF vars, db, RowsAgree, RowAgrees
<1> QED
  BY <1>1, EnvironmentAgrees, WorkAgrees DEF Next

\* Whatever is reserved, refused, retried, cancelled, suppressed and aborted:
\* a recipient waits for the retry of a batch that waits for it, and one with
\* an outcome is in no batch that will be sent again.
THEOREM RowsFollowBatches ==
  ASSUME Calm
  PROVE  Spec => []RowsAgree
<1>1. Init => RowsAgree /\ NoGhosts
  BY DEF Init, RowsAgree, RowAgrees, NoGhosts
<1> QED
  BY <1>1, StepRowsAgree, StepNoGhosts, FrozenInvariant, JobsInvariant, TypeInvariant, PTL DEF Spec

-----------------------------------------------------------------------------
(* Delivery implements Mailing. *)

\* A step that leaves the rows and the mail alone is none of Mailing's.
LEMMA NothingMailed ==
  ASSUME UNCHANGED <<sendState, copies>>
  PROVE  UNCHANGED Promise!vars
  BY DEF Promise!vars

\* Writing one send_state to a set of rows gives them all one fate.
LEMMA WriteIsBecoming ==
  ASSUME NEW S, NEW state, SetState(S, state)
  PROVE  Promise!Becomes(S, Fate(state))
<1>1. \A r \in Recipients : sendState'[r] = IF r \in S THEN state ELSE sendState[r]
  BY DEF SetState
<1>2. \A r \in Recipients : Fate(sendState[r])' = IF r \in S THEN Fate(state) ELSE Fate(sendState[r])
  BY <1>1 DEF Fate
<1> QED
  BY <1>2 DEF Promise!Becomes

\* Who waits, who is claimed and who has been sent nothing.
LEMMA ReadFates ==
  ASSUME NEW r \in Recipients
  PROVE  /\ sendState[r] \in {"PENDING", "RESERVED", "TEMPORARY_FAILED"} => r \in Promise!Having({"waiting"})
         /\ sendState[r] = "SENDING" => r \in Promise!Having({"claimed"})
         /\ sendState[r] \in {"SENDING", "SUPPRESSED"} => r \in Promise!Having({"claimed", "suppressed"})
         /\ sendState[r] \in {"SENDING", "PENDING", "RESERVED", "TEMPORARY_FAILED"} =>
              r \in Promise!Having({"waiting", "claimed"})
         /\ copies[r] = 0 => r \in Promise!Unsent
  BY DEF Promise!Having, Promise!Unsent, Fate

LEMMA FateOf ==
  /\ Fate("SENDING") = "claimed" /\ Fate("SUPPRESSED") = "suppressed" /\ Fate("CANCELLED") = "cancelled"
  /\ Fate("TEMPORARY_FAILED") = "waiting" /\ Fate("MANUAL_REVIEW") = "review"
  /\ Fate("PERMANENT_FAILED") = "refused"
  BY DEF Fate

\* Only somebody in a batch has been sent anything.
LEMMA OthersUnsent ==
  ASSUME SentOnce, NEW r \in Recipients,
         \/ sendState[r] \in {"PENDING", "RESERVED", "TEMPORARY_FAILED"}
         \/ sendState[r] = "SENDING" /\ batchStatus[sendBatch[r]] = "PREPARING"
  PROVE  copies[r] = 0
  BY DEF SentOnce, Sent

LEMMA EnvironmentMails ==
  ASSUME TypeInv, SentOnce, Environment
  PROVE  [Promise!Next]_(Promise!vars)
<1>1. CASE Cancel
  <2>1. Promise!Becomes(Cancellable, "cancelled") /\ copies' = copies
    BY <1>1, WriteIsBecoming, FateOf DEF Cancel, mail
  <2>2. Cancellable \subseteq Promise!Having({"waiting"}) /\ Cancellable \in SUBSET Recipients
    BY ReadFates DEF Cancellable, InState
  <2>3. Promise!Cancel(Cancellable)
    BY <2>1, <2>2 DEF Promise!Cancel
  <2> QED
    BY <2>2, <2>3 DEF Promise!Next
<1>2. ASSUME NEW s \in Recipients, NEW u \in BOOLEAN, Suppress(s, u) PROVE [Promise!Next]_(Promise!vars)
  <2> DEFINE S == IF u THEN {s} \cap InState({"PENDING", "RESERVED", "TEMPORARY_FAILED"}) ELSE {}
  <2>1. SetState(S, "SUPPRESSED") /\ copies' = copies
    BY <1>2 DEF Suppress, mail
  <2>2. S \in SUBSET Recipients /\ \A r \in S : sendState[r] \in {"PENDING", "RESERVED", "TEMPORARY_FAILED"}
    BY DEF InState
  <2> HIDE DEF S
  <2>3. Promise!Becomes(S, "suppressed")
    BY <2>1, WriteIsBecoming, FateOf
  <2>4. S \subseteq Promise!Having({"waiting", "claimed"}) \cap Promise!Unsent
    BY <2>2, ReadFates, OthersUnsent
  <2>5. Promise!Suppress(S)
    BY <2>1, <2>3, <2>4 DEF Promise!Suppress
  <2> QED
    BY <2>2, <2>5 DEF Promise!Next
<1>3. CASE UNCHANGED <<sendState, copies>>
  BY <1>3, NothingMailed
<1>4. Cancel \/ (\E s \in Recipients, u \in BOOLEAN : Suppress(s, u)) \/ UNCHANGED sendState
  BY DEF Environment, Pause, Resume, GuardTrips, CloseGate, OpenGate, SlotFrees, KeyExpires, Abort, LoseLease, db
<1> QED
  BY <1>1, <1>2, <1>3, <1>4, EnvironmentMail

\* The transactions and calls of a dispatch that Mailing sees.
LEMMA WritersOfMail ==
  ASSUME Clean, NEW w \in Workers, Work(w)
  PROVE  \/ UNCHANGED <<sendState, copies>>
         \/ ClaimReservedBatch(w) \/ SuppressPending(w) \/ Reserve(w) \/ Block(w) \/ SubmitAnswered(w)
         \/ CommitResult(w) \/ FailBatch(w)
<1>1. \/ UNCHANGED sendState
      \/ ClaimReservedBatch(w) \/ SuppressPending(w) \/ Reserve(w) \/ Block(w) \/ CommitResult(w) \/ FailBatch(w)
  BY WritersOfRows DEF PrepareAttempt
<1>2. ASSUME NEW e \in ProviderErrors, SubmitThrows(w, e) PROVE UNCHANGED copies
  BY <1>2 DEF SubmitThrows, Clean
<1>3. UNCHANGED copies \/ SubmitAnswered(w)
  BY <1>2 DEF Work, Claim, Hold, SlotDenied, SlotTaken, ClaimReservedBatch, MarkSending, SuppressPending, Reserve,
     CheckSuppression, Block, PrepareAttempt, Finish, FinishThrows, StatsThrow, CommitResult, FailBatch,
     CheckViolated, ScheduleRetry, ScheduleNext, CountRemaining, CompleteCampaign, mail
<1> QED
  BY <1>1, <1>3

\* Before the provider call: taking recipients up, and leaving them out.
LEMMA ChoosersSendNothing ==
  ASSUME NEW w \in Workers, ClaimReservedBatch(w) \/ SuppressPending(w) \/ Reserve(w) \/ Block(w)
  PROVE  UNCHANGED copies
  BY DEF ClaimReservedBatch, SuppressPending, Reserve, Block, mail

LEMMA ChoosingMails ==
  ASSUME TypeInv, Frozen, SentOnce, NEW w \in Workers, UNCHANGED copies
  PROVE  ClaimReservedBatch(w) \/ SuppressPending(w) \/ Reserve(w) \/ Block(w)
           => [Promise!Next]_(Promise!vars)
<1> USE DEF At
<1> DEFINE x == run[w]
<1>0. /\ RunOK /\ RowsOK /\ FrozenOK(x) /\ x \in RunType
      /\ x.pc \in Working => x.batch \in Batches
  BY DEF TypeInv, Frozen, RunOK, LocalState, LocalOK, Working, WithBatch
<1>1. ASSUME NEW S \in SUBSET Recipients, SetState(S, "SENDING"),
             \A r \in S : sendState[r] \in {"PENDING", "RESERVED", "TEMPORARY_FAILED"}
      PROVE  [Promise!Next]_(Promise!vars)
  <2>1. Promise!Becomes(S, "claimed") /\ S \subseteq Promise!Having({"waiting"})
    BY <1>1, WriteIsBecoming, FateOf, ReadFates
  <2>2. Promise!Claim(S)
    BY <1>0, <2>1 DEF Promise!Claim
  <2> QED
    BY <2>2 DEF Promise!Next
<1>2. ASSUME NEW S \in SUBSET Recipients, SetState(S, "SUPPRESSED"),
             \A r \in S : \/ sendState[r] = "PENDING"
                          \/ sendState[r] = "SENDING" /\ batchStatus[sendBatch[r]] = "PREPARING"
      PROVE  [Promise!Next]_(Promise!vars)
  <2>1. Promise!Becomes(S, "suppressed")
    BY <1>2, WriteIsBecoming, FateOf
  <2>2. S \subseteq Promise!Having({"waiting", "claimed"}) \cap Promise!Unsent
    BY <1>2, ReadFates, OthersUnsent
  <2>3. Promise!Suppress(S)
    BY <1>0, <2>1, <2>2 DEF Promise!Suppress
  <2> QED
    BY <2>3 DEF Promise!Next
<1>3. CASE UNCHANGED sendState
  BY <1>0, <1>3, NothingMailed
<1>4. CASE ClaimReservedBatch(w)
  <2> DEFINE S == Revived(PayloadBatch(x.job))
  <2>1. UNCHANGED sendState \/ SetState(S, "SENDING")
    BY <1>0, <1>4, ClaimReservedEffect
  <2>2. S \in SUBSET Recipients /\ \A r \in S : sendState[r] = "TEMPORARY_FAILED"
    BY DEF Revived, InState
  <2> HIDE DEF S
  <2> QED
    BY <1>1, <1>3, <2>1, <2>2
<1>5. CASE SuppressPending(w)
  <2> DEFINE S == InState({"PENDING"}) \cap suppressed
  <2>1. SetState(S, "SUPPRESSED") /\ S \in SUBSET Recipients /\ \A r \in S : sendState[r] = "PENDING"
    BY <1>5 DEF SuppressPending, InState
  <2> HIDE DEF S
  <2> QED
    BY <1>2, <2>1
<1>6. CASE Reserve(w)
  <2>1. CASE Allowed = 0 \/ Candidates = {}
    <3>1. UNCHANGED sendState
      BY <1>6, <2>1 DEF Reserve
    <3> QED
      BY <1>3, <3>1
  <2>2. CASE ~(Allowed = 0 \/ Candidates = {})
    <3>1. PICK S \in kSubset(Smaller(Allowed, Cardinality(Candidates)), Candidates) : SetState(S, "SENDING")
      BY <1>0, <1>6, <2>2, ReserveEffect
    <3>2. S \in SUBSET Recipients /\ \A r \in S : sendState[r] \in {"PENDING", "TEMPORARY_FAILED"}
      BY <1>0, ReservationSize DEF Candidates, InState
    <3> QED
      BY <1>1, <3>1, <3>2
  <2> QED
    BY <2>1, <2>2
<1>7. CASE Block(w)
  <2>1. x.pc = "blocking" /\ SetState(x.hit, "SUPPRESSED")
    BY <1>7 DEF Block
  <2>2. /\ x.hit \subseteq x.recips /\ batchStatus[x.batch] = "PREPARING"
        /\ \A r \in x.recips : sendState[r] = "SENDING" /\ sendBatch[r] = x.batch
    BY <1>0, <2>1 DEF FrozenOK, Working, InFlight
  <2>3. x.hit \in SUBSET Recipients
    BY <1>0 DEF RunType
  <2> QED
    BY <1>2, <2>1, <2>2, <2>3
<1> QED
  BY <1>4, <1>5, <1>6, <1>7

\* The provider call and what is put on record about it.
LEMMA CallMails ==
  ASSUME TypeInv, Frozen, AnswersAreSent, Unsent, RowsAgree, NEW w \in Workers
  PROVE  SubmitAnswered(w) \/ CommitResult(w) \/ FailBatch(w) => [Promise!Next]_(Promise!vars)
<1> USE DEF At
<1> DEFINE x == run[w]
<1>0. /\ RunOK /\ RowsOK /\ OtherOK /\ FrozenOK(x) /\ UnsentOK(x) /\ x.recips \in SUBSET Recipients
      /\ x.pc \in Working => x.batch \in Batches
  BY DEF TypeInv, Frozen, Unsent, RunOK, RunType, LocalState, LocalOK, Working, WithBatch
<1>1. CASE SubmitAnswered(w)
  <2>1. PICK A \in SUBSET x.recips : ProviderTakes(x.batch, x.recips, A)
    BY <1>1 DEF SubmitAnswered
  <2>2. x.pc = "submitting" /\ sendState' = sendState
    BY <1>1 DEF SubmitAnswered, db
  <2>3. CASE copies' = copies
    BY <2>2, <2>3, NothingMailed
  <2>4. CASE copies' = [r \in Recipients |-> IF r \in A THEN copies[r] + 1 ELSE copies[r]]
    <3>1. \A r \in A : r \in Recipients /\ sendState[r] = "SENDING" /\ copies[r] = 0
      BY <1>0, <2>2 DEF FrozenOK, Working, UnsentOK
    <3>2. A \subseteq Promise!Having({"claimed"}) \cap Promise!Unsent
      BY <3>1, ReadFates
    <3>3. Promise!Deliver(A)
      BY <2>2, <2>4, <3>2 DEF Promise!Deliver
    <3> QED
      BY <1>0, <3>3 DEF Promise!Next
  <2> QED
    BY <2>1, <2>3, <2>4 DEF ProviderTakes
<1>2. CASE CommitResult(w)
  <2> DEFINE S == x.recips
  <2>1. /\ x.pc = "finishing" /\ copies' = copies
        /\ sendState' = [r \in Recipients |-> IF r \in x.hit THEN "ACCEPTED"
                                              ELSE IF r \in S \ x.hit THEN "PERMANENT_FAILED" ELSE sendState[r]]
    BY <1>2 DEF CommitResult, AcceptedItems, mail
  <2>2. /\ x.hit \subseteq S /\ \A r \in S : sendState[r] = "SENDING"
        /\ \A r \in S : r \in x.hit <=> copies[r] # 0
    <3>1. x.hit \subseteq S /\ \A r \in S : sendState[r] = "SENDING" /\ sendBatch[r] = x.batch
      BY <1>0, <2>1 DEF FrozenOK, Working
    <3>2. \A r \in x.hit : copies[r] > 0
      BY <2>1 DEF AnswersAreSent
    <3>3. \A r \in S : copies[r] = 0 \/ r \in x.hit
      BY <1>0, <2>1, <3>1 DEF UnsentOK
    <3>4. \A r \in Recipients : copies[r] \in Nat
      BY <1>0 DEF OtherOK
    <3> QED
      BY <1>0, <3>1, <3>2, <3>3, <3>4
  <2>3. \A r \in Recipients :
          Fate(sendState[r])' = IF r \notin S THEN Fate(sendState[r])
                                ELSE IF copies[r] = 0 THEN "refused" ELSE "accepted"
    <3> SUFFICES ASSUME NEW r \in Recipients
                 PROVE  Fate(sendState[r])' = IF r \notin S THEN Fate(sendState[r])
                                              ELSE IF copies[r] = 0 THEN "refused" ELSE "accepted"
      OBVIOUS
    <3>1. CASE r \in x.hit
      BY <2>1, <2>2, <3>1 DEF Fate
    <3>2. CASE r \in S \ x.hit
      BY <2>1, <2>2, <3>2 DEF Fate
    <3>3. CASE r \notin S
      BY <2>1, <2>2, <3>3 DEF Fate
    <3> QED
      BY <3>1, <3>2, <3>3
  <2>4. S \subseteq Promise!Having({"claimed"})
    BY <1>0, <2>2, ReadFates
  <2>5. Promise!Settle(S)
    BY <2>1, <2>3, <2>4 DEF Promise!Settle
  <2> QED
    BY <1>0, <2>5 DEF Promise!Next
<1>3. CASE FailBatch(w)
  <2> DEFINE S == {r \in Recipients : sendBatch[r] = x.batch}
  <2>1. PICK f \in {"TEMPORARY_FAILED", "MANUAL_REVIEW", "PERMANENT_FAILED"} : SetState(S, f)
    BY <1>3 DEF FailBatch
  <2>2. x.pc = "failing" /\ copies' = copies
    BY <1>3 DEF FailBatch, mail
  <2>3. \A r \in S : copies[r] = 0
    BY <1>0, <2>2 DEF UnsentOK
  <2>4. \A r \in S : sendState[r] \in {"SENDING", "SUPPRESSED"}
    <3>1. x.batch \in Batches /\ batchStatus[x.batch] = "SUBMITTING"
      BY <1>0, <2>2 DEF FrozenOK, Working, InFlight
    <3>2. None \notin Batches
      BY DeliveryAssumption
    <3> QED
      BY <3>1, <3>2, MembersAtWork
  <2>5. S \in SUBSET Recipients
    OBVIOUS
  <2> HIDE DEF S
  <2>6. Promise!Becomes(S, Fate(f))
    BY <2>1, WriteIsBecoming
  <2>7. S \subseteq Promise!Having({"claimed", "suppressed"}) \cap Promise!Unsent
    BY <2>3, <2>4, <2>5, ReadFates
  <2>8. Promise!GiveUp(S, Fate(f)) /\ Fate(f) \in {"waiting", "refused", "review"}
    BY <2>2, <2>6, <2>7, FateOf DEF Promise!GiveUp
  <2> QED
    BY <2>5, <2>8 DEF Promise!Next
<1> QED
  BY <1>1, <1>2, <1>3

LEMMA StepMails ==
  ASSUME Clean
  PROVE  TypeInv /\ Frozen /\ SentOnce /\ Unsent /\ AnswersAreSent /\ RowsAgree /\ [Next]_vars
           => [Promise!Next]_(Promise!vars)
<1>1. UNCHANGED vars => UNCHANGED <<sendState, copies>>
  BY DEF vars, db, mail
<1> QED
  BY <1>1, NothingMailed, EnvironmentMails, WritersOfMail, ChoosersSendNothing, ChoosingMails, CallMails DEF Next

\* What the refinement rests on, without the hypotheses of each part.
MailingInv == TypeInv /\ Frozen /\ SentOnce /\ Unsent /\ AnswersAreSent /\ RowsAgree

LEMMA MailingInvariant ==
  ASSUME Clean
  PROVE  Spec => []MailingInv
<1>1. Calm
  BY Zenon DEF Clean
<1>2. Init => SentOnce /\ Unsent /\ AnswersAreSent
  <2> SUFFICES ASSUME Init PROVE SentOnce /\ Unsent /\ AnswersAreSent
    OBVIOUS
  <2>1. \A w \in Workers : run[w].pc = "idle"
    BY DEF Init, Idle
  <2> QED
    BY <2>1 DEF Init, SentOnce, Unsent, UnsentOK, AnswersAreSent
<1>3. MailingInv <=> TypeInv /\ Frozen /\ SentOnce /\ Unsent /\ AnswersAreSent /\ RowsAgree
  BY DEF MailingInv
<1>4. Spec => []RowsAgree /\ []Frozen /\ []Covered
  BY <1>1, RowsFollowBatches, FrozenInvariant, CoveredInvariant, PTL
<1> QED
  BY <1>1, <1>2, <1>3, <1>4, StepUnsent, StepSentOnce, StepAnswersAreSent, HolderInvariant, JobsInvariant,
     TypeInvariant, PTL DEF Spec, Calm

\* Delivery keeps the promise of Mailing, through batches, retries, refusals,
\* suppressions, commands, deaths of workers and expired keys: a message
\* leaves only for a recipient who is claimed and has been sent none, and the
\* outcome on record is what became of it.
THEOREM DeliveryIsMailing ==
  ASSUME Clean
  PROVE  Spec => ImplementsMailing
<1>1. Init => Promise!Init
  BY DEF Init, Promise!Init, Fate
<1>2. MailingInv /\ [Next]_vars => [Promise!Next]_(Promise!vars)
  BY StepMails DEF MailingInv
<1> QED
  BY <1>1, <1>2, MailingInvariant, PTL DEF Spec, ImplementsMailing, Promise!Spec

\* The record is honest in Mailing, and so it is in Delivery: who is ACCEPTED
\* was sent one message; who waits, was refused, suppressed, cancelled or put
\* in review was sent none.
THEOREM RecordHonest ==
  ASSUME Clean
  PROVE  Spec => []Promise!Honest
<1>1. Promise!Init => Promise!Honest
  BY DEF Promise!Init, Promise!Honest
<1>2. Promise!Honest /\ [Promise!Next]_(Promise!vars) => Promise!Honest'
  <2> DEFINE fate == [r \in Recipients |-> Fate(sendState[r])]
             HonestFor(f, n) == /\ n \in {0, 1} /\ (f = "accepted" => n = 1)
                                /\ (f \notin {"accepted", "claimed"} => n = 0)
  <2> SUFFICES ASSUME Promise!Honest, [Promise!Next]_(Promise!vars), NEW r \in Recipients
               PROVE  HonestFor(fate'[r], copies'[r])
    BY DEF Promise!Honest
  <2>0. HonestFor(fate[r], copies[r])
    BY DEF Promise!Honest
  <2>1. CASE UNCHANGED Promise!vars
    BY <2>0, <2>1 DEF Promise!vars
  <2>2. ASSUME NEW S \in SUBSET Recipients, NEW f, f # "accepted", Promise!Becomes(S, f), UNCHANGED copies,
               r \in S /\ f # "claimed" => copies[r] = 0
        PROVE  HonestFor(fate'[r], copies'[r])
    BY <2>0, <2>2 DEF Promise!Becomes
  <2>3. ASSUME NEW S \in SUBSET Recipients,
               \/ Promise!Claim(S) \/ Promise!Suppress(S) \/ Promise!Cancel(S)
               \/ \E f \in {"waiting", "refused", "review"} : Promise!GiveUp(S, f)
        PROVE  HonestFor(fate'[r], copies'[r])
    BY <2>0, <2>2, <2>3 DEF Promise!Claim, Promise!Suppress, Promise!Cancel, Promise!GiveUp, Promise!Having, Promise!Unsent
  <2>4. ASSUME NEW S \in SUBSET Recipients, Promise!Deliver(S)
        PROVE  HonestFor(fate'[r], copies'[r])
    <3>1. fate'[r] = fate[r] /\ copies'[r] = IF r \in S THEN copies[r] + 1 ELSE copies[r]
      BY <2>4 DEF Promise!Deliver
    <3>2. r \in S => fate[r] = "claimed" /\ copies[r] = 0
      BY <2>4 DEF Promise!Deliver, Promise!Having, Promise!Unsent
    <3> HIDE DEF fate
    <3> QED
      BY <2>0, <3>1, <3>2
  <2>5. ASSUME NEW S \in SUBSET Recipients, Promise!Settle(S)
        PROVE  HonestFor(fate'[r], copies'[r])
    BY <2>0, <2>5 DEF Promise!Settle, Promise!Having
  <2> QED
    BY <2>1, <2>3, <2>4, <2>5 DEF Promise!Next
<1> QED
  BY <1>1, <1>2, DeliveryIsMailing, PTL DEF ImplementsMailing, Promise!Spec
=============================================================================
