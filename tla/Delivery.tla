------------------------------ MODULE Delivery ------------------------------
(***************************************************************************)
(* One campaign being delivered: modules/delivery/service.ts, the          *)
(* reservation in db/rawQueries.ts, the pause / resume / cancel commands   *)
(* of modules/campaigns/service.ts and the writes of suppressions, over    *)
(* shared PostgreSQL rows.  A worker executes one dispatch job at a time;  *)
(* every statement or transaction of the code is one action, and between   *)
(* two of them other workers and the Web process interleave.               *)
(*                                                                         *)
(* Time is abstract: a pending job may run at any moment, the sender slot  *)
(* frees eventually, one sender-local day.  Job rows are kept as the set   *)
(* `wake` of pending unique keys; JobQueue models their life in detail.    *)
(***************************************************************************)
EXTENDS Integers, FiniteSets, FiniteSetsExt, Retry

CONSTANTS
  Recipients, Workers, None,
  MaxBatches,      \* ids the model has for send_batches rows
  Limit,           \* effectiveDailyLimit of the sender, or None (unlimited)
  BatchSize,       \* min(100, sender.batchSize)
  MaxTries,        \* 4 in the code
  Paced,           \* whether minBatchIntervalSeconds lets anything happen meanwhile
  ProviderErrors,  \* [status, code, timedOut]: what sendBatch may throw
  Ambiguous,       \* the errors after which the messages may have gone out
  Events,          \* the kinds of environment event an instance has
  MaxEvents        \* and how many of them happen in one behaviour

Batches == 1 .. MaxBatches
EventKinds == {"provider error", "commit error", "stats error", "command", "guard", "suppression",
               "hold", "abort", "lease loss", "expiry"}

ASSUME DeliveryAssumption ==
  /\ None \notin Recipients \cup Workers \cup Batches
  /\ IsFiniteSet(Recipients)
  /\ MaxBatches \in Nat /\ MaxTries \in Nat \ {0} /\ BatchSize \in Nat \ {0}
  /\ Limit \in Nat \/ Limit = None
  /\ Paced \in BOOLEAN
  /\ ProviderErrors \subseteq [status : Nat, code : STRING, timedOut : BOOLEAN]
  /\ Ambiguous \subseteq ProviderErrors
  /\ Events \subseteq EventKinds /\ MaxEvents \in Nat

VARIABLES
  campaign,    \* campaigns.status
  verified,    \* sender_profiles.verification_status = VERIFIED
  sendState, sendBatch,       \* campaign_recipients.send_state, send_batch_id
  suppressed,                 \* addresses with an active suppressions row
  batchStatus, batchTries,    \* send_batches.status, attempt_count
  usage,       \* sender_daily_usage of the day
  wake,        \* dispatch jobs waiting to run
  gate,        \* delivery enabled, not paused globally, inside the window
  slotFree,    \* sender_profiles.next_batch_at has passed
  run,         \* run[w]: the local state of the job worker w executes
  stored,      \* provider: key -> accepted recipients, or None
  copies,      \* provider: messages accepted for delivery, per recipient
  expired,     \* batches whose 24 h idempotency window is over
  spent        \* how many environment events there have been

db   == <<campaign, verified, sendState, sendBatch, suppressed, batchStatus, batchTries, usage, wake>>
mail == <<stored, copies, expired>>
env  == <<gate, slotFree, spent>>
vars == <<db, mail, env, run>>

-----------------------------------------------------------------------------
Unfinished == {"PENDING", "RESERVED", "SENDING", "TEMPORARY_FAILED"}
SendStates == Unfinished \cup
  {"ACCEPTED", "PERMANENT_FAILED", "SUPPRESSED", "CANCELLED", "MANUAL_REVIEW"}
BatchStates == {"ABSENT", "PREPARING", "SUBMITTING", "ACCEPTED", "PARTIAL",
                "TEMPORARY_FAILED", "PERMANENT_FAILED", "MANUAL_REVIEW"}
Statuses == {"QUEUED", "SENDING", "PAUSED", "CANCELLED", "COMPLETED"}
Stopped == {"PAUSED", "CANCELLED", "COMPLETED"}

\* Unique keys of dispatch jobs: the kind, and the batch the key names.
Wakes == ({"first", "resume", "hold", "quota", "slot"} \X {None})
         \cup ({"next", "retry", "slot"} \X Batches)
\* payload.sendBatchId: a `next-<batch>` job is campaign-level.
PayloadBatch(t) == IF t[1] \in {"retry", "slot"} THEN t[2] ELSE None

Steps == {"idle", "loaded", "retrying", "marking", "screening", "reserving",
          "checking", "blocking", "preparing", "submitting", "finishing",
          "failing", "rescheduling", "chaining", "counting", "completing"}
\* The batch has been handed to this worker's provider call.
InFlight == {"submitting", "finishing", "failing"}

Idle == [pc |-> "idle", job |-> None, batch |-> None, recips |-> {},
         hit |-> {}, failure |-> None, barred |-> {}, owned |-> FALSE]

Event(kind) == kind \in Events /\ spent < MaxEvents /\ spent' = spent + 1

TypeOK ==
  /\ campaign \in Statuses /\ verified \in BOOLEAN
  /\ sendState \in [Recipients -> SendStates]
  /\ sendBatch \in [Recipients -> Batches \cup {None}]
  /\ suppressed \subseteq Recipients
  /\ batchStatus \in [Batches -> BatchStates]
  /\ batchTries \in [Batches -> 0 .. MaxTries]
  /\ usage \in [reserved : Nat, accepted : Nat, released : Nat]
  /\ wake \subseteq Wakes
  /\ gate \in BOOLEAN /\ slotFree \in BOOLEAN
  /\ run \in [Workers -> [pc : Steps, job : Wakes \cup {None}, batch : Batches \cup {None},
                          recips : SUBSET Recipients, hit : SUBSET Recipients,
                          failure : {"temporary", "permanent", "uncertain", None},
                          barred : SUBSET Recipients, owned : BOOLEAN]]
  /\ stored \in [Batches -> (SUBSET Recipients) \cup {None}]
  /\ copies \in [Recipients -> Nat]
  /\ expired \subseteq Batches
  /\ spent \in 0 .. MaxEvents

\* After snapshotCampaign: the recipients are frozen and one job is queued.
Init ==
  /\ campaign = "QUEUED" /\ verified = TRUE
  /\ sendState = [r \in Recipients |-> "PENDING"]
  /\ sendBatch = [r \in Recipients |-> None]
  /\ suppressed = {}
  /\ batchStatus = [b \in Batches |-> "ABSENT"]
  /\ batchTries = [b \in Batches |-> 0]
  /\ usage = [reserved |-> 0, accepted |-> 0, released |-> 0]
  /\ wake = {<<"first", None>>}
  /\ gate = TRUE /\ slotFree = TRUE
  /\ run = [w \in Workers |-> Idle]
  /\ stored = [b \in Batches |-> None]
  /\ copies = [r \in Recipients |-> 0]
  /\ expired = {}
  /\ spent = 0

At(w, step) == run[w].pc = step
Goto(w, step) == run' = [run EXCEPT ![w].pc = step]
Finished(w) == run' = [run EXCEPT ![w] = Idle]

SetState(S, state) == sendState' = [r \in Recipients |-> IF r \in S THEN state ELSE sendState[r]]
InState(states) == {r \in Recipients : sendState[r] \in states}

-----------------------------------------------------------------------------
(* dispatchCampaign, up to the choice between one batch and the campaign. *)

\* claimDueJob, then loadCampaign outside any transaction: the status that
\* decides whether to go on is not locked.
Claim(w, t) ==
  /\ At(w, "idle") /\ t \in wake
  /\ wake' = wake \ {t}
  /\ IF campaign \in Stopped THEN UNCHANGED run
     ELSE run' = [run EXCEPT ![w] = [Idle EXCEPT !.pc = "loaded", !.job = t,
                                       !.barred = suppressed, !.owned = TRUE]]
  /\ UNCHANGED <<campaign, verified, sendState, sendBatch, suppressed, batchStatus,
                 batchTries, usage, mail, env>>

\* Disabled, globally paused, recovering or outside the window: a new job
\* later.  Its payload is the campaign alone, also when the held job was the
\* retry of one batch.
Hold(w) ==
  /\ At(w, "loaded") /\ ~gate
  /\ wake' = wake \cup {<<"hold", None>>}
  /\ Finished(w)
  /\ UNCHANGED <<campaign, verified, sendState, sendBatch, suppressed, batchStatus,
                 batchTries, usage, mail, env>>

\* claimSenderDeliverySlot refuses: the same payload again at next_batch_at.
SlotDenied(w) ==
  /\ At(w, "loaded") /\ gate /\ ~slotFree
  /\ wake' = wake \cup {<<"slot", PayloadBatch(run[w].job)>>}
  /\ Finished(w)
  /\ UNCHANGED <<campaign, verified, sendState, sendBatch, suppressed, batchStatus,
                 batchTries, usage, mail, env>>

SlotTaken(w) ==
  /\ At(w, "loaded") /\ gate /\ slotFree
  /\ slotFree' = ~Paced
  /\ Goto(w, IF PayloadBatch(run[w].job) = None THEN "marking" ELSE "retrying")
  /\ UNCHANGED <<db, mail, gate, spent>>

-----------------------------------------------------------------------------
(* executeReservedBatch *)

ClaimReservedBatch(w) ==
  LET b == PayloadBatch(run[w].job)
      revived == IF batchStatus[b] = "TEMPORARY_FAILED"
                 THEN {r \in InState({"TEMPORARY_FAILED"}) : sendBatch[r] = b} ELSE {}
      recips == {r \in Recipients : sendBatch[r] = b /\ (sendState[r] = "SENDING" \/ r \in revived)}
  IN
  /\ At(w, "retrying")
  /\ IF campaign \in Stopped \/ ~verified \/ batchStatus[b] \notin {"TEMPORARY_FAILED", "PREPARING"}
     THEN Finished(w) /\ UNCHANGED <<batchStatus, sendState>>
     ELSE /\ batchStatus' = [batchStatus EXCEPT ![b] = "PREPARING"]
          /\ SetState(revived, "SENDING")
          /\ run' = [run EXCEPT ![w] =
               IF recips = {} THEN Idle
               ELSE [@ EXCEPT !.pc = "checking", !.batch = b, !.recips = recips]]
  /\ UNCHANGED <<campaign, verified, sendBatch, suppressed, batchTries, usage, wake, mail, env>>

-----------------------------------------------------------------------------
(* dispatchCampaign, campaign level. *)

\* UPDATE campaigns SET status = SENDING, by id alone.
MarkSending(w) ==
  /\ At(w, "marking")
  /\ campaign' = "SENDING"
  /\ Goto(w, "screening")
  /\ UNCHANGED <<verified, sendState, sendBatch, suppressed, batchStatus, batchTries,
                 usage, wake, mail, env>>

SuppressPending(w) ==
  /\ At(w, "screening")
  /\ SetState(InState({"PENDING"}) \cap suppressed, "SUPPRESSED")
  /\ Goto(w, "reserving")
  /\ UNCHANGED <<campaign, verified, sendBatch, suppressed, batchStatus, batchTries,
                 usage, wake, mail, env>>

Smaller(m, n) == IF m < n THEN m ELSE n
AllowedIgnoringReserved ==
  IF Limit = None THEN BatchSize
  ELSE Smaller(BatchSize, IF usage.accepted < Limit THEN Limit - usage.accepted ELSE 0)
\* What the locked usage row leaves for this batch.
Allowed ==
  LET used == usage.accepted + usage.reserved
  IN  IF Limit = None THEN BatchSize
      ELSE Smaller(BatchSize, IF used < Limit THEN Limit - used ELSE 0)

CandidatesInFlight == InState({"PENDING", "SENDING", "TEMPORARY_FAILED"}) \ suppressed
\* A recipient waiting for the retry of its batch is a candidate too:
\* next_attempt_at of a recipient is never set.
Candidates == InState({"PENDING", "TEMPORARY_FAILED"}) \ suppressed

\* reserveCampaignRecipients: one serializable transaction.
Reserve(w) ==
  /\ At(w, "reserving")
  /\ IF Allowed = 0 \/ Candidates = {}
     THEN /\ Goto(w, "counting")
          /\ UNCHANGED <<sendState, sendBatch, batchStatus, usage>>
     ELSE \E S \in kSubset(Smaller(Allowed, Cardinality(Candidates)), Candidates) :
          \E b \in {c \in Batches : /\ batchStatus[c] = "ABSENT"
                                    /\ \A d \in 1 .. c - 1 : batchStatus[d] # "ABSENT"} :
            /\ usage' = [usage EXCEPT !.reserved = @ + Cardinality(S)]
            /\ batchStatus' = [batchStatus EXCEPT ![b] = "PREPARING"]
            /\ SetState(S, "SENDING")
            /\ sendBatch' = [r \in Recipients |-> IF r \in S THEN b ELSE sendBatch[r]]
            /\ run' = [run EXCEPT ![w].pc = "checking", ![w].batch = b, ![w].recips = S]
  /\ UNCHANGED <<campaign, verified, suppressed, batchTries, wake, mail, env>>

-----------------------------------------------------------------------------
(* executeBatch *)

\* Where control goes when executeBatch returns.
Return(w) ==
  run' = [run EXCEPT ![w] =
    IF PayloadBatch(@.job) # None THEN Idle
    ELSE [@ EXCEPT !.pc = "chaining", !.recips = {}, !.hit = {}, !.failure = None, !.barred = {}]]

SuppressedUnread(w) == {}
SuppressedNow(w) == run[w].recips \cap suppressed

\* The last look at the suppression list, read outside any transaction.
CheckSuppression(w) ==
  /\ At(w, "checking")
  /\ LET hit == SuppressedNow(w)
     IN  run' = [run EXCEPT ![w].hit = hit, ![w].pc = IF hit = {} THEN "preparing" ELSE "blocking"]
  /\ UNCHANGED <<db, mail, env>>

\* The transaction over the recipients that look found.  It guards neither
\* the batch's status nor the recipients' states.  The column's CHECK keeps
\* reserved_count from going below zero: the transaction then throws.
Block(w) ==
  LET hit == run[w].hit
      left == run[w].recips \ hit
      b == run[w].batch
  IN
  /\ At(w, "blocking")
  /\ usage.reserved >= Cardinality(hit)
  /\ SetState(hit, "SUPPRESSED")
  /\ usage' = [usage EXCEPT !.reserved = @ - Cardinality(hit), !.released = @ + Cardinality(hit)]
  /\ IF left = {}
     THEN /\ batchStatus' = [batchStatus EXCEPT ![b] = "PERMANENT_FAILED"]
          /\ UNCHANGED sendBatch
          /\ Return(w)
     ELSE /\ sendBatch' = [r \in Recipients |-> IF r \in hit THEN None ELSE sendBatch[r]]
          /\ run' = [run EXCEPT ![w].recips = left, ![w].hit = {}, ![w].pc = "preparing"]
          /\ UNCHANGED batchStatus
  /\ UNCHANGED <<campaign, verified, suppressed, batchTries, wake, mail, env>>

PrepareUnguarded(w) ==
  LET b == run[w].batch
  IN
  /\ At(w, "preparing")
  /\ batchStatus' = [batchStatus EXCEPT ![b] = "SUBMITTING"]
  /\ batchTries' = [batchTries EXCEPT ![b] = Smaller(@ + 1, MaxTries)]
  /\ Goto(w, "submitting")
  /\ UNCHANGED <<campaign, verified, sendState, sendBatch, suppressed, usage, wake, mail, env>>

\* Only a PREPARING batch, locked, becomes SUBMITTING; the attempt is on
\* record before the provider is called.
PrepareAttempt(w) ==
  LET b == run[w].batch
  IN
  /\ At(w, "preparing")
  /\ IF batchStatus[b] = "PREPARING"
     THEN /\ batchStatus' = [batchStatus EXCEPT ![b] = "SUBMITTING"]
          /\ batchTries' = [batchTries EXCEPT ![b] = @ + 1]
          /\ Goto(w, "submitting")
     ELSE Return(w) /\ UNCHANGED <<batchStatus, batchTries>>
  /\ UNCHANGED <<campaign, verified, sendState, sendBatch, suppressed, usage, wake, mail, env>>

\* The provider accepts some of the messages under the batch's key.  A key it
\* remembers is a replay: the first answer again, and nothing is sent.
ProviderTakes(b, recips, A) ==
  IF stored[b] # None
  THEN A = stored[b] \cap recips /\ UNCHANGED <<stored, copies>>
  ELSE /\ A \subseteq recips
       /\ stored' = [stored EXCEPT ![b] = A]
       /\ copies' = [r \in Recipients |-> IF r \in A THEN copies[r] + 1 ELSE copies[r]]

SubmitAnswered(w) ==
  /\ At(w, "submitting")
  /\ \E A \in SUBSET run[w].recips :
       /\ ProviderTakes(run[w].batch, run[w].recips, A)
       /\ run' = [run EXCEPT ![w].pc = "finishing", ![w].hit = A, ![w].barred = {}]
  /\ UNCHANGED <<db, expired, env>>

\* sendBatch throws.  After an ambiguous error the messages may be out.
SubmitThrows(w, e) ==
  /\ At(w, "submitting") /\ Event("provider error")
  /\ \/ UNCHANGED <<stored, copies>>
     \/ e \in Ambiguous /\ ProviderTakes(run[w].batch, run[w].recips, run[w].recips)
  /\ run' = [run EXCEPT ![w].pc = "failing", ![w].barred = {},
               ![w].failure = classifyProviderFailure(e.status, e.code, e.timedOut)]
  /\ UNCHANGED <<db, expired, gate, slotFree>>

AcceptedAll(w) == run[w].recips
AcceptedItems(w) == run[w].hit

\* The transaction of finishBatch, from the answer the provider gave.
CommitResult(w) ==
  LET accepted == AcceptedItems(w)
      refused == run[w].recips \ accepted
      b == run[w].batch
  IN
  /\ At(w, "finishing")
  /\ usage.reserved >= Cardinality(run[w].recips)
  /\ sendState' = [r \in Recipients |-> IF r \in accepted THEN "ACCEPTED"
                                        ELSE IF r \in refused THEN "PERMANENT_FAILED"
                                        ELSE sendState[r]]
  /\ usage' = [reserved |-> usage.reserved - Cardinality(run[w].recips),
               accepted |-> usage.accepted + Cardinality(accepted),
               released |-> usage.released + Cardinality(refused)]
  /\ batchStatus' = [batchStatus EXCEPT ![b] =
       IF refused = {} THEN "ACCEPTED" ELSE IF accepted = {} THEN "PERMANENT_FAILED" ELSE "PARTIAL"]
  /\ UNCHANGED <<campaign, verified, sendBatch, suppressed, batchTries, wake, mail>>

Finish(w) == CommitResult(w) /\ Return(w) /\ UNCHANGED env

\* An error of the database on the way lands in the catch block of the
\* provider call, as an error without a status.
Misread(w) ==
  run' = [run EXCEPT ![w].pc = "failing", ![w].hit = {},
            ![w].failure = classifyProviderFailure(NoStatus, "", FALSE)]

FinishThrows(w) ==
  /\ At(w, "finishing")
  /\ \/ usage.reserved < Cardinality(run[w].recips) /\ UNCHANGED spent
     \/ Event("commit error")
  /\ Misread(w)
  /\ UNCHANGED <<db, mail, gate, slotFree>>

\* So does an error of recomputeCampaignStats, after the transaction.
StatsThrow(w) ==
  /\ Event("stats error")
  /\ CommitResult(w)
  /\ Misread(w)
  /\ UNCHANGED <<gate, slotFree>>

Retryable(w) ==
  run[w].failure = "temporary"
    /\ canRetry(batchTries[run[w].batch], MaxTries, run[w].batch \notin expired)

\* The catch block's transaction: the batch and all its recipients, whatever
\* state they are in.
FailBatch(w) ==
  LET b == run[w].batch
      n == Cardinality(run[w].recips)
      status == IF Retryable(w) THEN "TEMPORARY_FAILED"
                ELSE IF run[w].failure = "uncertain" THEN "MANUAL_REVIEW"
                ELSE "PERMANENT_FAILED"
      final == status = "PERMANENT_FAILED"
  IN
  /\ At(w, "failing")
  /\ final => usage.reserved >= n
  /\ batchStatus' = [batchStatus EXCEPT ![b] = status]
  /\ SetState({r \in Recipients : sendBatch[r] = b}, status)
  /\ usage' = IF final THEN [usage EXCEPT !.reserved = @ - n, !.released = @ + n] ELSE usage
  /\ IF Retryable(w) THEN Goto(w, "rescheduling") ELSE Return(w)
  /\ UNCHANGED <<campaign, verified, sendBatch, suppressed, batchTries, wake, mail, env>>

\* A transaction of executeBatch that would take reserved_count below zero
\* throws, the handler with it, and the job runs again.
CheckViolated(w) ==
  /\ \/ At(w, "blocking") /\ usage.reserved < Cardinality(run[w].hit)
     \/ /\ At(w, "failing") /\ usage.reserved < Cardinality(run[w].recips)
        /\ ~Retryable(w) /\ run[w].failure # "uncertain"
  /\ wake' = IF run[w].owned THEN wake \cup {run[w].job} ELSE wake
  /\ Finished(w)
  /\ UNCHANGED <<campaign, verified, sendState, sendBatch, suppressed, batchStatus,
                 batchTries, usage, mail, env>>

\* retry-<batch>-<attempt>, after that transaction.
ScheduleRetry(w) ==
  /\ At(w, "rescheduling")
  /\ wake' = wake \cup {<<"retry", run[w].batch>>}
  /\ Return(w)
  /\ UNCHANGED <<campaign, verified, sendState, sendBatch, suppressed, batchStatus,
                 batchTries, usage, mail, env>>

-----------------------------------------------------------------------------
(* dispatchCampaign, after the batch. *)

NextForgotten(w) == {}
NextJob(w) == {<<"next", run[w].batch>>}

ScheduleNext(w) ==
  /\ At(w, "chaining")
  /\ wake' = wake \cup NextJob(w)
  /\ Goto(w, "counting")
  /\ UNCHANGED <<campaign, verified, sendState, sendBatch, suppressed, batchStatus,
                 batchTries, usage, mail, env>>

Remaining == InState(Unfinished)

\* The count of unfinished recipients; without a batch of its own the job
\* comes back through the quota key.
CountRemaining(w) ==
  /\ At(w, "counting")
  /\ IF Remaining = {} THEN Goto(w, "completing") /\ UNCHANGED wake
     ELSE /\ wake' = IF run[w].batch = None THEN wake \cup {<<"quota", None>>} ELSE wake
          /\ Finished(w)
  /\ UNCHANGED <<campaign, verified, sendState, sendBatch, suppressed, batchStatus,
                 batchTries, usage, mail, env>>

\* UPDATE campaigns SET status = COMPLETED, by id alone.
CompleteCampaign(w) ==
  /\ At(w, "completing")
  /\ campaign' = "COMPLETED"
  /\ Finished(w)
  /\ UNCHANGED <<verified, sendState, sendBatch, suppressed, batchStatus, batchTries,
                 usage, wake, mail, env>>

-----------------------------------------------------------------------------
(* The Web process, webhooks and the deliverability guard. *)

Pause ==
  /\ Event("command") /\ campaign = "SENDING"
  /\ campaign' = "PAUSED"
  /\ UNCHANGED <<verified, sendState, sendBatch, suppressed, batchStatus, batchTries,
                 usage, wake, mail, gate, slotFree, run>>

ResumeSilently ==
  /\ Event("command") /\ campaign \in {"QUEUED", "PAUSED"}
  /\ campaign' = "SENDING"
  /\ UNCHANGED <<verified, sendState, sendBatch, suppressed, batchStatus, batchTries,
                 usage, wake, mail, gate, slotFree, run>>

\* The transition table lets SENDING follow QUEUED as well, so a campaign that
\* waits for its first dispatch may be resumed.  The resume job is armed in the
\* same transaction.
Resume ==
  /\ Event("command") /\ campaign \in {"QUEUED", "PAUSED"}
  /\ campaign' = "SENDING"
  /\ wake' = wake \cup {<<"resume", None>>}
  /\ UNCHANGED <<verified, sendState, sendBatch, suppressed, batchStatus, batchTries,
                 usage, mail, gate, slotFree, run>>

CancellableWithSending == InState(Unfinished)
Cancellable == InState({"PENDING", "TEMPORARY_FAILED", "RESERVED"})

\* Batches waiting for a retry are closed, one after the other in no stated
\* order.  Each gives back the reservation of its recipients, unless
\* reserved_count no longer covers them: `covered` are those that did.
Cancel ==
  LET waiting == {b \in Batches : batchStatus[b] = "TEMPORARY_FAILED"}
      members(B) == Cardinality({r \in InState({"TEMPORARY_FAILED"}) : sendBatch[r] \in B})
  IN
  /\ Event("command") /\ campaign \in {"QUEUED", "SENDING", "PAUSED"}
  /\ campaign' = "CANCELLED"
  /\ batchStatus' = [b \in Batches |-> IF b \in waiting THEN "PERMANENT_FAILED" ELSE batchStatus[b]]
  /\ SetState(Cancellable, "CANCELLED")
  /\ \E covered \in SUBSET waiting :
       /\ usage.reserved >= members(covered)
       /\ \A b \in waiting \ covered : usage.reserved < members(covered) + members({b})
       /\ usage' = [usage EXCEPT !.reserved = @ - members(covered), !.released = @ + members(covered)]
  /\ UNCHANGED <<verified, sendBatch, suppressed, batchTries, wake, mail, gate, slotFree, run>>

\* upsertSuppression for an address; unsubscribeByToken also takes the
\* address out of every campaign it is still waiting in.
Suppress(r, unsubscribe) ==
  /\ Event("suppression") /\ r \notin suppressed
  /\ suppressed' = suppressed \cup {r}
  /\ SetState(IF unsubscribe THEN {r} \cap InState({"PENDING", "RESERVED", "TEMPORARY_FAILED"}) ELSE {},
              "SUPPRESSED")
  /\ UNCHANGED <<campaign, verified, sendBatch, batchStatus, batchTries, usage, wake,
                 mail, gate, slotFree, run>>

\* recomputeCampaignStats found a complaint or bounce rate over its threshold.
GuardTrips ==
  /\ Event("guard") /\ \E r \in Recipients : copies[r] > 0
  /\ campaign' = IF campaign \in {"QUEUED", "SENDING"} THEN "PAUSED" ELSE campaign
  /\ verified' = FALSE
  /\ UNCHANGED <<sendState, sendBatch, suppressed, batchStatus, batchTries, usage, wake,
                 mail, gate, slotFree, run>>

-----------------------------------------------------------------------------
(* Time and failures. *)

CloseGate == Event("hold") /\ gate /\ gate' = FALSE /\ UNCHANGED <<db, mail, slotFree, run>>
OpenGate == ~gate /\ gate' = TRUE /\ UNCHANGED <<db, mail, slotFree, spent, run>>
SlotFrees == ~slotFree /\ slotFree' = TRUE /\ UNCHANGED <<db, mail, gate, spent, run>>

\* Twenty-four hours on, the provider forgets the key.
KeyExpires(b) ==
  /\ Event("expiry") /\ batchStatus[b] # "ABSENT" /\ b \notin expired
  /\ expired' = expired \cup {b}
  /\ stored' = [stored EXCEPT ![b] = None]
  /\ UNCHANGED <<db, copies, gate, slotFree, run>>

\* The process dies, or the handler throws: the job runs again from the top
\* unless another worker took it over meanwhile.
Abort(w) ==
  /\ ~At(w, "idle") /\ Event("abort")
  /\ wake' = IF run[w].owned THEN wake \cup {run[w].job} ELSE wake
  /\ Finished(w)
  /\ UNCHANGED <<campaign, verified, sendState, sendBatch, suppressed, batchStatus,
                 batchTries, usage, mail, gate, slotFree>>

\* The lease of a stalled worker runs out; the worker goes on, unaware.
LoseLease(w) ==
  /\ ~At(w, "idle") /\ run[w].owned /\ Event("lease loss")
  /\ wake' = wake \cup {run[w].job}
  /\ run' = [run EXCEPT ![w].owned = FALSE]
  /\ UNCHANGED <<campaign, verified, sendState, sendBatch, suppressed, batchStatus,
                 batchTries, usage, mail, gate, slotFree>>

-----------------------------------------------------------------------------
Work(w) ==
  \/ \E t \in Wakes : Claim(w, t)
  \/ Hold(w) \/ SlotDenied(w) \/ SlotTaken(w) \/ ClaimReservedBatch(w)
  \/ MarkSending(w) \/ SuppressPending(w) \/ Reserve(w)
  \/ CheckSuppression(w) \/ Block(w) \/ PrepareAttempt(w)
  \/ SubmitAnswered(w) \/ \E e \in ProviderErrors : SubmitThrows(w, e)
  \/ Finish(w) \/ FinishThrows(w) \/ StatsThrow(w) \/ FailBatch(w) \/ CheckViolated(w) \/ ScheduleRetry(w)
  \/ ScheduleNext(w) \/ CountRemaining(w) \/ CompleteCampaign(w)

Environment ==
  \/ Pause \/ Resume \/ Cancel \/ GuardTrips
  \/ \E r \in Recipients, u \in BOOLEAN : Suppress(r, u)
  \/ CloseGate \/ OpenGate \/ SlotFrees
  \/ \E b \in Batches : KeyExpires(b)
  \/ \E w \in Workers : Abort(w) \/ LoseLease(w)

Next == Environment \/ \E w \in Workers : Work(w)

Spec == Init /\ [][Next]_vars

\* Live workers go on; a due job is reached (the queue is ordered by run_at);
\* the pacing interval ends and the send window opens again.
Fairness ==
  /\ \A w \in Workers : WF_vars(Work(w))
  /\ SF_vars(\E w \in Workers, t \in Wakes : PayloadBatch(t) = None /\ Claim(w, t))
  /\ WF_vars(SlotFrees) /\ WF_vars(OpenGate)

FairSpec == Spec /\ Fairness

-----------------------------------------------------------------------------
(* Safety. *)

\* Two provider calls for one batch are never in progress at once, not even
\* when a stalled worker lost its lease and another one runs the same job:
\* the PREPARING -> SUBMITTING step under the batch's row lock decides.
SingleSubmitter ==
  \A v, w \in Workers :
    v # w /\ run[v].pc \in InFlight /\ run[w].pc \in InFlight => run[v].batch # run[w].batch

\* While a worker is at the provider, the recipients in its hands are still
\* SENDING members of its batch: nothing re-reserved, cancelled or moved them
\* behind its back, so that its result may be written by recipient id.
InFlightFrozen ==
  \A w \in Workers : run[w].pc \in InFlight =>
    \A r \in run[w].recips : sendState[r] = "SENDING" /\ sendBatch[r] = run[w].batch

\* "Suppression is checked ... immediately before provider submission": who
\* was suppressed when the job started is in none of its provider calls, on
\* the retry path too, where the recipients were chosen long before.
SuppressionRespected ==
  \A w \in Workers : At(w, "submitting") => run[w].recips \cap run[w].barred = {}

\* A recipient is ACCEPTED only if the provider has the message.
NoPhantomAcceptance ==
  \A r \in Recipients : sendState[r] = "ACCEPTED" => copies[r] > 0

\* Nobody is mailed twice.
NoDuplicateDelivery == \A r \in Recipients : copies[r] <= 1

\* The messages that are out, numbered per recipient.
Messages == UNION {{r} \X (1 .. copies[r]) : r \in Recipients}

\* The day's usage row covers every message that is out and never passes the
\* sender's limit, whatever is reserved, retried, refused or cancelled on the
\* way: neither do the messages.
DailyLimitHolds ==
  /\ Cardinality(Messages) <= usage.accepted + usage.reserved
  /\ Limit # None => usage.accepted + usage.reserved <= Limit

\* As long as a running campaign has somebody to send to, some job that goes
\* on with the campaign (not only with one batch) is waiting or being run.
WakeupNotLost ==
  campaign \in {"QUEUED", "SENDING"} /\ InState(Unfinished) # {} =>
    \/ \E t \in wake : PayloadBatch(t) = None
    \/ \E w \in Workers : ~At(w, "idle") /\ PayloadBatch(run[w].job) = None

\* CANCELLED and COMPLETED campaigns are not revived.
NeverRevived ==
  [][(campaign \in {"CANCELLED", "COMPLETED"}) => campaign' = campaign]_vars

\* What the states of a recipient's row amount to.
Fate(state) ==
  IF state \in {"PENDING", "RESERVED", "TEMPORARY_FAILED"} THEN "waiting"
  ELSE IF state = "SENDING" THEN "claimed"
  ELSE IF state = "ACCEPTED" THEN "accepted"
  ELSE IF state = "PERMANENT_FAILED" THEN "refused"
  ELSE IF state = "MANUAL_REVIEW" THEN "review"
  ELSE IF state = "SUPPRESSED" THEN "suppressed" ELSE "cancelled"
Promise == INSTANCE Mailing WITH
  fate <- [r \in Recipients |-> Fate(sendState[r])], sent <- copies

\* Delivery keeps the promise of Mailing: whatever batches, retries, commands
\* and crashes do, a message leaves only for a recipient who is SENDING and has
\* not been sent one, send_state says what became of it, and ACCEPTED,
\* PERMANENT_FAILED, MANUAL_REVIEW and CANCELLED are final.
ImplementsMailing == Promise!Spec

(* Liveness. *)

\* Delivery comes to an end: the campaign completes, or somebody stopped it.
DeliveryEnds == campaign \in {"QUEUED", "SENDING"} ~> campaign \in Stopped
=============================================================================
