---------------------------- MODULE ManualReview ----------------------------
(***************************************************************************)
(* Operators resolve batches whose outcome is uncertain                    *)
(* (modules/delivery/manualReview.ts), beside the delivery that fills and  *)
(* drains the same sender_daily_usage rows.  resolveManualReview is one    *)
(* Serializable transaction under the batch's row lock, so each resolution *)
(* is one action.  Of delivery only the transactions that touch the rows   *)
(* are here: whether the campaign's status, a suppression or the batch     *)
(* size lets a dispatch run, and for how many, is module Delivery's, so    *)
(* each may come or not, for any recipients it could be given.             *)
(***************************************************************************)
EXTENDS Integers, FiniteSets

CONSTANTS
  ReviewBatches,  \* send_batches of one campaign and sender
  Members,        \* campaign_recipients
  Unbatched,      \* no send_batch_id
  MaxDay,         \* sender-local days
  DayLimit,       \* the sender's effective daily limit
  MaxResolutions  \* bound on resolutions per batch

ASSUME ReviewAssumption ==
  /\ IsFiniteSet(Members) /\ Unbatched \notin ReviewBatches
  /\ MaxDay \in Nat \ {0} /\ DayLimit \in Nat /\ MaxResolutions \in Nat

VARIABLES
  batch,    \* send_batches: status, day of created_at, quota its reviews released
  member,   \* campaign_recipients.send_state
  holder,   \* campaign_recipients.send_batch_id
  ledger,   \* sender_daily_usage by local date
  today,
  stranded, \* history: by day, the reservations of recipients reserved again since
  tainted   \* history: a review met one of the two things it does not guard against

reviewVars == <<batch, member, holder, ledger, today, stranded, tainted>>

Days == 1 .. MaxDay
NoRow == [row |-> FALSE, reserved |-> 0, accepted |-> 0, released |-> 0]
NoBatch == [status |-> "ABSENT", day |-> 1, released |-> 0, reviews |-> 0]

ReviewTypeOK ==
  /\ batch \in [ReviewBatches ->
       [status : {"ABSENT", "SUBMITTING", "TEMPORARY_FAILED", "MANUAL_REVIEW", "ACCEPTED", "PARTIAL",
                  "PERMANENT_FAILED", "PREPARING"},
        day : Days, released : Nat, reviews : 0 .. MaxResolutions]]
  /\ member \in [Members -> {"PENDING", "SENDING", "TEMPORARY_FAILED", "MANUAL_REVIEW", "ACCEPTED",
                             "PERMANENT_FAILED"}]
  /\ holder \in [Members -> ReviewBatches \cup {Unbatched}]
  /\ ledger \in [Days -> [row : BOOLEAN, reserved : Nat, accepted : Nat, released : Nat]]
  /\ today \in Days /\ stranded \in [Days -> Nat] /\ tainted \in BOOLEAN

ReviewInit ==
  /\ batch = [b \in ReviewBatches |-> NoBatch]
  /\ member = [r \in Members |-> "PENDING"]
  /\ holder = [r \in Members |-> Unbatched]
  /\ ledger = [d \in Days |-> NoRow]
  /\ today = 1 /\ stranded = [d \in Days |-> 0] /\ tainted = FALSE

Of(b) == {r \in Members : holder[r] = b}
OfIn(b, state) == {r \in Of(b) : member[r] = state}
Turn(S, state) == member' = [r \in Members |-> IF r \in S THEN state ELSE member[r]]
BatchTurns(b, status) == batch' = [batch EXCEPT ![b].status = status]
FloorMissing(n) == n
Floor(n) == IF n > 0 THEN n ELSE 0

-----------------------------------------------------------------------------
(* Delivery. *)

OnDay(d) == {b \in ReviewBatches : batch[b].status # "ABSENT" /\ batch[b].day = d}

\* reserveCampaignRecipients takes whoever is PENDING, and whoever a refusal
\* or a safe retry left TEMPORARY_FAILED: it counts them again, and what was
\* reserved for them before stays on its day.
ReserveBatch(b, S) ==
  /\ batch[b].status = "ABSENT"
  /\ S # {} /\ \A r \in S : member[r] \in {"PENDING", "TEMPORARY_FAILED"}
  /\ ledger[today].reserved + ledger[today].accepted + Cardinality(S) <= DayLimit
  /\ batch' = [batch EXCEPT ![b].status = "SUBMITTING", ![b].day = today]
  /\ Turn(S, "SENDING")
  /\ holder' = [r \in Members |-> IF r \in S THEN b ELSE holder[r]]
  /\ ledger' = [ledger EXCEPT ![today].row = TRUE, ![today].reserved = @ + Cardinality(S)]
  /\ stranded' = [d \in Days |-> stranded[d] + Cardinality({r \in S : holder[r] \in OnDay(d)})]
  /\ UNCHANGED <<today, tainted>>
\* The row of the day is there even when there is nothing to reserve.
ReserveNothing ==
  /\ ledger' = [ledger EXCEPT ![today].row = TRUE]
  /\ UNCHANGED <<batch, member, holder, today, stranded, tainted>>

\* finishBatch settles on the day of the reservation.  The column's CHECK
\* throws the transaction when less is reserved than it gives back.
SettleDay(b, n, accepted) ==
  /\ ledger[batch[b].day].reserved >= n
  /\ ledger' = [ledger EXCEPT ![batch[b].day].reserved = @ - n, ![batch[b].day].accepted = @ + accepted,
                              ![batch[b].day].released = @ + (n - accepted)]

FinishBatch(b, A) ==
  LET sent == OfIn(b, "SENDING") IN
  /\ batch[b].status = "SUBMITTING"
  /\ A \subseteq sent
  /\ SettleDay(b, Cardinality(sent), Cardinality(A))
  /\ member' = [r \in Members |-> IF r \in A THEN "ACCEPTED"
                                  ELSE IF r \in sent THEN "PERMANENT_FAILED" ELSE member[r]]
  /\ BatchTurns(b, IF A = sent THEN "ACCEPTED" ELSE IF A = {} THEN "PERMANENT_FAILED" ELSE "PARTIAL")
  /\ UNCHANGED <<holder, today, stranded, tainted>>

\* The catch block writes every recipient of the batch, whatever it was.
LoseAnswer(b) ==
  /\ batch[b].status = "SUBMITTING"
  /\ BatchTurns(b, "MANUAL_REVIEW") /\ Turn(Of(b), "MANUAL_REVIEW")
  /\ UNCHANGED <<holder, ledger, today, stranded, tainted>>
RefuseForNow(b) ==
  /\ batch[b].status = "SUBMITTING"
  /\ BatchTurns(b, "TEMPORARY_FAILED") /\ Turn(Of(b), "TEMPORARY_FAILED")
  /\ UNCHANGED <<holder, ledger, today, stranded, tainted>>
RefuseForGood(b) ==
  /\ batch[b].status = "SUBMITTING"
  /\ SettleDay(b, Cardinality(OfIn(b, "SENDING")), 0)
  /\ BatchTurns(b, "PERMANENT_FAILED") /\ Turn(Of(b), "PERMANENT_FAILED")
  /\ UNCHANGED <<holder, today, stranded, tainted>>

\* executeReservedBatch takes up who is left in the batch; a batch whose
\* recipients were all reserved again stays PREPARING and sends nothing.
RetryBatch(b) ==
  LET left == OfIn(b, "TEMPORARY_FAILED") IN
  /\ batch[b].status = "TEMPORARY_FAILED"
  /\ BatchTurns(b, IF left = {} THEN "PREPARING" ELSE "SUBMITTING") /\ Turn(left, "SENDING")
  /\ UNCHANGED <<holder, ledger, today, stranded, tainted>>

Midnight ==
  /\ today < MaxDay
  /\ today' = today + 1
  /\ UNCHANGED <<batch, member, holder, ledger, stranded, tainted>>

-----------------------------------------------------------------------------
(* resolveManualReview *)

InReview(b) == OfIn(b, "MANUAL_REVIEW")
Reviewing(b) == batch[b].status = "MANUAL_REVIEW" /\ batch[b].reviews < MaxResolutions
Releasable(b) == Floor(Cardinality(InReview(b)) - batch[b].released)
AcceptedFromReleased(b, accepted) == IF batch[b].released < accepted THEN batch[b].released ELSE accepted

\* manual_review_resolutions: what this resolution released, net.
Resolves(b, status, net) ==
  batch' = [batch EXCEPT ![b].status = status, ![b].released = @ + net, ![b].reviews = @ + 1]

\* The UPDATEs name the sender and not the day.
OtherDays(b) == \E d \in Days : d # batch[b].day /\ ledger[d].row
Release(n) ==
  ledger' = [d \in Days |-> IF ledger[d].reserved > 0 /\ n > 0
               THEN [ledger[d] EXCEPT !.reserved = Floor(@ - n), !.released = @ + n] ELSE ledger[d]]
Accept(fromReserved, fromReleased) ==
  ledger' = [d \in Days |-> IF ledger[d].row
               THEN [ledger[d] EXCEPT !.reserved = Floor(@ - fromReserved), !.released = Floor(@ - fromReleased),
                                      !.accepted = @ + fromReserved + fromReleased]
               ELSE ledger[d]]

ReleaseQuotaAgain(b) ==
  /\ Reviewing(b)
  /\ Release(Cardinality(InReview(b)))
  /\ Resolves(b, "MANUAL_REVIEW", Cardinality(InReview(b)))
  /\ tainted' = (tainted \/ OtherDays(b))
  /\ UNCHANGED <<member, holder, today, stranded>>
ReleaseQuota(b) ==
  /\ Reviewing(b)
  /\ Release(Releasable(b))
  /\ Resolves(b, "MANUAL_REVIEW", Releasable(b))
  /\ tainted' = (tainted \/ OtherDays(b))
  /\ UNCHANGED <<member, holder, today, stranded>>

MarkNotSent(b) ==
  /\ Reviewing(b)
  /\ Release(Releasable(b))
  /\ Resolves(b, "PERMANENT_FAILED", Releasable(b))
  /\ Turn(InReview(b), "PERMANENT_FAILED")
  /\ tainted' = (tainted \/ OtherDays(b))
  /\ UNCHANGED <<holder, today, stranded>>

MarkAccepted(b) ==
  LET n == Cardinality(InReview(b))
      back == AcceptedFromReleased(b, n)
  IN
  /\ Reviewing(b)
  /\ Accept(n - back, back)
  /\ Resolves(b, "ACCEPTED", 0 - back)
  /\ Turn(InReview(b), "ACCEPTED")
  /\ tainted' = (tainted \/ OtherDays(b))
  /\ UNCHANGED <<holder, today, stranded>>

AttachProviderId(b, r) ==
  LET back == AcceptedFromReleased(b, 1) IN
  /\ Reviewing(b) /\ r \in InReview(b)
  /\ Accept(1 - back, back)
  /\ Resolves(b, IF InReview(b) = {r} THEN "ACCEPTED" ELSE "MANUAL_REVIEW", 0 - back)
  /\ Turn({r}, "ACCEPTED")
  /\ tainted' = (tainted \/ OtherDays(b))
  /\ UNCHANGED <<holder, today, stranded>>

\* The batch goes back to delivery as it is: nothing is reserved again for
\* what was released, and the recipients already attached stay in it.
SafeRetry(b) ==
  /\ Reviewing(b)
  /\ Resolves(b, "TEMPORARY_FAILED", 0)
  /\ Turn(InReview(b), "TEMPORARY_FAILED")
  /\ tainted' = (tainted \/ batch[b].released > 0 \/ InReview(b) # Of(b))
  /\ UNCHANGED <<holder, ledger, today, stranded>>

KeepInReview(b) ==
  /\ Reviewing(b) /\ Resolves(b, "MANUAL_REVIEW", 0)
  /\ UNCHANGED <<member, holder, ledger, today, stranded, tainted>>

ReviewNext ==
  \/ \E b \in ReviewBatches, S \in SUBSET Members : ReserveBatch(b, S)
  \/ ReserveNothing
  \/ \E b \in ReviewBatches : LoseAnswer(b) \/ RefuseForNow(b) \/ RefuseForGood(b)
                              \/ RetryBatch(b)
  \/ \E b \in ReviewBatches, A \in SUBSET Members : FinishBatch(b, A)
  \/ Midnight
  \/ \E b \in ReviewBatches : ReleaseQuota(b) \/ MarkNotSent(b) \/ MarkAccepted(b) \/ SafeRetry(b)
                              \/ KeepInReview(b)
  \/ \E b \in ReviewBatches, r \in Members : AttachProviderId(b, r)
ReviewSpec == ReviewInit /\ [][ReviewNext]_reviewVars

-----------------------------------------------------------------------------
OnDayIn(d, states) == {r \in Members : holder[r] \in OnDay(d) /\ member[r] \in states}
\* What the batches in review released, numbered per batch.
ReleasedInReview(d) ==
  UNION {{b} \X (1 .. batch[b].released) : b \in {x \in OnDay(d) : batch[x].status = "MANUAL_REVIEW"}}

\* However often a batch is refused, reserved again, released, attached to
\* and resolved, each day's row says what its recipients say.  Accepted is
\* what went out.  Reserved is what may still go out and was not released,
\* plus exactly the reservations that a second reservation of the same
\* recipient left behind, which nothing gives back: DATA_MODEL.md:58,
\* "Reserved quota changes atomically with claims; accepted/released counters
\* reconcile reservation", does not hold for those.  Two sequences break the
\* books altogether and are set apart: a review while the sender has rows of
\* other days, and a safe retry of a batch with released quota or attached
\* recipients.
BooksBalance ==
  ~tainted => \A d \in Days :
    /\ ledger[d].reserved = Cardinality(OnDayIn(d, {"SENDING", "TEMPORARY_FAILED", "MANUAL_REVIEW"}))
                            - Cardinality(ReleasedInReview(d)) + stranded[d]
    /\ ledger[d].accepted = Cardinality(OnDayIn(d, {"ACCEPTED"}))
=============================================================================
