----------------------------- MODULE CampaignStats -----------------------------
(***************************************************************************)
(* The derived numbers of one campaign and the deliverability guard: the   *)
(* end of processWebhookEvent (modules/webhooks/service.ts) and of          *)
(* finishBatch (modules/delivery/service.ts), and recomputeCampaignStats    *)
(* (modules/analytics/service.ts), which reads the facts in one query and   *)
(* writes what it made of them in a later transaction.                     *)
(***************************************************************************)
EXTENDS Naturals

CONSTANTS
  Reducers,      \* workers that process webhook events
  Recomputers,   \* workers that run recompute jobs
  MinSampleSize, BouncePercent, \* DELIVERABILITY_THRESHOLDS
  NoSnapshot,    \* nothing read
  MaxFacts,      \* bound on accepted messages and on events
  MaxBucket,     \* bound on the clock, in buckets of ten seconds
  MaxFaults      \* bound on failures, and on reactivations

ASSUME StatsAssumption ==
  /\ MinSampleSize \in Nat /\ BouncePercent \in 0 .. 100
  /\ MaxFacts \in Nat /\ MaxBucket \in Nat /\ MaxFaults \in Nat

VARIABLES
  facts,      \* what the recipients' rows say
  counted,    \* the numbers in the campaign's row
  live,       \* is the campaign QUEUED, SCHEDULED or SENDING?
  suspended,  \* is its sender SUSPENDED?
  recompute,  \* RECOMPUTE_CAMPAIGN_STATS jobs by bucket
  bucketNow,  \* the clock
  reducing,   \* what each reducer does
  recomputing, \* what each recomputer does
  uncovered,  \* history: a fact arrived that no job or call will count
  overtaken,  \* history: an older count was written over a newer one
  guarded,    \* history: the guard has acted on what was counted last
  faults

statsVars == <<facts, counted, live, suspended, recompute, bucketNow, reducing, recomputing,
               uncovered, overtaken, guarded, faults>>

Buckets == 0 .. MaxBucket
StatFacts == [accepted : 0 .. MaxFacts, bounced : 0 .. MaxFacts, clicked : 0 .. MaxFacts]
Resting == [at |-> "rest"]
Reduction(at, kind, bucket, seen) == [at |-> at, kind |-> kind, bucket |-> bucket, seen |-> seen]
Reductions ==
  {Resting} \cup [at : {"open", "read", "write"}, kind : {"bounced", "clicked", "accepted"},
                  bucket : Buckets, seen : StatFacts \cup {NoSnapshot}]
Recomputations ==
  {Resting} \cup [at : {"read", "write", "settle"}, bucket : Buckets, seen : StatFacts \cup {NoSnapshot}]

StatsTypeOK ==
  /\ facts \in StatFacts /\ counted \in StatFacts
  /\ live \in BOOLEAN /\ suspended \in BOOLEAN
  /\ recompute \in [Buckets -> {"absent", "waiting", "running", "completed"}]
  /\ bucketNow \in Buckets
  /\ reducing \in [Reducers -> Reductions] /\ recomputing \in [Recomputers -> Recomputations]
  /\ uncovered \in BOOLEAN /\ overtaken \in BOOLEAN /\ guarded \in BOOLEAN
  /\ faults \in 0 .. MaxFaults
  /\ facts.bounced <= facts.accepted /\ counted.bounced <= counted.accepted

NoFacts == [accepted |-> 0, bounced |-> 0, clicked |-> 0]
StatsInit ==
  /\ facts = NoFacts /\ counted = NoFacts
  /\ live = TRUE /\ suspended = FALSE
  /\ recompute = [b \in Buckets |-> "absent"] /\ bucketNow = 0
  /\ reducing = [w \in Reducers |-> Resting] /\ recomputing = [w \in Recomputers |-> Resting]
  /\ uncovered = FALSE /\ overtaken = FALSE /\ guarded = FALSE
  /\ faults = 0

Exceeded(f) ==
  /\ f.accepted >= MinSampleSize /\ f.accepted > 0
  /\ 100 * f.bounced >= BouncePercent * f.accepted

-----------------------------------------------------------------------------
(* Facts arrive. *)

\* The transaction of an event names its bucket from the clock, and commits
\* later.
OpenEvent(w, kind) ==
  /\ reducing[w] = Resting /\ kind \in {"bounced", "clicked"}
  /\ reducing' = [reducing EXCEPT ![w] = Reduction("open", kind, bucketNow, NoSnapshot)]
  /\ UNCHANGED <<facts, counted, live, suspended, recompute, bucketNow, recomputing,
                 uncovered, overtaken, guarded, faults>>

\* update: {} leaves a job of the bucket as it is, even one that has run.
Armed(b) == recompute' = [recompute EXCEPT ![b] = IF @ = "absent" THEN "waiting" ELSE @]
Immediate(kind) == kind \in {"bounced", "accepted"}
ThenRecompute(w) ==
  reducing' = [reducing EXCEPT ![w] = IF Immediate(@.kind) THEN [@ EXCEPT !.at = "read"] ELSE Resting]

CommitEventUnbacked(w) ==
  /\ reducing[w].at = "open"
  /\ facts[reducing[w].kind] < IF reducing[w].kind = "bounced" THEN facts.accepted ELSE MaxFacts
  /\ facts' = [facts EXCEPT ![reducing[w].kind] = @ + 1]
  /\ IF Immediate(reducing[w].kind) THEN UNCHANGED recompute ELSE Armed(reducing[w].bucket)
  /\ uncovered' = (uncovered \/ recompute[reducing[w].bucket] \in {"running", "completed"})
  /\ guarded' = FALSE
  /\ ThenRecompute(w)
  /\ UNCHANGED <<counted, live, suspended, bucketNow, recomputing, overtaken, faults>>
CommitEvent(w) ==
  /\ reducing[w].at = "open"
  /\ facts[reducing[w].kind] < IF reducing[w].kind = "bounced" THEN facts.accepted ELSE MaxFacts
  /\ facts' = [facts EXCEPT ![reducing[w].kind] = @ + 1]
  /\ Armed(reducing[w].bucket)
  /\ uncovered' = (uncovered \/ recompute[reducing[w].bucket] \in {"running", "completed"})
  /\ guarded' = FALSE
  /\ ThenRecompute(w)
  /\ UNCHANGED <<counted, live, suspended, bucketNow, recomputing, overtaken, faults>>

\* The transaction fails; its job is retried (module WebhookInbox).
AbortEvent(w) ==
  /\ reducing[w].at = "open"
  /\ reducing' = [reducing EXCEPT ![w] = Resting]
  /\ UNCHANGED <<facts, counted, live, suspended, recompute, bucketNow, recomputing,
                 uncovered, overtaken, guarded, faults>>

\* finishBatch commits what the provider accepted and counts at once; no job
\* stands behind that count.
BatchAccepted(w) ==
  /\ reducing[w] = Resting /\ facts.accepted < MaxFacts
  /\ facts' = [facts EXCEPT !.accepted = @ + 1]
  /\ reducing' = [reducing EXCEPT ![w] = Reduction("read", "accepted", bucketNow, NoSnapshot)]
  /\ guarded' = FALSE
  /\ UNCHANGED <<counted, live, suspended, recompute, bucketNow, recomputing,
                 uncovered, overtaken, faults>>

-----------------------------------------------------------------------------
(* recomputeCampaignStats. *)

\* An older count lands on a newer one if what it saw is less.
WriteSeen(seen) ==
  /\ counted' = seen
  /\ uncovered' = (uncovered /\ seen # facts)
  /\ overtaken' = (seen # facts /\ (overtaken \/ counted = facts))
  /\ IF Exceeded(seen)
     THEN live' = FALSE /\ suspended' = TRUE /\ guarded' = TRUE
     ELSE UNCHANGED <<live, suspended>> /\ guarded' = guarded
  /\ UNCHANGED <<facts, bucketNow, faults>>

ReadNow(w) ==
  /\ reducing[w].at = "read"
  /\ reducing' = [reducing EXCEPT ![w].at = "write", ![w].seen = facts]
  /\ UNCHANGED <<facts, counted, live, suspended, recompute, bucketNow, recomputing,
                 uncovered, overtaken, guarded, faults>>
WriteNow(w) ==
  /\ reducing[w].at = "write"
  /\ WriteSeen(reducing[w].seen)
  /\ reducing' = [reducing EXCEPT ![w] = Resting]
  /\ UNCHANGED <<recompute, recomputing>>

\* The count of an event or a batch fails, or its process ends.
CountFails(w) ==
  /\ reducing[w].at \in {"read", "write"} /\ faults < MaxFaults
  /\ faults' = faults + 1
  /\ uncovered' = (uncovered \/ reducing[w].kind = "accepted")
  /\ reducing' = [reducing EXCEPT ![w] = Resting]
  /\ UNCHANGED <<facts, counted, live, suspended, recompute, bucketNow, recomputing,
                 overtaken, guarded>>

\* A job is due when its bucket is over.
RunRecompute(w, b) ==
  /\ recomputing[w] = Resting /\ recompute[b] = "waiting" /\ b < bucketNow
  /\ recompute' = [recompute EXCEPT ![b] = "running"]
  /\ recomputing' = [recomputing EXCEPT ![w] = [at |-> "read", bucket |-> b, seen |-> NoSnapshot]]
  /\ UNCHANGED <<facts, counted, live, suspended, bucketNow, reducing,
                 uncovered, overtaken, guarded, faults>>
ReadFacts(w) ==
  /\ recomputing[w].at = "read"
  /\ recomputing' = [recomputing EXCEPT ![w].at = "write", ![w].seen = facts]
  /\ UNCHANGED <<facts, counted, live, suspended, recompute, bucketNow, reducing,
                 uncovered, overtaken, guarded, faults>>
WriteStats(w) ==
  /\ recomputing[w].at = "write"
  /\ WriteSeen(recomputing[w].seen)
  /\ recomputing' = [recomputing EXCEPT ![w].at = "settle"]
  /\ UNCHANGED <<recompute, reducing>>
SettleRecompute(w) ==
  /\ recomputing[w].at = "settle"
  /\ recompute' = [recompute EXCEPT ![recomputing[w].bucket] = "completed"]
  /\ recomputing' = [recomputing EXCEPT ![w] = Resting]
  /\ UNCHANGED <<facts, counted, live, suspended, bucketNow, reducing,
                 uncovered, overtaken, guarded, faults>>

\* The handler throws or its worker dies: the job runs again (JobQueue).
RecomputeFails(w) ==
  /\ recomputing[w] # Resting /\ faults < MaxFaults
  /\ faults' = faults + 1
  /\ recompute' = [recompute EXCEPT ![recomputing[w].bucket] = "waiting"]
  /\ recomputing' = [recomputing EXCEPT ![w] = Resting]
  /\ UNCHANGED <<facts, counted, live, suspended, bucketNow, reducing,
                 uncovered, overtaken, guarded>>

-----------------------------------------------------------------------------
BucketEnds ==
  /\ bucketNow < MaxBucket /\ bucketNow' = bucketNow + 1
  /\ UNCHANGED <<facts, counted, live, suspended, recompute, reducing, recomputing,
                 uncovered, overtaken, guarded, faults>>

\* An operator reactivates the sender and resumes the campaign.
Reactivate ==
  /\ suspended /\ faults < MaxFaults
  /\ suspended' = FALSE /\ live' = TRUE /\ faults' = faults + 1
  /\ UNCHANGED <<facts, counted, recompute, bucketNow, reducing, recomputing,
                 uncovered, overtaken, guarded>>

StatsNext ==
  \/ \E w \in Reducers, kind \in {"bounced", "clicked"} : OpenEvent(w, kind)
  \/ \E w \in Reducers : CommitEvent(w)
  \/ \E w \in Reducers : AbortEvent(w)
  \/ \E w \in Reducers : BatchAccepted(w)
  \/ \E w \in Reducers : ReadNow(w)
  \/ \E w \in Reducers : WriteNow(w)
  \/ \E w \in Reducers : CountFails(w)
  \/ \E w \in Recomputers, b \in Buckets : RunRecompute(w, b)
  \/ \E w \in Recomputers : ReadFacts(w)
  \/ \E w \in Recomputers : WriteStats(w)
  \/ \E w \in Recomputers : SettleRecompute(w)
  \/ \E w \in Recomputers : RecomputeFails(w)
  \/ BucketEnds
  \/ Reactivate

StatsSpec == StatsInit /\ [][StatsNext]_statsVars

-----------------------------------------------------------------------------
AllCounted ==
  /\ \A w \in Reducers : reducing[w].at \in {"rest", "open"}
  /\ \A w \in Recomputers : recomputing[w].at \in {"rest", "settle"}
  /\ \A b \in Buckets : recompute[b] # "waiting"

\* When nothing is left to run, the campaign's numbers are those of its
\* recipients and the guard has acted on them, whichever counts failed on the
\* way (modules/webhooks/service.ts, "a failed recompute cannot rely on an
\* event retry to rebuild statistics or run the deliverability guard").  Two
\* gaps are the code's own: a fact that commits when the job of its bucket
\* has begun to run, or that a batch alone counts; and a slow count that
\* lands on a newer one.
StatsCatchUp ==
  AllCounted /\ ~uncovered =>
    /\ ~overtaken => counted = facts
    /\ Exceeded(facts) => guarded
=============================================================================
