---------------------------- MODULE WebhookInbox ----------------------------
(***************************************************************************)
(* The inbox of provider webhooks (modules/webhooks/service.ts) and the    *)
(* suppressions they lead to (modules/suppressions, the suppression routes *)
(* of web/routes/v2.ts).  An event is stored once, matched with the        *)
(* recipient whose provider id it names, retried while nobody has that id, *)
(* and folded into the recipient's row.  Events arrive in any order, some  *)
(* before finishBatch has committed the id, and a job may run again after  *)
(* its transaction was committed.                                          *)
(***************************************************************************)
EXTENDS Integers, FiniteSets, FiniteSetsExt

CONSTANTS
  Webhooks,       \* svix ids
  Recipients,     \* campaign_recipients, of several campaigns
  Nobody,         \* an event that is not about a recipient
  Addresses,
  EmailOf,        \* recipient -> address
  About,          \* webhook -> [kind, recipient, time, class]
  Retries,        \* number of reconciliation delays: 5 in the code
  MaxRepeats,     \* jobs run once more although their work was committed
  MaxOperations   \* what administrators and unsubscribe links do

Reasons == {"COMPLAINT", "UNSUBSCRIBE", "HARD_BOUNCE", "PROVIDER_SUPPRESSED",
            "INVALID_ADDRESS", "MANUAL", "LEGACY_BOUNCE_REVIEW", "BOUNCE_REVIEW", "SOFT_BOUNCE"}
Kinds == {"sent", "delivered", "opened", "clicked", "delivery_delayed", "bounced",
          "complained", "suppressed", "failed", "test", "other"}
BounceTypes == {"Permanent", "Undetermined", "Transient"}
\* What classifyBounce and classifyClick make of the payload.
Classes == BounceTypes \cup {"listing", "listing by a robot", "none"}

ASSUME InboxAssumption ==
  /\ Nobody \notin Recipients
  /\ EmailOf \in [Recipients -> Addresses]
  /\ About \in [Webhooks -> [kind : Kinds, recipient : Recipients \cup {Nobody},
                             time : Nat \ {0}, class : Classes]]
  /\ \A e \in Webhooks :
       /\ About[e].kind = "bounced" => About[e].class \in BounceTypes
       /\ About[e].kind = "test" => About[e].recipient = Nobody \* no row keeps the id of a test send
  /\ Retries \in Nat /\ MaxRepeats \in Nat /\ MaxOperations \in Nat

VARIABLES
  linked,        \* recipients whose resend_email_id is committed
  event,         \* email_events.reconciliation_status
  tries,         \* email_events.reconciliation_attempts
  jobs,          \* waiting jobs: <<e, 0>> processes e, <<e, n>> is its n-th reconciliation
  row,           \* the engagement columns of the recipients
  suppression,   \* suppressions: effective reason, is_active
  causes,        \* audit log: "suppression.cause_recorded"
  repeats, operations

vars == <<linked, event, tries, jobs, row, suppression, causes, repeats, operations>>

-----------------------------------------------------------------------------
(* Suppressions *)

severity ==
  [COMPLAINT |-> 9, UNSUBSCRIBE |-> 8, HARD_BOUNCE |-> 7, PROVIDER_SUPPRESSED |-> 6,
   INVALID_ADDRESS |-> 5, MANUAL |-> 4, LEGACY_BOUNCE_REVIEW |-> 3, BOUNCE_REVIEW |-> 2,
   SOFT_BOUNCE |-> 1, none |-> 0]

LatestReason(current, incoming) == incoming
stricterSuppression(current, incoming) ==
  IF severity[incoming] > severity[current] THEN incoming ELSE current

\* INSERT ... ON CONFLICT (email_normalized) DO UPDATE, and the cause on record.
upsertSuppression(a, reason) ==
  /\ suppression' = [suppression EXCEPT ![a] =
       [reason |-> stricterSuppression(@.reason, reason), active |-> TRUE]]
  /\ causes' = [causes EXCEPT ![a] = @ \cup {reason}]

-----------------------------------------------------------------------------
(* The reducer: one event folded into one row.  0 is a NULL timestamp.     *)

LastOccurrence(current, time) == IF current > time THEN current ELSE time
FirstReceived(current, time) == IF current # 0 THEN current ELSE time
FirstOccurrence(current, time) == IF current # 0 /\ current < time THEN current ELSE time

bounceSeverity == [Permanent |-> 3, Undetermined |-> 2, Transient |-> 1, none |-> 0]
shouldReplaceBounceClassification(current, incoming) ==
  bounceSeverity[incoming] > bounceSeverity[current]

BouncedFrom(state) == IF state = "COMPLAINED" THEN state ELSE "BOUNCED"

Reduce(r, e) ==
  LET time == About[e].time
      class == About[e].class
      seen == [r EXCEPT !.lastProviderEventAt = LastOccurrence(@, time)]
  IN
  CASE About[e].kind = "sent" -> seen
    [] About[e].kind = "delivered" ->
         [seen EXCEPT !.deliveredAt = FirstOccurrence(@, time),
                      !.deliveryState = IF @ = "UNKNOWN" THEN "DELIVERED" ELSE @]
    [] About[e].kind = "opened" -> [seen EXCEPT !.openedAt = FirstOccurrence(@, time)]
    [] About[e].kind = "clicked" ->
         [seen EXCEPT !.clickedAt = FirstOccurrence(@, time),
                      !.listingClickedAt = IF class = "listing" THEN FirstOccurrence(@, time) ELSE @]
    [] About[e].kind = "delivery_delayed" ->
         [seen EXCEPT !.lastErrorCode =
            IF r.sendState # "PERMANENT_FAILED" /\ r.deliveredAt = 0 /\ r.bouncedAt = 0
                 /\ r.providerSuppressedAt = 0
            THEN "delivery_delayed" ELSE @]
    [] About[e].kind = "bounced" ->
         [seen EXCEPT !.deliveryState = BouncedFrom(@),
                      !.bouncedAt = FirstOccurrence(@, time),
                      !.bounceType = IF shouldReplaceBounceClassification(@, class) THEN class ELSE @]
    [] About[e].kind = "complained" ->
         [seen EXCEPT !.deliveryState = "COMPLAINED", !.complainedAt = FirstOccurrence(@, time)]
    [] About[e].kind = "suppressed" ->
         [seen EXCEPT !.deliveryState = IF @ \in {"COMPLAINED", "BOUNCED"} THEN @ ELSE "PROVIDER_SUPPRESSED",
                      !.providerSuppressedAt = FirstOccurrence(@, time)]
    [] About[e].kind = "failed" ->
         [seen EXCEPT !.sendState = "PERMANENT_FAILED", !.lastErrorCode = "provider_failed"]
    [] About[e].kind \in {"test", "other"} -> r

\* The reason an event suppresses its address for, if it does.
BounceReasons == [Permanent |-> "HARD_BOUNCE", Transient |-> "SOFT_BOUNCE", Undetermined |-> "BOUNCE_REVIEW"]
Cause(e) ==
  IF About[e].kind = "bounced" THEN BounceReasons[About[e].class]
  ELSE IF About[e].kind = "complained" THEN "COMPLAINT"
  ELSE IF About[e].kind = "suppressed" THEN "PROVIDER_SUPPRESSED" ELSE "none"

-----------------------------------------------------------------------------
Statuses == {"ABSENT", "RECEIVED", "MATCHED", "RETRY_PENDING", "PROCESSED", "DEAD_LETTER"}
Settled == {"PROCESSED", "DEAD_LETTER"}
Times == {"deliveredAt", "openedAt", "clickedAt", "listingClickedAt", "bouncedAt",
          "complainedAt", "providerSuppressedAt", "lastProviderEventAt"}
Columns == Times \cup {"deliveryState", "bounceType", "sendState", "lastErrorCode"}

TypeOK ==
  /\ linked \subseteq Recipients
  /\ event \in [Webhooks -> Statuses]
  /\ tries \in [Webhooks -> 0 .. Retries + 1]
  /\ jobs \subseteq Webhooks \X (0 .. Retries)
  /\ \A r \in Recipients :
       /\ DOMAIN row[r] = Columns /\ \A c \in Times : row[r][c] \in Nat
       /\ row[r].deliveryState \in {"UNKNOWN", "DELIVERED", "BOUNCED", "COMPLAINED", "PROVIDER_SUPPRESSED"}
       /\ row[r].bounceType \in BounceTypes \cup {"none"}
  /\ suppression \in [Addresses -> [reason : Reasons \cup {"none"}, active : BOOLEAN]]
  /\ causes \in [Addresses -> SUBSET Reasons]
  /\ repeats \in 0 .. MaxRepeats /\ operations \in 0 .. MaxOperations

\* The row as finishBatch leaves it.
Fresh ==
  [c \in Columns |-> IF c \in Times THEN 0
                    ELSE IF c = "deliveryState" THEN "UNKNOWN"
                    ELSE IF c = "sendState" THEN "ACCEPTED" ELSE "none"]

Init ==
  /\ linked = {}
  /\ event = [e \in Webhooks |-> "ABSENT"]
  /\ tries = [e \in Webhooks |-> 0]
  /\ jobs = {}
  /\ row = [r \in Recipients |-> Fresh]
  /\ suppression = [a \in Addresses |-> [reason |-> "none", active |-> FALSE]]
  /\ causes = [a \in Addresses |-> {}]
  /\ repeats = 0 /\ operations = 0

Pending(e) == event[e] \notin Settled
\* campaign_recipients.resend_email_id = the id the event names.
Named(e) == About[e].recipient \in linked
\* By the recipient noted on arrival, else by the provider's id.
FoundOnArrival(e) == event[e] = "MATCHED"
Found(e) == event[e] = "MATCHED" \/ Named(e)

\* There is a delay for the next attempt: retryDelaysMs[attempt - 1].
HasDelayOffByOne(e) == tries[e] <= Retries
HasDelay(e) == tries[e] < Retries

-----------------------------------------------------------------------------
(* Arrival *)

\* finishBatch commits the provider's ids.
Link(r) ==
  /\ r \notin linked
  /\ linked' = linked \cup {r}
  /\ UNCHANGED <<event, tries, jobs, row, suppression, causes, repeats, operations>>

\* ingestWebhook: the unique svix id makes a second delivery, on this or on
\* another replica, a no-op.
Ingest(e) ==
  /\ event[e] = "ABSENT"
  /\ event' = [event EXCEPT ![e] = IF Named(e) THEN "MATCHED" ELSE "RECEIVED"]
  /\ jobs' = jobs \cup {<<e, 0>>}
  /\ UNCHANGED <<linked, tries, row, suppression, causes, repeats, operations>>

-----------------------------------------------------------------------------
(* processWebhookEvent, under the event's row lock *)

Skip(e) ==
  /\ ~Pending(e)
  /\ UNCHANGED <<event, tries, row, suppression, causes>>

IgnoreTest(e) ==
  /\ Pending(e) /\ ~Found(e) /\ About[e].kind = "test"
  /\ event' = [event EXCEPT ![e] = "PROCESSED"]
  /\ UNCHANGED <<tries, row, suppression, causes>>

Orphan(e) == Pending(e) /\ ~Found(e) /\ About[e].kind # "test"

Reconcile(e) ==
  /\ Orphan(e) /\ HasDelay(e)
  /\ tries' = [tries EXCEPT ![e] = @ + 1]
  /\ event' = [event EXCEPT ![e] = "RETRY_PENDING"]
  /\ UNCHANGED <<row, suppression, causes>>

DeadLetter(e) ==
  /\ Orphan(e) /\ ~HasDelay(e)
  /\ tries' = [tries EXCEPT ![e] = @ + 1]
  /\ event' = [event EXCEPT ![e] = "DEAD_LETTER"]
  /\ UNCHANGED <<row, suppression, causes>>

\* Under the recipient's row lock too, with the row read again after it.
Fold(e) ==
  LET r == About[e].recipient
  IN
  /\ row' = [row EXCEPT ![r] = Reduce(@, e)]
  /\ event' = [event EXCEPT ![e] = "PROCESSED"]
  /\ IF Cause(e) = "none" THEN UNCHANGED <<suppression, causes>>
                          ELSE upsertSuppression(EmailOf[r], Cause(e))
  /\ UNCHANGED tries

ApplyAgain(e) == Found(e) /\ Fold(e)
Apply(e) == Pending(e) /\ Found(e) /\ Fold(e)

\* The reconciliation job the transaction arms, by unique key.
NoRetryJob(e) == {}
RetryJob(e) == IF Orphan(e) /\ HasDelay(e) THEN {<<e, tries[e] + 1>>} ELSE {}

\* A worker runs a job.  Unless the job is completed afterwards (the worker
\* dies, or completing it fails) it runs again.
RunJob(e, n, completed) ==
  /\ <<e, n>> \in jobs
  /\ Skip(e) \/ IgnoreTest(e) \/ Reconcile(e) \/ DeadLetter(e) \/ Apply(e)
  /\ IF completed THEN repeats' = repeats
     ELSE repeats < MaxRepeats /\ repeats' = repeats + 1
  /\ jobs' = (IF completed THEN jobs \ {<<e, n>>} ELSE jobs) \cup RetryJob(e)
  /\ UNCHANGED <<linked, operations>>

-----------------------------------------------------------------------------
(* Operators and recipients *)

Operate == operations < MaxOperations /\ operations' = operations + 1

SuppressManually(a) ==
  /\ Operate /\ upsertSuppression(a, "MANUAL")
  /\ UNCHANGED <<linked, event, tries, jobs, row, repeats>>

\* unsubscribeByToken; what it does to recipients still waiting is Delivery's.
Unsubscribe(a) ==
  /\ Operate /\ upsertSuppression(a, "UNSUBSCRIBE")
  /\ UNCHANGED <<linked, event, tries, jobs, row, repeats>>

\* POST /suppressions/:id/release, whatever the reason has become meanwhile.
Release(a) ==
  /\ Operate /\ causes[a] # {}
  /\ suppression' = [suppression EXCEPT ![a].active = FALSE]
  /\ UNCHANGED <<linked, event, tries, jobs, row, causes, repeats>>

-----------------------------------------------------------------------------
Next ==
  \/ \E r \in Recipients : Link(r)
  \/ \E e \in Webhooks : Ingest(e)
  \/ \E e \in Webhooks, n \in 0 .. Retries, completed \in BOOLEAN : RunJob(e, n, completed)
  \/ \E a \in Addresses : SuppressManually(a) \/ Unsubscribe(a) \/ Release(a)

Spec == Init /\ [][Next]_vars

\* Workers run the jobs that wait (JobQueue's EveryJobSettles).
Fairness ==
  \A e \in Webhooks, n \in 0 .. Retries : WF_vars(\E completed \in BOOLEAN : RunJob(e, n, completed))

FairSpec == Spec /\ Fairness

-----------------------------------------------------------------------------
(* Safety *)

Applied(r) == {e \in Webhooks : event[e] = "PROCESSED" /\ About[e].recipient = r}
TimesOf(E) == {About[e].time : e \in E}
Earliest(E) == IF E = {} THEN 0 ELSE Min(TimesOf(E))
Latest(E) == IF E = {} THEN 0 ELSE Max(TimesOf(E))

\* "Event reduction keeps earliest occurrence timestamps and the maximum
\* provider-event timestamp, so out-of-order Webhooks do not regress state":
\* a recipient's row is a function of the set of events applied to it, in
\* whatever order and however often their jobs ran.
RowIsReduction ==
  \A r \in Recipients :
    LET P == Applied(r)
        Of(kind) == {e \in P : About[e].kind = kind}
        bounces == {About[e].class : e \in Of("bounced")}
    IN
    /\ row[r].deliveredAt = Earliest(Of("delivered"))
    /\ row[r].openedAt = Earliest(Of("opened"))
    /\ row[r].clickedAt = Earliest(Of("clicked"))
    /\ row[r].listingClickedAt = Earliest({e \in Of("clicked") : About[e].class = "listing"})
    /\ row[r].bouncedAt = Earliest(Of("bounced"))
    /\ row[r].complainedAt = Earliest(Of("complained"))
    /\ row[r].providerSuppressedAt = Earliest(Of("suppressed"))
    /\ row[r].lastProviderEventAt = Latest(P \ Of("other"))
    /\ row[r].deliveryState =
         IF Of("complained") # {} THEN "COMPLAINED"
         ELSE IF bounces # {} THEN "BOUNCED"
         ELSE IF Of("suppressed") # {} THEN "PROVIDER_SUPPRESSED"
         ELSE IF Of("delivered") # {} THEN "DELIVERED" ELSE "UNKNOWN"
    /\ bounces # {} => \A class \in bounces : bounceSeverity[class] <= bounceSeverity[row[r].bounceType]
    /\ Of("failed") # {} => row[r].sendState = "PERMANENT_FAILED" /\ row[r].lastErrorCode = "provider_failed"

EffectiveIsStrictest ==
  \A a \in Addresses :
    /\ \A cause \in causes[a] : severity[cause] <= severity[suppression[a].reason]
    /\ suppression[a].reason \in causes[a] \cup {"none"}

NoCauseMissing ==
  \A e \in Webhooks :
    event[e] = "PROCESSED" /\ Cause(e) # "none" => Cause(e) \in causes[EmailOf[About[e].recipient]]

\* The effective reason of an address is the strictest of all causes that
\* were ever recorded for it, over all its recipients, webhooks, operators
\* and unsubscribe links; no applied bounce or complaint is missing.
StrictestReasonStands == EffectiveIsStrictest /\ NoCauseMissing

\* A released address is suppressed again by something new only: an event
\* applied for the first time, an operator or the recipient, never by a job
\* that runs once more.
ReleaseStands ==
  [][\A a \in Addresses :
       ~suppression[a].active /\ suppression'[a].active =>
         \/ operations' = operations + 1
         \/ \E e \in Webhooks : /\ event[e] # "PROCESSED" /\ event'[e] = "PROCESSED"
                                /\ EmailOf[About[e].recipient] = a]_vars

(* Liveness *)

\* Whatever was received is applied or ends in the visible dead letters.
EveryEventSettles == \A e \in Webhooks : event[e] # "ABSENT" ~> event[e] \in Settled

\* The retries allow "a delayed provider ID commit to become visible": an
\* orphan whose recipient gets its id while it is retried is applied.
LateLinkIsEnough ==
  \A e \in Webhooks : event[e] = "RETRY_PENDING" /\ Named(e) ~> event[e] = "PROCESSED"
=============================================================================
