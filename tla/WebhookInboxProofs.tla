------------------------- MODULE WebhookInboxProofs -------------------------
(***************************************************************************)
(* What WebhookInbox promises of suppressions, proved for any sets of      *)
(* webhooks, recipients and addresses.                                     *)
(***************************************************************************)
EXTENDS WebhookInbox, TLAPS

SuppressionTyped ==
  /\ suppression \in [Addresses -> [reason : Reasons \cup {"none"}, active : BOOLEAN]]
  /\ causes \in [Addresses -> SUBSET Reasons]

\* An event is matched with, and applied to, a recipient only when the
\* provider's id is committed.
MatchedIsNamed ==
  /\ linked \subseteq Recipients
  /\ event \in [Webhooks -> Statuses]
  /\ \A e \in Webhooks : event[e] = "MATCHED" \/ (event[e] = "PROCESSED" /\ About[e].kind # "test") => Named(e)

IInv == SuppressionTyped /\ MatchedIsNamed /\ StrictestReasonStands

-----------------------------------------------------------------------------
\* Every reason has a rank, above that of no reason.
LEMMA SeverityRanks == \A x \in Reasons \cup {"none"} : severity[x] \in Nat /\ severity[x] >= severity["none"]
  BY DEF severity, Reasons

\* What an event suppresses for is one of the reasons, or nothing.
LEMMA CauseIsReason == ASSUME NEW e \in Webhooks PROVE Cause(e) \in Reasons \cup {"none"}
<1>1. About[e].kind = "bounced" => About[e].class \in BounceTypes
  BY InboxAssumption DEF InboxAssumption
<1>2. \A class \in BounceTypes : BounceReasons[class] \in Reasons
  BY DEF BounceTypes, BounceReasons, Reasons
<1> QED BY <1>1, <1>2 DEF Cause, Reasons

\* Only an event about a recipient suppresses.
LEMMA CauseNeedsKind == ASSUME NEW e \in Webhooks, About[e].kind = "test" PROVE Cause(e) = "none"
  BY DEF Cause

\* The stricter of two reasons is one of them and at least as strict as both.
LEMMA StricterIsUpperBound ==
  ASSUME NEW x \in Reasons \cup {"none"}, NEW y \in Reasons
  PROVE  LET z == stricterSuppression(x, y)
         IN  z \in {x, y} /\ severity[x] <= severity[z] /\ severity[y] <= severity[z] /\ z # "none"
<1>1. severity[x] \in Nat /\ severity[y] \in Nat
  BY SeverityRanks
<1>2. severity[y] > severity["none"]
  BY DEF severity, Reasons
<1>3. y # "none"
  BY DEF Reasons
<1>4. CASE severity[y] > severity[x]
  BY <1>1, <1>3, <1>4 DEF stricterSuppression
<1>5. CASE ~(severity[y] > severity[x])
  <2>1. x # "none"
    BY <1>2, <1>5
  <2> QED BY <1>1, <1>5, <2>1 DEF stricterSuppression
<1> QED BY <1>4, <1>5

\* Recording one more cause keeps the projection and forgets no cause.
LEMMA UpsertKeeps ==
  ASSUME SuppressionTyped, EffectiveIsStrictest,
         NEW a \in Addresses, NEW reason \in Reasons, upsertSuppression(a, reason)
  PROVE  /\ SuppressionTyped' /\ EffectiveIsStrictest'
         /\ \A b \in Addresses : causes[b] \subseteq causes'[b]
         /\ reason \in causes'[a]
<1> DEFINE z == stricterSuppression(suppression[a].reason, reason)
<1>1. /\ suppression[a].reason \in Reasons \cup {"none"} /\ suppression[a].reason \in causes[a] \cup {"none"}
      /\ causes[a] \subseteq Reasons
  BY DEF SuppressionTyped, EffectiveIsStrictest
<1>2. /\ z \in {suppression[a].reason, reason} /\ z # "none"
      /\ severity[suppression[a].reason] <= severity[z] /\ severity[reason] <= severity[z]
  BY <1>1, StricterIsUpperBound
<1>3. /\ suppression'[a] = [reason |-> z, active |-> TRUE] /\ causes'[a] = causes[a] \cup {reason}
      /\ \A b \in Addresses \ {a} : suppression'[b] = suppression[b] /\ causes'[b] = causes[b]
      /\ suppression' = [suppression EXCEPT ![a] = [reason |-> z, active |-> TRUE]]
      /\ causes' = [causes EXCEPT ![a] = causes[a] \cup {reason}]
  BY DEF upsertSuppression, SuppressionTyped
<1>4. z \in Reasons
  BY <1>1, <1>2
<1> HIDE DEF z
<1>5. SuppressionTyped'
  BY <1>1, <1>3, <1>4 DEF SuppressionTyped
<1>6. EffectiveIsStrictest'
  <2> SUFFICES ASSUME NEW b \in Addresses
               PROVE  /\ \A cause \in causes'[b] : severity[cause] <= severity[suppression'[b].reason]
                      /\ suppression'[b].reason \in causes'[b] \cup {"none"}
    BY DEF EffectiveIsStrictest
  <2>1. CASE b # a
    BY <1>3, <2>1 DEF EffectiveIsStrictest
  <2>2. CASE b = a
    <3>1. suppression'[a].reason = z
      BY <1>3
    <3>2. z \in causes'[a]
      BY <1>1, <1>2, <1>3
    <3>3. ASSUME NEW cause \in causes[a] PROVE severity[cause] <= severity[z]
      <4>1. severity[cause] <= severity[suppression[a].reason]
        BY DEF EffectiveIsStrictest
      <4>2. severity[cause] \in Nat /\ severity[suppression[a].reason] \in Nat /\ severity[z] \in Nat
        BY <1>1, <1>4, SeverityRanks
      <4> QED BY <1>2, <4>1, <4>2
    <3> QED BY <1>2, <1>3, <2>2, <3>1, <3>2, <3>3
  <2> QED BY <2>1, <2>2
<1> QED BY <1>3, <1>5, <1>6

\* An event that can be applied is about a recipient, who has an address.
LEMMA FoundHasAddress ==
  ASSUME MatchedIsNamed, NEW e \in Webhooks, Found(e)
  PROVE  Named(e) /\ EmailOf[About[e].recipient] \in Addresses
  BY InboxAssumption DEF MatchedIsNamed, Found, Named, InboxAssumption

-----------------------------------------------------------------------------
(* IInv is inductive *)

LEMMA InitEstablishes == Init => IInv
<1> SUFFICES ASSUME Init PROVE IInv
  OBVIOUS
<1>1. SuppressionTyped
  BY DEF Init, SuppressionTyped
<1>2. MatchedIsNamed
  BY DEF Init, MatchedIsNamed, Statuses
<1>3. EffectiveIsStrictest
  BY DEF Init, EffectiveIsStrictest
<1>4. NoCauseMissing
  BY DEF Init, NoCauseMissing
<1> QED BY <1>1, <1>2, <1>3, <1>4 DEF IInv, StrictestReasonStands

\* An event changes status: who has a provider id does not.
LEMMA StatusChanges ==
  ASSUME IInv, UNCHANGED linked, NEW e \in Webhooks, NEW status \in Statuses,
         event' = [event EXCEPT ![e] = status], status = "MATCHED" \/ (status = "PROCESSED" /\ About[e].kind # "test") => Named(e)
  PROVE  MatchedIsNamed'
  BY DEF IInv, MatchedIsNamed, Named

\* Nothing that is not applied can be missing a cause.
LEMMA CausesKept ==
  ASSUME IInv, \A b \in Addresses : causes[b] \subseteq causes'[b],
         NEW e \in Webhooks, NEW status \in Statuses, event' = [event EXCEPT ![e] = status],
         status = "PROCESSED" /\ Cause(e) # "none" => Cause(e) \in causes'[EmailOf[About[e].recipient]]
  PROVE  NoCauseMissing'
<1> SUFFICES ASSUME NEW d \in Webhooks, event'[d] = "PROCESSED", Cause(d) # "none"
             PROVE  Cause(d) \in causes'[EmailOf[About[d].recipient]]
  BY DEF NoCauseMissing, Cause
<1>1. CASE d = e
  BY <1>1 DEF IInv, MatchedIsNamed
<1>2. CASE d # e
  <2>1. event[d] = "PROCESSED"
    BY <1>2 DEF IInv, MatchedIsNamed
  <2>2. Cause(d) \in causes[EmailOf[About[d].recipient]]
    BY <2>1 DEF IInv, StrictestReasonStands, NoCauseMissing
  <2>3. Named(d)
    BY <2>1, CauseNeedsKind DEF IInv, MatchedIsNamed
  <2>4. EmailOf[About[d].recipient] \in Addresses
    BY <2>3, InboxAssumption DEF IInv, MatchedIsNamed, Named, InboxAssumption
  <2> QED BY <2>2, <2>4
<1> QED BY <1>1, <1>2

\* A step that leaves suppressions and causes alone and applies nothing that
\* could suppress.
LEMMA QuietStep ==
  ASSUME IInv, UNCHANGED <<linked, suppression, causes>>,
         NEW e \in Webhooks, NEW status \in Statuses, event' = [event EXCEPT ![e] = status],
         status = "MATCHED" => Named(e), status = "PROCESSED" => About[e].kind = "test"
  PROVE  IInv'
<1>1. MatchedIsNamed'
  BY StatusChanges
<1>2. SuppressionTyped' /\ EffectiveIsStrictest'
  BY DEF IInv, StrictestReasonStands, SuppressionTyped, EffectiveIsStrictest
<1>3. status = "PROCESSED" => Cause(e) = "none"
  BY CauseNeedsKind
<1>4. NoCauseMissing'
  BY <1>3, CausesKept
<1> QED BY <1>1, <1>2, <1>4 DEF IInv, StrictestReasonStands

\* What an operator or a recipient does to suppressions.
LEMMA OperatorStep ==
  ASSUME IInv, UNCHANGED <<linked, event>>, SuppressionTyped', EffectiveIsStrictest',
         \A b \in Addresses : causes[b] \subseteq causes'[b]
  PROVE  IInv'
<1>1. MatchedIsNamed'
  BY DEF IInv, MatchedIsNamed, Named
<1>2. NoCauseMissing'
  <2> SUFFICES ASSUME NEW d \in Webhooks, event[d] = "PROCESSED", Cause(d) # "none"
               PROVE  Cause(d) \in causes'[EmailOf[About[d].recipient]]
    BY DEF NoCauseMissing, Cause
  <2>1. Cause(d) \in causes[EmailOf[About[d].recipient]]
    BY DEF IInv, StrictestReasonStands, NoCauseMissing
  <2>2. Named(d)
    BY CauseNeedsKind DEF IInv, MatchedIsNamed
  <2>3. EmailOf[About[d].recipient] \in Addresses
    BY <2>2, InboxAssumption DEF IInv, MatchedIsNamed, Named, InboxAssumption
  <2> QED BY <2>1, <2>3
<1> QED BY <1>1, <1>2 DEF IInv, StrictestReasonStands

\* Folding an event into its recipient's row.
LEMMA ApplyPreserves == ASSUME IInv, UNCHANGED linked, NEW e \in Webhooks, Apply(e) PROVE IInv'
<1> DEFINE a == EmailOf[About[e].recipient]
<1>1. Named(e) /\ a \in Addresses
  BY FoundHasAddress DEF Apply, IInv
<1>2. event' = [event EXCEPT ![e] = "PROCESSED"] /\ "PROCESSED" \in Statuses
  BY DEF Apply, Fold, Statuses
<1>3. MatchedIsNamed'
  BY <1>1, <1>2, StatusChanges
<1>4. CASE Cause(e) = "none"
  <2>1. UNCHANGED <<suppression, causes>>
    BY <1>4 DEF Apply, Fold
  <2>2. SuppressionTyped' /\ EffectiveIsStrictest'
    BY <2>1 DEF IInv, StrictestReasonStands, SuppressionTyped, EffectiveIsStrictest
  <2>3. NoCauseMissing'
    BY <1>2, <1>4, <2>1, CausesKept
  <2> QED BY <1>3, <2>2, <2>3 DEF IInv, StrictestReasonStands
<1>5. CASE Cause(e) # "none"
  <2>1. Cause(e) \in Reasons /\ upsertSuppression(a, Cause(e))
    BY <1>5, CauseIsReason DEF Apply, Fold
  <2>2. /\ SuppressionTyped' /\ EffectiveIsStrictest'
        /\ \A b \in Addresses : causes[b] \subseteq causes'[b]
        /\ Cause(e) \in causes'[a]
    BY <1>1, <2>1, UpsertKeeps DEF IInv, StrictestReasonStands
  <2>3. NoCauseMissing'
    BY <1>2, <2>2, CausesKept
  <2> QED BY <1>3, <2>2, <2>3 DEF IInv, StrictestReasonStands
<1> QED BY <1>4, <1>5

\* Every run of a job is one of the five outcomes of processWebhookEvent.
LEMMA RunJobPreserves ==
  ASSUME IInv, NEW e \in Webhooks, NEW n \in 0 .. Retries, NEW completed \in BOOLEAN,
         RunJob(e, n, completed)
  PROVE  IInv'
<1>1. UNCHANGED linked
  BY DEF RunJob
<1>2. CASE Skip(e)
  <2>1. UNCHANGED <<linked, event, suppression, causes>>
    BY <1>1, <1>2 DEF Skip
  <2> QED BY <2>1 DEF IInv, SuppressionTyped, MatchedIsNamed, Named, StrictestReasonStands,
               EffectiveIsStrictest, NoCauseMissing, Cause
<1>3. CASE IgnoreTest(e)
  BY <1>1, <1>3, QuietStep DEF IgnoreTest, Statuses
<1>4. CASE Reconcile(e)
  BY <1>1, <1>4, QuietStep DEF Reconcile, Statuses
<1>5. CASE DeadLetter(e)
  BY <1>1, <1>5, QuietStep DEF DeadLetter, Statuses
<1>6. CASE Apply(e)
  BY <1>1, <1>6, ApplyPreserves
<1> QED BY <1>2, <1>3, <1>4, <1>5, <1>6 DEF RunJob

LEMMA NextPreserves == IInv /\ [Next]_vars => IInv'
<1> SUFFICES ASSUME IInv, [Next]_vars PROVE IInv'
  OBVIOUS
<1> USE DEF IInv, StrictestReasonStands
<1>1. ASSUME NEW r \in Recipients, Link(r) PROVE IInv'
  <2>1. linked' = linked \cup {r} /\ UNCHANGED <<event, suppression, causes>>
    BY <1>1 DEF Link
  <2> QED BY <2>1 DEF SuppressionTyped, MatchedIsNamed, Named, EffectiveIsStrictest, NoCauseMissing, Cause
<1>2. ASSUME NEW e \in Webhooks, Ingest(e) PROVE IInv'
  <2>1. PICK status \in {"MATCHED", "RECEIVED"} :
          event' = [event EXCEPT ![e] = status] /\ (status = "MATCHED" => Named(e))
    BY <1>2 DEF Ingest
  <2>2. UNCHANGED <<linked, suppression, causes>>
    BY <1>2 DEF Ingest
  <2> QED BY <2>1, <2>2, QuietStep DEF Statuses
<1>3. ASSUME NEW e \in Webhooks, NEW n \in 0 .. Retries, NEW completed \in BOOLEAN, RunJob(e, n, completed)
      PROVE  IInv'
  BY <1>3, RunJobPreserves
<1>4. ASSUME NEW a \in Addresses, SuppressManually(a) PROVE IInv'
  <2>1. "MANUAL" \in Reasons /\ upsertSuppression(a, "MANUAL") /\ UNCHANGED <<linked, event>>
    BY <1>4 DEF SuppressManually, Reasons
  <2> QED BY <2>1, UpsertKeeps, OperatorStep
<1>5. ASSUME NEW a \in Addresses, Unsubscribe(a) PROVE IInv'
  <2>1. "UNSUBSCRIBE" \in Reasons /\ upsertSuppression(a, "UNSUBSCRIBE") /\ UNCHANGED <<linked, event>>
    BY <1>5 DEF Unsubscribe, Reasons
  <2> QED BY <2>1, UpsertKeeps, OperatorStep
<1>6. ASSUME NEW a \in Addresses, Release(a) PROVE IInv'
  <2>1. suppression' = [suppression EXCEPT ![a].active = FALSE] /\ UNCHANGED <<linked, event, causes>>
    BY <1>6 DEF Release
  <2>2. \A b \in Addresses : suppression'[b].reason = suppression[b].reason
    BY <2>1 DEF SuppressionTyped
  <2>3. SuppressionTyped'
    BY <2>1 DEF SuppressionTyped
  <2>4. EffectiveIsStrictest'
    BY <2>1, <2>2 DEF EffectiveIsStrictest
  <2> QED BY <2>1, <2>3, <2>4, OperatorStep
<1>7. CASE UNCHANGED vars
  BY <1>7 DEF vars, SuppressionTyped, MatchedIsNamed, Named, EffectiveIsStrictest, NoCauseMissing, Cause
<1> QED BY <1>1, <1>2, <1>3, <1>4, <1>5, <1>6, <1>7 DEF Next

-----------------------------------------------------------------------------
(* Theorems *)

\* Every step of the inbox, an operator or the recipient keeps the causes and
\* the projection of each address in step, and matches only who is named.
THEOREM Inductive == Spec => []IInv
BY InitEstablishes, NextPreserves, PTL DEF Spec

\* However many webhooks, recipients and operators there are, in whatever
\* order their events are applied and their jobs repeated: the effective
\* reason of an address (upsertSuppression) is the strictest cause on record,
\* and no applied bounce or complaint is without its record.
THEOREM SuppressionCorrect == Spec => []StrictestReasonStands
<1>1. IInv => StrictestReasonStands
  BY DEF IInv
<1> QED BY <1>1, Inductive, PTL

\* A released address is suppressed again only by an event applied for the
\* first time, an operator or the recipient: processWebhookEvent's early
\* return keeps a repeated job from it.
THEOREM ReleaseCorrect == Spec => ReleaseStands
<1> DEFINE Stands ==
             \A a \in Addresses :
               ~suppression[a].active /\ suppression'[a].active =>
                 \/ operations' = operations + 1
                 \/ \E e \in Webhooks : /\ event[e] # "PROCESSED" /\ event'[e] = "PROCESSED"
                                        /\ EmailOf[About[e].recipient] = a
<1>1. ASSUME IInv, [Next]_vars PROVE Stands
  <2> SUFFICES ASSUME NEW a \in Addresses, ~suppression[a].active, suppression'[a].active,
                      operations' # operations + 1
               PROVE  \E e \in Webhooks : /\ event[e] # "PROCESSED" /\ event'[e] = "PROCESSED"
                                           /\ EmailOf[About[e].recipient] = a
    OBVIOUS
  <2>1. suppression' # suppression
    OBVIOUS
  <2>2. ~\E b \in Addresses : SuppressManually(b) \/ Unsubscribe(b) \/ Release(b)
    BY DEF SuppressManually, Unsubscribe, Release, Operate
  <2>3. PICK e \in Webhooks, n \in 0 .. Retries, completed \in BOOLEAN : RunJob(e, n, completed)
    BY <1>1, <2>1, <2>2 DEF Next, vars, Link, Ingest
  <2>4. Apply(e)
    BY <2>1, <2>3 DEF RunJob, Skip, IgnoreTest, Reconcile, DeadLetter
  <2>5. event[e] # "PROCESSED" /\ event'[e] = "PROCESSED"
    BY <1>1, <2>4 DEF Apply, Pending, Settled, Fold, IInv, MatchedIsNamed
  <2>6. upsertSuppression(EmailOf[About[e].recipient], Cause(e))
    BY <2>1, <2>4 DEF Apply, Fold
  <2>7. EmailOf[About[e].recipient] = a
    BY <1>1, <2>6 DEF upsertSuppression, IInv, SuppressionTyped
  <2> QED BY <2>5, <2>7
<1>2. ASSUME IInv, [Next]_vars PROVE [Stands]_vars
  BY <1>1, <1>2
<1> QED BY Inductive, <1>2, PTL DEF Spec, ReleaseStands

-----------------------------------------------------------------------------
(* The reducer, column by column.                                          *)

DeliveryStates == {"UNKNOWN", "DELIVERED", "BOUNCED", "COMPLAINED", "PROVIDER_SUPPRESSED"}
RowTyped(x) ==
  /\ x = [c \in Columns |-> x[c]] /\ \A c \in Times : x[c] \in Nat
  /\ x.deliveryState \in DeliveryStates /\ x.bounceType \in BounceTypes \cup {"none"}

\* What an event of each kind does to each column that a recipient's history
\* is read from.
Reduced(x, e, y) ==
  LET kind == About[e].kind
      time == About[e].time
      class == About[e].class
  IN
  /\ y.lastProviderEventAt =
       IF kind \in {"test", "other"} THEN x.lastProviderEventAt ELSE LastOccurrence(x.lastProviderEventAt, time)
  /\ y.deliveredAt = IF kind = "delivered" THEN FirstOccurrence(x.deliveredAt, time) ELSE x.deliveredAt
  /\ y.openedAt = IF kind = "opened" THEN FirstOccurrence(x.openedAt, time) ELSE x.openedAt
  /\ y.clickedAt = IF kind = "clicked" THEN FirstOccurrence(x.clickedAt, time) ELSE x.clickedAt
  /\ y.listingClickedAt =
       IF kind = "clicked" /\ class = "listing" THEN FirstOccurrence(x.listingClickedAt, time) ELSE x.listingClickedAt
  /\ y.bouncedAt = IF kind = "bounced" THEN FirstOccurrence(x.bouncedAt, time) ELSE x.bouncedAt
  /\ y.complainedAt = IF kind = "complained" THEN FirstOccurrence(x.complainedAt, time) ELSE x.complainedAt
  /\ y.providerSuppressedAt =
       IF kind = "suppressed" THEN FirstOccurrence(x.providerSuppressedAt, time) ELSE x.providerSuppressedAt
  /\ y.deliveryState =
       IF kind = "complained" THEN "COMPLAINED"
       ELSE IF kind = "bounced" THEN BouncedFrom(x.deliveryState)
       ELSE IF kind = "suppressed" /\ x.deliveryState \notin {"COMPLAINED", "BOUNCED"} THEN "PROVIDER_SUPPRESSED"
       ELSE IF kind = "delivered" /\ x.deliveryState = "UNKNOWN" THEN "DELIVERED" ELSE x.deliveryState
  /\ y.bounceType =
       IF kind = "bounced" /\ shouldReplaceBounceClassification(x.bounceType, class) THEN class ELSE x.bounceType
  /\ y.sendState = IF kind = "failed" THEN "PERMANENT_FAILED" ELSE x.sendState
  /\ kind = "failed" => y.lastErrorCode = "provider_failed"
  /\ x.sendState = "PERMANENT_FAILED" /\ kind # "failed" => y.lastErrorCode = x.lastErrorCode

LEMMA AboutIs ==
  ASSUME NEW e \in Webhooks
  PROVE  /\ About[e].kind \in Kinds /\ About[e].time \in Nat /\ About[e].time # 0 /\ About[e].class \in Classes
         /\ About[e].kind = "bounced" => About[e].class \in BounceTypes
         /\ About[e].kind = "test" => About[e].recipient = Nobody
BY InboxAssumption DEF InboxAssumption

LEMMA ReduceColumns ==
  ASSUME NEW x, RowTyped(x), NEW e \in Webhooks
  PROVE  Reduced(x, e, Reduce(x, e)) /\ Reduce(x, e) = [c \in Columns |-> Reduce(x, e)[c]]
<1> DEFINE kind == About[e].kind
           time == About[e].time
           class == About[e].class
           seen == [x EXCEPT !.lastProviderEventAt = LastOccurrence(x.lastProviderEventAt, time)]
<1>1. kind \in Kinds
  BY AboutIs
<1>2. /\ seen = [c \in Columns |-> seen[c]]
      /\ \A c \in Columns : seen[c] = IF c = "lastProviderEventAt" THEN LastOccurrence(x.lastProviderEventAt, time) ELSE x[c]
  BY DEF RowTyped
<1>3. CASE kind = "sent"
  <2>1. Reduce(x, e) = seen
    BY <1>3 DEF Reduce
  <2> HIDE DEF seen
  <2> QED BY <1>2, <1>3, <2>1 DEF Reduced, Columns, Times
<1>4. CASE kind = "delivered"
  <2> DEFINE first == [seen EXCEPT !.deliveredAt = FirstOccurrence(seen.deliveredAt, time)]
  <2>1. Reduce(x, e) = [first EXCEPT !.deliveryState = IF seen.deliveryState = "UNKNOWN" THEN "DELIVERED" ELSE seen.deliveryState]
    BY <1>4 DEF Reduce
  <2> HIDE DEF seen
  <2>2. /\ first = [c \in Columns |-> first[c]]
        /\ \A c \in Columns : first[c] = IF c = "deliveredAt" THEN FirstOccurrence(seen.deliveredAt, time) ELSE seen[c]
    BY <1>2 DEF Columns, Times
  <2> HIDE DEF first
  <2> QED BY <1>2, <1>4, <2>1, <2>2 DEF Reduced, Columns, Times
<1>5. CASE kind = "opened"
  <2>1. Reduce(x, e) = [seen EXCEPT !.openedAt = FirstOccurrence(seen.openedAt, time)]
    BY <1>5 DEF Reduce
  <2> HIDE DEF seen
  <2> QED BY <1>2, <1>5, <2>1 DEF Reduced, Columns, Times
<1>6. CASE kind = "clicked"
  <2> DEFINE first == [seen EXCEPT !.clickedAt = FirstOccurrence(seen.clickedAt, time)]
  <2>1. Reduce(x, e) = [first EXCEPT !.listingClickedAt = IF class = "listing" THEN FirstOccurrence(seen.listingClickedAt, time) ELSE seen.listingClickedAt]
    BY <1>6 DEF Reduce
  <2> HIDE DEF seen
  <2>2. /\ first = [c \in Columns |-> first[c]]
        /\ \A c \in Columns : first[c] = IF c = "clickedAt" THEN FirstOccurrence(seen.clickedAt, time) ELSE seen[c]
    BY <1>2 DEF Columns, Times
  <2> HIDE DEF first
  <2> QED BY <1>2, <1>6, <2>1, <2>2 DEF Reduced, Columns, Times
<1>7. CASE kind = "delivery_delayed"
  <2>1. Reduce(x, e) = [seen EXCEPT !.lastErrorCode =
                         IF x.sendState # "PERMANENT_FAILED" /\ x.deliveredAt = 0 /\ x.bouncedAt = 0
                              /\ x.providerSuppressedAt = 0
                         THEN "delivery_delayed" ELSE seen.lastErrorCode]
    BY <1>7 DEF Reduce
  <2> HIDE DEF seen
  <2> QED BY <1>2, <1>7, <2>1 DEF Reduced, Columns, Times
<1>8. CASE kind = "bounced"
  <2> DEFINE first == [seen EXCEPT !.deliveryState = BouncedFrom(seen.deliveryState)]
             second == [first EXCEPT !.bouncedAt = FirstOccurrence(seen.bouncedAt, time)]
             type == IF shouldReplaceBounceClassification(seen.bounceType, class) THEN class ELSE seen.bounceType
  <2>1. Reduce(x, e) = [second EXCEPT !.bounceType = type]
    BY <1>8 DEF Reduce
  <2> HIDE DEF seen, type
  <2>2. /\ first = [c \in Columns |-> first[c]]
        /\ \A c \in Columns : first[c] = IF c = "deliveryState" THEN BouncedFrom(seen.deliveryState) ELSE seen[c]
    BY <1>2 DEF Columns, Times
  <2> HIDE DEF first
  <2>3. /\ second = [c \in Columns |-> second[c]]
        /\ \A c \in Columns : second[c] = IF c = "bouncedAt" THEN FirstOccurrence(seen.bouncedAt, time) ELSE first[c]
    BY <2>2 DEF Columns, Times
  <2> HIDE DEF second
  <2>4. type = IF shouldReplaceBounceClassification(x.bounceType, class) THEN class ELSE x.bounceType
    BY <1>2 DEF type, Columns, Times
  <2> QED BY <1>2, <1>8, <2>1, <2>2, <2>3, <2>4 DEF Reduced, Columns, Times
<1>9. CASE kind = "complained"
  <2> DEFINE first == [seen EXCEPT !.deliveryState = "COMPLAINED"]
  <2>1. Reduce(x, e) = [first EXCEPT !.complainedAt = FirstOccurrence(seen.complainedAt, time)]
    BY <1>9 DEF Reduce
  <2> HIDE DEF seen
  <2>2. /\ first = [c \in Columns |-> first[c]]
        /\ \A c \in Columns : first[c] = IF c = "deliveryState" THEN "COMPLAINED" ELSE seen[c]
    BY <1>2 DEF Columns, Times
  <2> HIDE DEF first
  <2> QED BY <1>2, <1>9, <2>1, <2>2 DEF Reduced, Columns, Times
<1>10. CASE kind = "suppressed"
  <2> DEFINE first == [seen EXCEPT !.deliveryState = IF seen.deliveryState \in {"COMPLAINED", "BOUNCED"} THEN seen.deliveryState ELSE "PROVIDER_SUPPRESSED"]
  <2>1. Reduce(x, e) = [first EXCEPT !.providerSuppressedAt = FirstOccurrence(seen.providerSuppressedAt, time)]
    BY <1>10 DEF Reduce
  <2> HIDE DEF seen
  <2>2. /\ first = [c \in Columns |-> first[c]]
        /\ \A c \in Columns : first[c] = IF c = "deliveryState" THEN IF seen.deliveryState \in {"COMPLAINED", "BOUNCED"} THEN seen.deliveryState ELSE "PROVIDER_SUPPRESSED" ELSE seen[c]
    BY <1>2 DEF Columns, Times
  <2> HIDE DEF first
  <2> QED BY <1>2, <1>10, <2>1, <2>2 DEF Reduced, Columns, Times
<1>11. CASE kind = "failed"
  <2> DEFINE first == [seen EXCEPT !.sendState = "PERMANENT_FAILED"]
  <2>1. Reduce(x, e) = [first EXCEPT !.lastErrorCode = "provider_failed"]
    BY <1>11 DEF Reduce
  <2> HIDE DEF seen
  <2>2. /\ first = [c \in Columns |-> first[c]]
        /\ \A c \in Columns : first[c] = IF c = "sendState" THEN "PERMANENT_FAILED" ELSE seen[c]
    BY <1>2 DEF Columns, Times
  <2> HIDE DEF first
  <2> QED BY <1>2, <1>11, <2>1, <2>2 DEF Reduced, Columns, Times
<1>12. CASE kind \in {"test", "other"}
  <2>1. Reduce(x, e) = x
    BY <1>12 DEF Reduce
  <2> QED BY <1>12, <2>1 DEF Reduced, RowTyped
<1> QED BY <1>1, <1>3, <1>4, <1>5, <1>6, <1>7, <1>8, <1>9, <1>10, <1>11, <1>12 DEF Kinds

-----------------------------------------------------------------------------
(* A row and the set of events that made it.                               *)

OfKind(P, kind) == {e \in P : About[e].kind = kind}
OnListing(P) == {e \in OfKind(P, "clicked") : About[e].class = "listing"}
ClassesOf(E) == {About[e].class : e \in E}
IsEarliest(t, E) ==
  IF E = {} THEN t = 0 ELSE \E e \in E : t = About[e].time /\ \A f \in E : t <= About[f].time
IsLatest(t, E) ==
  IF E = {} THEN t = 0 ELSE \E e \in E : t = About[e].time /\ \A f \in E : t >= About[f].time

StateOf(P) ==
  IF OfKind(P, "complained") # {} THEN "COMPLAINED"
  ELSE IF OfKind(P, "bounced") # {} THEN "BOUNCED"
  ELSE IF OfKind(P, "suppressed") # {} THEN "PROVIDER_SUPPRESSED"
  ELSE IF OfKind(P, "delivered") # {} THEN "DELIVERED" ELSE "UNKNOWN"

RowReflects(x, P) ==
  /\ IsEarliest(x.deliveredAt, OfKind(P, "delivered"))
  /\ IsEarliest(x.openedAt, OfKind(P, "opened"))
  /\ IsEarliest(x.clickedAt, OfKind(P, "clicked"))
  /\ IsEarliest(x.listingClickedAt, OnListing(P))
  /\ IsEarliest(x.bouncedAt, OfKind(P, "bounced"))
  /\ IsEarliest(x.complainedAt, OfKind(P, "complained"))
  /\ IsEarliest(x.providerSuppressedAt, OfKind(P, "suppressed"))
  /\ IsLatest(x.lastProviderEventAt, P \ OfKind(P, "other"))
  /\ x.deliveryState = StateOf(P)
  /\ \A class \in ClassesOf(OfKind(P, "bounced")) : bounceSeverity[class] <= bounceSeverity[x.bounceType]
  /\ OfKind(P, "failed") # {} => x.sendState = "PERMANENT_FAILED" /\ x.lastErrorCode = "provider_failed"

LEMMA OneMore ==
  ASSUME NEW P \in SUBSET Webhooks, NEW e \in Webhooks, NEW kind
  PROVE  OfKind(P \cup {e}, kind) = IF About[e].kind = kind THEN OfKind(P, kind) \cup {e} ELSE OfKind(P, kind)
BY DEF OfKind

LEMMA EarliestAdds ==
  ASSUME NEW E \in SUBSET Webhooks, NEW e \in Webhooks, NEW t \in Nat, IsEarliest(t, E)
  PROVE  IsEarliest(FirstOccurrence(t, About[e].time), E \cup {e})
<1>1. About[e].time \in Nat /\ About[e].time # 0 /\ \A f \in E : About[f].time \in Nat /\ About[f].time # 0
  BY AboutIs
<1>2. CASE E = {}
  BY <1>1, <1>2 DEF IsEarliest, FirstOccurrence
<1>3. CASE E # {}
  <2>1. PICK d \in E : t = About[d].time /\ \A f \in E : t <= About[f].time
    BY <1>3 DEF IsEarliest
  <2>2. CASE t < About[e].time
    BY <1>1, <2>1, <2>2 DEF IsEarliest, FirstOccurrence
  <2>3. CASE ~(t < About[e].time)
    <3>1. FirstOccurrence(t, About[e].time) = About[e].time
      BY <2>3 DEF FirstOccurrence
    <3>2. \A f \in E : About[e].time <= About[f].time
      BY <1>1, <2>1, <2>3
    <3> QED BY <1>1, <3>1, <3>2 DEF IsEarliest
  <2> QED BY <2>2, <2>3
<1> QED BY <1>2, <1>3

LEMMA LatestAdds ==
  ASSUME NEW E \in SUBSET Webhooks, NEW e \in Webhooks, NEW t \in Nat, IsLatest(t, E)
  PROVE  IsLatest(LastOccurrence(t, About[e].time), E \cup {e})
<1>1. About[e].time \in Nat /\ About[e].time # 0 /\ \A f \in E : About[f].time \in Nat /\ About[f].time # 0
  BY AboutIs
<1>2. CASE E = {}
  BY <1>1, <1>2 DEF IsLatest, LastOccurrence
<1>3. CASE E # {}
  <2>1. PICK d \in E : t = About[d].time /\ \A f \in E : t >= About[f].time
    BY <1>3 DEF IsLatest
  <2>2. CASE t > About[e].time
    BY <1>1, <2>1, <2>2 DEF IsLatest, LastOccurrence
  <2>3. CASE ~(t > About[e].time)
    <3>1. LastOccurrence(t, About[e].time) = About[e].time
      BY <2>3 DEF LastOccurrence
    <3>2. \A f \in E : About[e].time >= About[f].time
      BY <1>1, <2>1, <2>3
    <3> QED BY <1>1, <3>1, <3>2 DEF IsLatest
  <2> QED BY <2>2, <2>3
<1> QED BY <1>2, <1>3

\* The CHOOSE of Min and Max picks that very time.
LEMMA EarliestIs ==
  ASSUME NEW E \in SUBSET Webhooks, NEW t, IsEarliest(t, E)
  PROVE  t = Earliest(E)
<1>1. CASE E = {}
  BY <1>1 DEF IsEarliest, Earliest
<1>2. CASE E # {}
  <2>1. \A f \in E : About[f].time \in Nat
    BY AboutIs
  <2>2. t \in TimesOf(E) /\ \A u \in TimesOf(E) : u \in Nat /\ t <= u
    BY <1>2, <2>1 DEF IsEarliest, TimesOf
  <2>3. \A u \in TimesOf(E) : (\A v \in TimesOf(E) : u <= v) => u = t
    BY <2>2
  <2>4. t = Min(TimesOf(E))
    BY <2>2, <2>3 DEF Min
  <2> QED BY <1>2, <2>4 DEF Earliest
<1> QED BY <1>1, <1>2

LEMMA LatestIs ==
  ASSUME NEW E \in SUBSET Webhooks, NEW t, IsLatest(t, E)
  PROVE  t = Latest(E)
<1>1. CASE E = {}
  BY <1>1 DEF IsLatest, Latest
<1>2. CASE E # {}
  <2>1. \A f \in E : About[f].time \in Nat
    BY AboutIs
  <2>2. t \in TimesOf(E) /\ \A u \in TimesOf(E) : u \in Nat /\ t >= u
    BY <1>2, <2>1 DEF IsLatest, TimesOf
  <2>3. \A u \in TimesOf(E) : (\A v \in TimesOf(E) : u >= v) => u = t
    BY <2>2
  <2>4. t = Max(TimesOf(E))
    BY <2>2, <2>3 DEF Max
  <2> QED BY <1>2, <2>4 DEF Latest
<1> QED BY <1>1, <1>2

\* Folding one more event into a row that reflects P makes it reflect P and
\* that event, whichever event of a recipient it is.
LEMMA ReduceReflects ==
  ASSUME NEW P \in SUBSET Webhooks, NEW e \in Webhooks, About[e].kind # "test",
         NEW x, RowTyped(x), RowReflects(x, P)
  PROVE  RowTyped(Reduce(x, e)) /\ RowReflects(Reduce(x, e), P \cup {e})
<1> DEFINE y == Reduce(x, e)
           Q == P \cup {e}
           kind == About[e].kind
           time == About[e].time
           class == About[e].class
<1>1. Reduced(x, e, y) /\ y = [c \in Columns |-> y[c]]
  BY ReduceColumns
<1>2. /\ \A k : OfKind(P, k) \in SUBSET Webhooks
      /\ \A k : OfKind(Q, k) = IF kind = k THEN OfKind(P, k) \cup {e} ELSE OfKind(P, k)
      /\ P \ OfKind(P, "other") \in SUBSET Webhooks /\ OnListing(P) \in SUBSET Webhooks
  BY OneMore DEF OfKind, OnListing
<1>3. kind \in Kinds /\ time \in Nat /\ class \in Classes /\ (kind = "bounced" => class \in BounceTypes)
  BY AboutIs
<1>4. /\ x.deliveredAt \in Nat /\ x.openedAt \in Nat /\ x.clickedAt \in Nat /\ x.listingClickedAt \in Nat
      /\ x.bouncedAt \in Nat /\ x.complainedAt \in Nat /\ x.providerSuppressedAt \in Nat
      /\ x.lastProviderEventAt \in Nat
      /\ x.deliveryState \in DeliveryStates /\ x.bounceType \in BounceTypes \cup {"none"}
  BY DEF RowTyped, Times
<1> HIDE DEF y, Q, kind, time, class
<1>5. RowTyped(y)
  <2>1. \A s, t \in Nat : FirstOccurrence(s, t) \in Nat /\ LastOccurrence(s, t) \in Nat
    BY DEF FirstOccurrence, LastOccurrence
  <2>2. \A c \in Times : y[c] \in Nat
    <3>1. /\ y.deliveredAt \in Nat /\ y.openedAt \in Nat /\ y.clickedAt \in Nat /\ y.listingClickedAt \in Nat
          /\ y.bouncedAt \in Nat /\ y.complainedAt \in Nat /\ y.providerSuppressedAt \in Nat
          /\ y.lastProviderEventAt \in Nat
      BY <1>1, <1>3, <1>4, <2>1 DEF Reduced, kind, time
    <3> QED BY <3>1 DEF Times
  <2>3. y.deliveryState \in DeliveryStates
    BY <1>1, <1>4 DEF Reduced, BouncedFrom, DeliveryStates
  <2>4. y.bounceType \in BounceTypes \cup {"none"}
    BY <1>1, <1>3, <1>4 DEF Reduced, kind, class
  <2> QED BY <1>1, <2>2, <2>3, <2>4 DEF RowTyped
<1>6. /\ IsEarliest(y.deliveredAt, OfKind(Q, "delivered"))
      /\ IsEarliest(y.openedAt, OfKind(Q, "opened"))
      /\ IsEarliest(y.clickedAt, OfKind(Q, "clicked"))
      /\ IsEarliest(y.bouncedAt, OfKind(Q, "bounced"))
      /\ IsEarliest(y.complainedAt, OfKind(Q, "complained"))
      /\ IsEarliest(y.providerSuppressedAt, OfKind(Q, "suppressed"))
  <2>1. ASSUME NEW k, NEW t \in Nat, IsEarliest(t, OfKind(P, k))
        PROVE  IsEarliest(IF kind = k THEN FirstOccurrence(t, time) ELSE t, OfKind(Q, k))
    <3>1. IsEarliest(FirstOccurrence(t, time), OfKind(P, k) \cup {e})
      BY <1>2, <2>1, EarliestAdds DEF time
    <3> QED BY <1>2, <2>1, <3>1
  <2> QED BY <1>1, <1>4, <2>1 DEF Reduced, RowReflects, kind, time
<1>7. IsEarliest(y.listingClickedAt, OnListing(Q))
  <2>1. OnListing(Q) = IF kind = "clicked" /\ class = "listing" THEN OnListing(P) \cup {e} ELSE OnListing(P)
    BY <1>2 DEF OnListing, class
  <2>2. IsEarliest(FirstOccurrence(x.listingClickedAt, time), OnListing(P) \cup {e})
    BY <1>2, <1>4, EarliestAdds DEF RowReflects, time
  <2> QED BY <1>1, <2>1, <2>2 DEF Reduced, RowReflects, kind, time, class
<1>8. IsLatest(y.lastProviderEventAt, Q \ OfKind(Q, "other"))
  <2>1. kind # "other" => Q \ OfKind(Q, "other") = (P \ OfKind(P, "other")) \cup {e}
    BY <1>2 DEF Q, OfKind, kind
  <2>2. kind = "other" => Q \ OfKind(Q, "other") = P \ OfKind(P, "other")
    BY <1>2 DEF Q, OfKind, kind
  <2>3. IsLatest(LastOccurrence(x.lastProviderEventAt, time), (P \ OfKind(P, "other")) \cup {e})
    BY <1>2, <1>4, LatestAdds DEF RowReflects, time
  <2> QED BY <1>1, <2>1, <2>2, <2>3 DEF Reduced, RowReflects, kind, time
<1>9. y.deliveryState = StateOf(Q)
  <2>1. x.deliveryState = StateOf(P)
    BY DEF RowReflects
  <2>2. \A k : OfKind(Q, k) # {} <=> kind = k \/ OfKind(P, k) # {}
    BY <1>2
  <2> QED BY <1>1, <2>1, <2>2 DEF Reduced, StateOf, BouncedFrom, kind
<1>10. \A c \in ClassesOf(OfKind(Q, "bounced")) : bounceSeverity[c] <= bounceSeverity[y.bounceType]
  <2>1. \A b \in BounceTypes \cup {"none"} : bounceSeverity[b] \in Nat
    BY DEF bounceSeverity, BounceTypes
  <2>2. bounceSeverity[x.bounceType] <= bounceSeverity[y.bounceType]
    BY <1>1, <1>3, <1>4, <2>1 DEF Reduced, shouldReplaceBounceClassification, kind, class
  <2>3. kind = "bounced" => bounceSeverity[class] <= bounceSeverity[y.bounceType]
    BY <1>1, <1>3, <1>4, <2>1 DEF Reduced, shouldReplaceBounceClassification, kind, class
  <2>4. \A d \in OfKind(P, "bounced") : bounceSeverity[About[d].class] <= bounceSeverity[x.bounceType]
    BY DEF RowReflects, ClassesOf
  <2>5. \A d \in OfKind(P, "bounced") : About[d].class \in BounceTypes
    BY AboutIs DEF OfKind
  <2>6. y.bounceType \in BounceTypes \cup {"none"}
    BY <1>5 DEF RowTyped
  <2>7. \A d \in OfKind(P, "bounced") : bounceSeverity[About[d].class] <= bounceSeverity[y.bounceType]
    BY <1>4, <2>1, <2>2, <2>4, <2>5, <2>6
  <2>8. \A d \in OfKind(Q, "bounced") : bounceSeverity[About[d].class] <= bounceSeverity[y.bounceType]
    BY <1>2, <2>3, <2>7 DEF class
  <2> QED BY <2>8 DEF ClassesOf
<1>11. OfKind(Q, "failed") # {} => y.sendState = "PERMANENT_FAILED" /\ y.lastErrorCode = "provider_failed"
  BY <1>1, <1>2 DEF Reduced, RowReflects, kind
<1> QED BY <1>5, <1>6, <1>7, <1>8, <1>9, <1>10, <1>11 DEF RowReflects, y, Q

-----------------------------------------------------------------------------
(* Every row reflects the events applied to it; counters and jobs stay in   *)
(* their bounds.                                                           *)

RowsReflect ==
  /\ row = [r \in Recipients |-> row[r]]
  /\ \A r \in Recipients : RowTyped(row[r]) /\ RowReflects(row[r], Applied(r))
\* An event that is not settled has a retry left.
RetriesLeft ==
  /\ tries \in [Webhooks -> 0 .. Retries + 1] /\ jobs \subseteq Webhooks \X (0 .. Retries)
  /\ \A e \in Webhooks : Pending(e) => tries[e] <= Retries
  /\ repeats \in 0 .. MaxRepeats /\ operations \in 0 .. MaxOperations
InboxInv == IInv /\ RowsReflect /\ RetriesLeft

LEMMA InboxStarts == Init => InboxInv
<1> SUFFICES ASSUME Init PROVE InboxInv
  OBVIOUS
<1>1. RowTyped(Fresh)
  BY DEF RowTyped, Fresh, Columns, Times, DeliveryStates
<1>2. RowReflects(Fresh, {})
  BY DEF RowReflects, OfKind, OnListing, ClassesOf, IsEarliest, IsLatest, StateOf, Fresh, Columns, Times
<1>3. \A r \in Recipients : Applied(r) = {}
  BY DEF Init, Applied
<1>4. RowsReflect
  BY <1>1, <1>2, <1>3 DEF Init, RowsReflect
<1>5. RetriesLeft
  BY InboxAssumption DEF Init, RetriesLeft, InboxAssumption
<1> QED BY <1>4, <1>5, InitEstablishes DEF InboxInv

\* Steps that apply nothing to anybody.
LEMMA NothingApplied ==
  ASSUME InboxInv, UNCHANGED row, \A r \in Recipients : Applied(r)' = Applied(r)
  PROVE  RowsReflect'
BY DEF InboxInv, RowsReflect

LEMMA StatusOnly ==
  ASSUME InboxInv, UNCHANGED row, NEW e \in Webhooks, NEW status, event' = [event EXCEPT ![e] = status],
         event[e] # "PROCESSED", status # "PROCESSED" \/ About[e].kind = "test"
  PROVE  RowsReflect'
<1>1. \A d \in Webhooks : event'[d] = IF d = e THEN status ELSE event[d]
  BY DEF InboxInv, IInv, MatchedIsNamed
<1>2. About[e].kind = "test" => About[e].recipient \notin Recipients
  BY AboutIs, InboxAssumption DEF InboxAssumption
<1>3. ASSUME NEW r \in Recipients PROVE Applied(r)' = Applied(r)
  BY <1>1, <1>2 DEF Applied
<1> QED BY <1>3, NothingApplied

LEMMA ApplyReflects ==
  ASSUME InboxInv, NEW e \in Webhooks, Apply(e)
  PROVE  RowsReflect'
<1> DEFINE r == About[e].recipient
<1>1. /\ row' = [row EXCEPT ![r] = Reduce(row[r], e)] /\ event' = [event EXCEPT ![e] = "PROCESSED"]
      /\ event[e] # "PROCESSED"
  BY DEF Apply, Fold, Pending, Settled
<1>2. r \in Recipients /\ About[e].kind # "test"
  <2>1. r \in Recipients
    BY FoundHasAddress DEF InboxInv, IInv, MatchedIsNamed, Apply, Named
  <2> QED BY <2>1, AboutIs, InboxAssumption DEF InboxAssumption
<1>3. Applied(r) \in SUBSET Webhooks /\ RowTyped(row[r]) /\ RowReflects(row[r], Applied(r))
  BY <1>2 DEF Applied, InboxInv, RowsReflect
<1>4. RowTyped(Reduce(row[r], e)) /\ RowReflects(Reduce(row[r], e), Applied(r) \cup {e})
  BY <1>2, <1>3, ReduceReflects
<1> DEFINE y == Reduce(row[r], e)
<1>5. \A d \in Webhooks : event'[d] = IF d = e THEN "PROCESSED" ELSE event[d]
  BY <1>1 DEF InboxInv, IInv, MatchedIsNamed
<1>6. Applied(r)' = Applied(r) \cup {e} /\ \A q \in Recipients : q # r => Applied(q)' = Applied(q)
  BY <1>5 DEF Applied
<1>7. row' = [row EXCEPT ![r] = y] /\ row = [q \in Recipients |-> row[q]]
  BY <1>1 DEF InboxInv, RowsReflect
<1> HIDE DEF y
<1>8. row' = [q \in Recipients |-> row'[q]] /\ \A q \in Recipients : row'[q] = IF q = r THEN y ELSE row[q]
  BY <1>2, <1>7
<1>9. RowTyped(y) /\ RowReflects(y, Applied(r)')
  BY <1>4, <1>6 DEF y
<1>10. ASSUME NEW q \in Recipients PROVE RowTyped(row'[q]) /\ RowReflects(row'[q], Applied(q)')
  <2>1. CASE q = r
    BY <1>8, <1>9, <2>1
  <2>2. CASE q # r
    BY <1>6, <1>8, <2>2 DEF InboxInv, RowsReflect
  <2> QED BY <2>1, <2>2
<1> QED BY <1>8, <1>10 DEF RowsReflect

\* What a run of a job does to the counters.
LEMMA RunCounts ==
  ASSUME InboxInv, NEW e \in Webhooks, NEW n \in 0 .. Retries, NEW completed \in BOOLEAN,
         RunJob(e, n, completed)
  PROVE  RetriesLeft'
<1> USE InboxAssumption DEF InboxAssumption
<1>1. /\ tries \in [Webhooks -> 0 .. Retries + 1] /\ event \in [Webhooks -> Statuses]
      /\ \A d \in Webhooks : Pending(d) => tries[d] <= Retries
  BY DEF InboxInv, RetriesLeft, IInv, MatchedIsNamed
<1>2. repeats' \in 0 .. MaxRepeats /\ operations' \in 0 .. MaxOperations
  BY DEF RunJob, InboxInv, RetriesLeft
<1>3. jobs' \subseteq Webhooks \X (0 .. Retries)
  <2>1. RetryJob(e) \subseteq Webhooks \X (0 .. Retries)
    BY <1>1 DEF RetryJob, HasDelay
  <2> QED BY <2>1 DEF RunJob, InboxInv, RetriesLeft
<1>4. ASSUME NEW status \in Statuses, event' = [event EXCEPT ![e] = status], status \in Settled, Pending(e),
             UNCHANGED tries \/ tries' = [tries EXCEPT ![e] = tries[e] + 1]
      PROVE  tries' \in [Webhooks -> 0 .. Retries + 1] /\ \A d \in Webhooks : Pending(d)' => tries'[d] <= Retries
  BY <1>1, <1>4 DEF Pending
<1>5. CASE Skip(e)
  BY <1>1, <1>2, <1>3, <1>5 DEF Skip, RetriesLeft, Pending
<1>6. CASE IgnoreTest(e) \/ DeadLetter(e) \/ Apply(e)
  BY <1>2, <1>3, <1>4, <1>6 DEF IgnoreTest, DeadLetter, Apply, Fold, Orphan, Statuses, Settled, RetriesLeft
<1>7. CASE Reconcile(e)
  <2>1. tries' = [tries EXCEPT ![e] = tries[e] + 1] /\ tries[e] < Retries /\ Pending(e)
        /\ event' = [event EXCEPT ![e] = "RETRY_PENDING"]
    BY <1>7 DEF Reconcile, HasDelay, Orphan
  <2>2. tries' \in [Webhooks -> 0 .. Retries + 1] /\ \A d \in Webhooks : Pending(d)' => tries'[d] <= Retries
    BY <1>1, <2>1 DEF Pending
  <2> QED BY <1>2, <1>3, <2>2 DEF RetriesLeft
<1> QED BY <1>5, <1>6, <1>7 DEF RunJob

LEMMA InboxStep == InboxInv /\ [Next]_vars => InboxInv'
<1> SUFFICES ASSUME InboxInv, [Next]_vars PROVE InboxInv'
  OBVIOUS
<1>1. IInv'
  BY NextPreserves DEF InboxInv
<1>2. ASSUME NEW r \in Recipients, Link(r) PROVE RowsReflect' /\ RetriesLeft'
  BY <1>2 DEF Link, InboxInv, RowsReflect, RetriesLeft, Applied, Pending
<1>3. ASSUME NEW e \in Webhooks, Ingest(e) PROVE RowsReflect' /\ RetriesLeft'
  <2>1. PICK status \in {"MATCHED", "RECEIVED"} : event' = [event EXCEPT ![e] = status]
    BY <1>3 DEF Ingest
  <2>2. /\ event[e] = "ABSENT" /\ jobs' = jobs \cup {<<e, 0>>} /\ UNCHANGED <<tries, row, repeats, operations>>
        /\ event \in [Webhooks -> Statuses]
    BY <1>3 DEF Ingest, InboxInv, IInv, MatchedIsNamed
  <2>3. RowsReflect'
    BY <2>1, <2>2, StatusOnly
  <2>4. \A d \in Webhooks : Pending(d)' => Pending(d)
    BY <2>1, <2>2 DEF Pending, Settled
  <2>5. RetriesLeft'
    BY <2>2, <2>4, InboxAssumption DEF InboxInv, RetriesLeft, InboxAssumption
  <2> QED BY <2>3, <2>5
<1>4. ASSUME NEW e \in Webhooks, NEW n \in 0 .. Retries, NEW completed \in BOOLEAN, RunJob(e, n, completed)
      PROVE  RowsReflect' /\ RetriesLeft'
  <2>1. ASSUME Skip(e) PROVE RowsReflect'
    BY <2>1, NothingApplied DEF Skip, Applied
  <2>2. ASSUME IgnoreTest(e) \/ Reconcile(e) \/ DeadLetter(e) PROVE RowsReflect'
    BY <2>2, StatusOnly DEF IgnoreTest, Reconcile, DeadLetter, Orphan, Pending, Settled
  <2>3. ASSUME Apply(e) PROVE RowsReflect'
    BY <2>3, ApplyReflects
  <2> QED BY <1>4, <2>1, <2>2, <2>3, RunCounts DEF RunJob
<1>5. ASSUME NEW a \in Addresses, SuppressManually(a) \/ Unsubscribe(a) \/ Release(a)
      PROVE  RowsReflect' /\ RetriesLeft'
  <2>1. UNCHANGED <<event, tries, jobs, row, repeats>> /\ operations' \in 0 .. MaxOperations
    BY <1>5, InboxAssumption DEF SuppressManually, Unsubscribe, Release, Operate, InboxInv, RetriesLeft, InboxAssumption
  <2> QED BY <2>1 DEF InboxInv, RowsReflect, RetriesLeft, Applied, Pending
<1>6. ASSUME UNCHANGED vars PROVE RowsReflect' /\ RetriesLeft'
  BY <1>6 DEF vars, InboxInv, RowsReflect, RetriesLeft, Applied, Pending
<1> QED BY <1>1, <1>2, <1>3, <1>4, <1>5, <1>6 DEF Next, InboxInv

\* Every step keeps each recipient's row the reduction of its applied events,
\* and the jobs and retries of an event within what its tries allow.
THEOREM InboxInductive == Spec => []InboxInv
BY InboxStarts, InboxStep, PTL DEF Spec

\* Rows, statuses, retries and jobs stay within their types and bounds: no
\* event is reconciled once more than there are delays (processWebhookEvent,
\* retryDelaysMs).
THEOREM TypeCorrect == Spec => []TypeOK
<1>1. InboxInv => TypeOK
  <2> SUFFICES ASSUME InboxInv PROVE TypeOK
    OBVIOUS
  <2>1. ASSUME NEW r \in Recipients
        PROVE  /\ DOMAIN row[r] = Columns /\ \A c \in Times : row[r][c] \in Nat
               /\ row[r].deliveryState \in DeliveryStates /\ row[r].bounceType \in BounceTypes \cup {"none"}
    <3>1. RowTyped(row[r])
      BY DEF InboxInv, RowsReflect
    <3> DEFINE x == row[r]
    <3>2. x = [c \in Columns |-> x[c]]
      BY <3>1 DEF RowTyped
    <3> HIDE DEF x
    <3>3. DOMAIN x = Columns
      BY <3>2
    <3> QED BY <3>1, <3>3 DEF RowTyped, x
  <2> QED BY <2>1 DEF InboxInv, IInv, SuppressionTyped, MatchedIsNamed, RetriesLeft, TypeOK, DeliveryStates
<1> QED BY <1>1, InboxInductive, PTL

\* The reducer's columns are a function of the set of applied events, for any
\* number of webhooks and recipients, whatever the order they are applied in
\* and however often their jobs run (processWebhookEvent).
THEOREM RowsAreReductions == Spec => []RowIsReduction
<1>1. ASSUME NEW P \in SUBSET Webhooks, NEW kind PROVE OfKind(P, kind) \in SUBSET Webhooks
  BY DEF OfKind
<1>2. InboxInv => RowIsReduction
  <2> SUFFICES ASSUME InboxInv, NEW r \in Recipients
               PROVE  LET P == Applied(r)
                          Of(kind) == {e \in P : About[e].kind = kind}
                          bounces == {About[e].class : e \in Of("bounced")}
                      IN
                      /\ row[r].deliveredAt = Earliest(Of("delivered"))
                      /\ row[r].openedAt = Earliest(Of("opened"))
                      /\ row[r].clickedAt = Earliest(Of("clicked"))
                      /\ row[r].listingClickedAt = Earliest({e \in Of("clicked") : About[e].class = "listing"})
                      /\ row[r].bouncedAt = Earliest(Of("bounced"))
                      /\ row[r].complainedAt = Earliest(Of("complained"))
                      /\ row[r].providerSuppressedAt = Earliest(Of("suppressed"))
                      /\ row[r].lastProviderEventAt = Latest(P \ Of("other"))
                      /\ row[r].deliveryState =
                           IF Of("complained") # {} THEN "COMPLAINED"
                           ELSE IF bounces # {} THEN "BOUNCED"
                           ELSE IF Of("suppressed") # {} THEN "PROVIDER_SUPPRESSED"
                           ELSE IF Of("delivered") # {} THEN "DELIVERED" ELSE "UNKNOWN"
                      /\ bounces # {} => \A class \in bounces : bounceSeverity[class] <= bounceSeverity[row[r].bounceType]
                      /\ Of("failed") # {} => row[r].sendState = "PERMANENT_FAILED" /\ row[r].lastErrorCode = "provider_failed"
    BY DEF RowIsReduction
  <2> DEFINE P == Applied(r)
             x == row[r]
  <2>1. RowReflects(x, P) /\ P \in SUBSET Webhooks
    BY DEF InboxInv, RowsReflect, Applied
  <2> HIDE DEF P, x
  <2>2. /\ x.deliveredAt = Earliest(OfKind(P, "delivered"))
        /\ x.openedAt = Earliest(OfKind(P, "opened"))
        /\ x.clickedAt = Earliest(OfKind(P, "clicked"))
        /\ x.bouncedAt = Earliest(OfKind(P, "bounced"))
        /\ x.complainedAt = Earliest(OfKind(P, "complained"))
        /\ x.providerSuppressedAt = Earliest(OfKind(P, "suppressed"))
    BY <1>1, <2>1, EarliestIs DEF RowReflects
  <2>3. x.listingClickedAt = Earliest(OnListing(P))
    <3>1. OnListing(P) \in SUBSET Webhooks
      BY <2>1 DEF OnListing, OfKind
    <3> QED BY <2>1, <3>1, EarliestIs DEF RowReflects
  <2>4. x.lastProviderEventAt = Latest(P \ OfKind(P, "other"))
    <3>1. P \ OfKind(P, "other") \in SUBSET Webhooks
      BY <2>1
    <3> QED BY <2>1, <3>1, LatestIs DEF RowReflects
  <2>5. ClassesOf(OfKind(P, "bounced")) # {} <=> OfKind(P, "bounced") # {}
    BY DEF ClassesOf
  <2> QED BY <2>1, <2>2, <2>3, <2>4, <2>5 DEF RowReflects, StateOf, OfKind, OnListing, ClassesOf, P, x
<1> QED BY <1>2, InboxInductive, PTL
=============================================================================
