--------------------------- MODULE MCWebhookInbox ---------------------------
(* WebhookInbox on small instances: which events there are. *)
EXTENDS WebhookInbox, TLC

CONSTANTS r1, r2, r3, a1, a2, e1, e2, e3, e4, e5, e6, e7, e8, e9, e10, e11, e12

Event(kind, recipient, time, class) ==
  [kind |-> kind, recipient |-> recipient, time |-> time, class |-> class]

\* r1 and r2 are one address in two campaigns.
OneAddress == (r1 :> a1) @@ (r2 :> a1)
TwoAddresses == OneAddress @@ (r3 :> a2)

\* What happened to one recipient, and a bounce of the same address in
\* another campaign, told in any order.
Troubled ==
  (e1 :> Event("delivered", r1, 2, "none")) @@ (e2 :> Event("suppressed", r1, 3, "none"))
  @@ (e3 :> Event("bounced", r1, 3, "Undetermined")) @@ (e4 :> Event("complained", r1, 4, "none"))
  @@ (e5 :> Event("bounced", r1, 2, "Permanent")) @@ (e6 :> Event("bounced", r2, 5, "Transient"))

\* Engagement, a delay and a failure, an unknown kind.
Engaged ==
  (e7 :> Event("opened", r1, 3, "none")) @@ (e8 :> Event("clicked", r1, 4, "listing"))
  @@ (e9 :> Event("clicked", r1, 2, "listing by a robot")) @@ (e10 :> Event("delivery_delayed", r1, 5, "none"))
  @@ (e11 :> Event("failed", r1, 2, "none")) @@ (e12 :> Event("other", r1, 6, "none"))

\* Either is told, not both: engagement neither suppresses anybody nor
\* concerns a second campaign.
Stories == Troubled @@ Engaged
OneStory ==
  \/ \A e \in DOMAIN Engaged : event[e] = "ABSENT"
  \/ /\ \A e \in DOMAIN Troubled : event[e] = "ABSENT"
     /\ linked \subseteq {r1} /\ operations = 0

\* A test message, a bounce of somebody's other message, a bounce of a
\* recipient whose id may come late.
Orphans ==
  (e1 :> Event("bounced", r1, 2, "Transient")) @@ (e2 :> Event("test", Nobody, 1, "none"))
  @@ (e3 :> Event("bounced", Nobody, 1, "Permanent"))
=============================================================================
