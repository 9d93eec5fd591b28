-------------------------- MODULE CampaignLifecycle --------------------------
(***************************************************************************)
(* One campaign from its first draft to the frozen snapshot that delivery  *)
(* works from (modules/campaigns/service.ts, stateMachine.ts), with the    *)
(* snapshot jobs that freeze it (worker/handlers/index.ts), its listing,   *)
(* its sender and its audience.                                            *)
(*                                                                         *)
(* The commands run in Serializable transactions, or are single guarded    *)
(* updates, so that each is one action.  Three things are not: a test send *)
(* renders, calls the provider and records the result later; the snapshot  *)
(* handler freezes in one transaction, takes back the status in another    *)
(* when that failed, and settles its job in a third; and a dispatch reads  *)
(* the campaign and writes its status later, by id.                        *)
(***************************************************************************)
EXTENDS Naturals, FiniteSets

CONSTANTS
  Keys,        \* idempotency keys that clients choose
  Workers,     \* JobRunner instances
  Copies,      \* what the campaign's own fields may say
  Agents,      \* agents a listing may be assigned to
  Live,        \* whether config.deliveryMode is "live"
  Audiences,   \* of "none", "held back" and "eligible", those that occur
  None,        \* null
  MaxVersion,  \* bound on edits
  MaxAttempts, \* max_attempts of a snapshot job, 3 in the code
  MaxTests,    \* bound on test sends under way
  MaxRequests, \* bound on different requests to send
  MaxEvents,   \* bound on what happens around the campaign
  Events       \* which of those things happen in this instance

\* What a freeze stores: the version and its copy, the listing's agent, and
\* whether a time was set.
Snapshots == [version : 1 .. MaxVersion, copy : Copies, agent : Agents, later : BOOLEAN]
\* What a test renders.
Renderings == [version : 1 .. MaxVersion, copy : Copies, agent : Agents]

ASSUME LifecycleAssumption ==
  /\ MaxVersion \in Nat \ {0} /\ MaxAttempts \in Nat \ {0}
  /\ MaxTests \in Nat /\ MaxRequests \in Nat /\ MaxEvents \in Nat /\ Live \in BOOLEAN
  /\ Audiences \subseteq {"none", "held back", "eligible"} /\ "eligible" \in Audiences
  /\ None \notin Workers \cup Snapshots

VARIABLES
  campaign,   \* the campaigns row
  frozen,     \* content_snapshot and scheduled_at, None until frozen
  dispatches, \* keys of the DISPATCH_CAMPAIGN jobs created by snapshots
  jobs,       \* SNAPSHOT_CAMPAIGN jobs by key
  run,        \* what each worker does
  tests,      \* test sends rendered and not yet recorded
  listing, sender, audience,
  \* history: accepted tests, accepted requests, a cancel or delete, and the
  \* versions during which the listing changed hands with no draft to tell
  proven, asked, withdrawn, reassigned,
  events      \* how much has happened around the campaign

campaignVars == <<campaign, frozen, dispatches>>
jobVars      == <<jobs, run>>
aroundVars   == <<listing, sender, audience, events>>
historyVars  == <<proven, asked, withdrawn, reassigned>>
lifecycleVars == <<campaignVars, jobVars, tests, aroundVars, historyVars>>

Editable == {"DRAFT", "READY"}
Accepted == {"SNAPSHOTTING", "SCHEDULED", "QUEUED", "SENDING", "COMPLETED"}

Statuses == {"DRAFT", "READY", "SNAPSHOTTING", "SCHEDULED", "QUEUED", "SENDING", "PAUSED",
             "COMPLETED", "CANCELLED", "FAILED", "ARCHIVED"}

\* stateMachine.ts; archiving has no caller.
Transitions ==
  {<<"DRAFT", "READY">>, <<"READY", "SNAPSHOTTING">>, <<"READY", "CANCELLED">>,
   <<"SNAPSHOTTING", "QUEUED">>, <<"SNAPSHOTTING", "SCHEDULED">>, <<"SNAPSHOTTING", "FAILED">>,
   <<"SCHEDULED", "QUEUED">>, <<"SCHEDULED", "CANCELLED">>, <<"QUEUED", "SENDING">>,
   <<"QUEUED", "CANCELLED">>, <<"SENDING", "PAUSED">>, <<"SENDING", "CANCELLED">>,
   <<"SENDING", "COMPLETED">>, <<"SENDING", "FAILED">>, <<"PAUSED", "SENDING">>,
   <<"PAUSED", "CANCELLED">>} \cup {"COMPLETED", "CANCELLED", "FAILED"} \X {"ARCHIVED"}
CanTransition(to) == <<campaign.status, to>> \in Transitions

NoJob == [status |-> "ABSENT", attempts |-> 0, owner |-> None, version |-> 0, later |-> FALSE]
Idle == [at |-> "idle"]

CampaignRows == [status : Statuses, version : 1 .. MaxVersion, copy : Copies,
                 replyTo : Agents, tested : 0 .. MaxVersion, deleted : BOOLEAN]
Jobs == [status : {"ABSENT", "PENDING", "RUNNING", "COMPLETED", "FAILED"}, attempts : Nat,
         owner : Workers \cup {None}, version : 0 .. MaxVersion, later : BOOLEAN]
Listings == [status : {"DRAFT", "ACTIVE", "ARCHIVED"}, agent : Agents, hero : BOOLEAN]
Runs == [at : {"snapshot", "reset", "fail", "complete"}, key : Keys, attempts : Nat,
         version : 0 .. MaxVersion, later : BOOLEAN]
Dispatches == [at : {"loaded", "sending"}]

LifecycleTypeOK ==
  /\ campaign \in CampaignRows
  /\ frozen \in {None} \cup Snapshots
  /\ dispatches \subseteq Keys
  /\ jobs \in [Keys -> Jobs]
  /\ run \in [Workers -> {Idle} \cup Runs \cup Dispatches]
  /\ tests \subseteq Renderings
  /\ listing \in Listings
  /\ sender \in BOOLEAN
  /\ audience \in Audiences
  /\ proven \subseteq Renderings
  /\ asked \subseteq [key : Keys, version : 1 .. MaxVersion, later : BOOLEAN]
  /\ withdrawn \in BOOLEAN /\ reassigned \subseteq 1 .. MaxVersion
  /\ events \in 0 .. MaxEvents

\* A campaign just created from a listing that is ready to be mailed about.
LifecycleInit ==
  /\ \E c \in Copies, a \in Agents :
       /\ campaign = [status |-> "DRAFT", version |-> 1, copy |-> c, replyTo |-> a,
                      tested |-> 0, deleted |-> FALSE]
       /\ \E s \in {"DRAFT", "ACTIVE"}, h \in BOOLEAN :
            listing = [status |-> s, agent |-> a, hero |-> h]
  /\ frozen = None /\ dispatches = {}
  /\ jobs = [k \in Keys |-> NoJob]
  /\ run = [w \in Workers |-> Idle]
  /\ tests = {}
  /\ sender = TRUE /\ audience = "eligible"
  /\ proven = {} /\ asked = {} /\ withdrawn = FALSE /\ reassigned = {}
  /\ events = 0

-----------------------------------------------------------------------------
(* Editing. *)

\* Every writer of the campaign's fields moves the version and takes back
\* the evidence of a test.
Edited(c) == [campaign EXCEPT !.version = @ + 1, !.tested = 0, !.copy = c]
Current(v) == ~campaign.deleted /\ v = campaign.version
Changed(new) ==
  /\ campaign.version < MaxVersion
  /\ campaign' = new
  /\ UNCHANGED <<frozen, dispatches, jobVars, tests, aroundVars, historyVars>>

UpdateUnmerged(v, c) ==
  /\ Current(v) /\ campaign.status \in Editable
  /\ Changed([Edited(None) EXCEPT !.replyTo = listing.agent])

\* updateCampaign; an update also brings reply_to back to the listing's agent.
Update(v, c) ==
  /\ Current(v) /\ campaign.status \in Editable
  /\ Changed([Edited(c) EXCEPT !.replyTo = listing.agent])

\* applyCampaignCopy: drafts only, and the row may be a deleted draft.
ApplyCopy(v, c) ==
  /\ v = campaign.version /\ campaign.status = "DRAFT"
  /\ Changed(Edited(c))

\* configureCampaignOneKeyRecipients: checked before the provider is asked
\* for candidates and again under the row lock, so that only the second
\* check counts.  It matches contacts and saves an audience of them.
ConfigureRecipients(v) ==
  /\ v = campaign.version /\ campaign.status = "DRAFT"
  /\ campaign.version < MaxVersion
  /\ campaign' = Edited(campaign.copy)
  /\ audience' \in Audiences
  /\ UNCHANGED <<frozen, dispatches, jobVars, tests, listing, sender, events, historyVars>>

MarkReady ==
  /\ ~campaign.deleted /\ CanTransition("READY")
  /\ campaign' = [campaign EXCEPT !.status = "READY"]
  /\ UNCHANGED <<frozen, dispatches, jobVars, tests, aroundVars, historyVars>>

\* The portal's delete: one update with the status and version in its WHERE.
DeleteDraft(v) ==
  /\ Current(v) /\ campaign.status = "DRAFT"
  /\ campaign.version < MaxVersion
  /\ campaign' = [campaign EXCEPT !.deleted = TRUE, !.version = @ + 1]
  /\ withdrawn' = TRUE
  /\ UNCHANGED <<frozen, dispatches, jobVars, tests, aroundVars, proven, asked, reassigned>>

-----------------------------------------------------------------------------
(* What is around the campaign. *)

Around(kind) ==
  /\ kind \in Events /\ events < MaxEvents
  /\ events' = events + 1

\* snapshotFromCampaign needs a listing with an email-safe hero image.
Renders == listing.hero

\* A draft whose listing changes hands.
NewAgentKeepsTest(a) == [campaign EXCEPT !.replyTo = a]
NewAgent(a) == [Edited(campaign.copy) EXCEPT !.replyTo = a]

\* updateListing: a new agent reaches the drafts about the listing, and no
\* campaign that has left DRAFT.
UpdateListing(s, a) ==
  /\ Around("listing")
  /\ s = "ACTIVE" => listing.hero
  /\ listing' = [listing EXCEPT !.status = s, !.agent = a]
  /\ IF a # listing.agent /\ campaign.status = "DRAFT"
     THEN /\ campaign.version < MaxVersion
          /\ campaign' = NewAgent(a)
     ELSE UNCHANGED campaign
  /\ reassigned' = IF a # listing.agent /\ campaign.status # "DRAFT"
                   THEN reassigned \cup {campaign.version} ELSE reassigned
  /\ UNCHANGED <<frozen, dispatches, jobVars, tests, sender, audience, proven, asked, withdrawn>>

ListingOnly(new) ==
  /\ listing' = new
  /\ UNCHANGED <<campaignVars, jobVars, tests, sender, audience, historyVars>>
ArchiveListing == Around("listing") /\ ListingOnly([listing EXCEPT !.status = "ARCHIVED"])
UploadHero == Around("asset") /\ ~listing.hero /\ ListingOnly([listing EXCEPT !.hero = TRUE])
DeleteHero == Around("asset") /\ listing.hero /\ ListingOnly([listing EXCEPT !.hero = FALSE])

\* Verified, suspended or reactivated by an operator or the guard.
SenderChanges ==
  /\ Around("sender")
  /\ sender' = ~sender
  /\ UNCHANGED <<campaignVars, jobVars, tests, listing, audience, historyVars>>

\* Contacts, permissions and suppressions change.
AudienceChanges(a) ==
  /\ Around("audience") /\ a # audience
  /\ audience' = a
  /\ UNCHANGED <<campaignVars, jobVars, tests, listing, sender, historyVars>>

-----------------------------------------------------------------------------
(* Test sends. *)

BeginTest(v) ==
  /\ Current(v) /\ Renders
  /\ Cardinality(tests) < MaxTests
  /\ tests' = tests \cup {[version |-> campaign.version, copy |-> campaign.copy,
                          agent |-> listing.agent]}
  /\ UNCHANGED <<campaignVars, jobVars, aroundVars, historyVars>>

Proved(t) == proven' = proven \cup {t}
Recorded(t) ==
  /\ tests' = tests \ {t}
  /\ UNCHANGED <<frozen, dispatches, jobVars, aroundVars, asked, withdrawn, reassigned>>

\* The provider accepted.  The row is updated by id, whatever it has become.
EndTest(t) ==
  /\ campaign' = [campaign EXCEPT !.tested = t.version]
  /\ Proved(t) /\ Recorded(t)
FailTest(t) == Recorded(t) /\ UNCHANGED <<campaign, proven>>

-----------------------------------------------------------------------------
(* Sending. *)

Tested == campaign.tested = campaign.version

\* assertLiveReady, on the listing as it will be.
LiveReady(listed) == listed.status = "ACTIVE" /\ sender /\ Tested
MaySend(listed) == Live => LiveReady(listed)

\* The upsert of the snapshot job starts an existing one over.
Enqueue(k, v, later) ==
  /\ campaign' = [campaign EXCEPT !.status = "SNAPSHOTTING"]
  /\ jobs' = [jobs EXCEPT ![k] = [status |-> "PENDING", attempts |-> 0, owner |-> None,
                                  version |-> v, later |-> later]]
  /\ asked' = asked \cup {[key |-> k, version |-> v, later |-> later]}
  /\ Cardinality(asked') <= MaxRequests
  /\ UNCHANGED <<frozen, dispatches, run, tests, sender, audience, events,
                 proven, withdrawn, reassigned>>

\* queueCampaignSnapshot: schedule and send-now.  A replay of a key whose
\* campaign is SNAPSHOTTING returns it and changes nothing.
Queue(k, v, later) ==
  /\ Current(v) /\ campaign.status = "READY"
  /\ Renders /\ MaySend(listing)
  /\ Enqueue(k, v, later)
  /\ UNCHANGED listing

\* publishCampaign also activates a draft listing that is complete, and
\* wants somebody to mail.
Activated == [listing EXCEPT !.status = IF @ = "DRAFT" /\ listing.hero THEN "ACTIVE" ELSE @]
Replayed(k) == jobs[k].status # "ABSENT" /\ campaign.status \in Accepted
Publish(k, v, later) ==
  /\ ~Replayed(k)
  /\ Current(v) /\ Tested /\ campaign.status \in Editable
  /\ audience = "eligible" /\ Renders /\ MaySend(Activated)
  /\ listing' = Activated
  /\ Enqueue(k, v, later)

\* transitionCampaign; what a cancel does to recipients is Delivery's.
Command(to) ==
  /\ ~campaign.deleted /\ CanTransition(to)
  /\ campaign' = [campaign EXCEPT !.status = to]
  /\ UNCHANGED <<frozen, dispatches, jobVars, tests, aroundVars, proven, asked, reassigned>>
Pause  == Command("PAUSED") /\ UNCHANGED withdrawn
Resume == Command("SENDING") /\ UNCHANGED withdrawn
Cancel == Command("CANCELLED") /\ withdrawn' = TRUE

-----------------------------------------------------------------------------
(* The snapshot job. *)

Goto(w, pc) == run' = [run EXCEPT ![w].at = pc]

\* claimDueJob: a waiting job, or one whose lease ran out.  It runs out when
\* its worker died, or when a living one stalls (an event).
JobPlaces == {"snapshot", "reset", "fail", "complete"}
Orphaned(k) ==
  ~\E w \in Workers : run[w].at \in JobPlaces /\ run[w].key = k /\ jobs[k].owner = w
Claim(w, k) ==
  /\ run[w].at = "idle"
  /\ \/ jobs[k].status = "PENDING" /\ UNCHANGED events
     \/ jobs[k].status = "RUNNING" /\ Orphaned(k) /\ UNCHANGED events
     \/ jobs[k].status = "RUNNING" /\ ~Orphaned(k) /\ Around("lost lease")
  /\ jobs' = [jobs EXCEPT ![k].status = "RUNNING", ![k].owner = w, ![k].attempts = @ + 1]
  /\ run' = [run EXCEPT ![w] = [at |-> "snapshot", key |-> k, attempts |-> jobs[k].attempts + 1,
                                version |-> jobs[k].version, later |-> jobs[k].later]]
  /\ UNCHANGED <<campaignVars, tests, listing, sender, audience, historyVars>>

\* snapshotCampaign found the work done by an earlier run of this job.
AlreadyFrozen(w) ==
  /\ run[w].key \in dispatches /\ campaign.status \in {"SCHEDULED", "QUEUED", "SENDING"}
  /\ run[w].version = campaign.version /\ ~campaign.deleted

\* What snapshotCampaign requires: the status may be READY, because an
\* earlier attempt that failed has put it back.
MayFreeze(w) ==
  /\ Current(run[w].version)
  /\ campaign.status \in {"READY", "SNAPSHOTTING"}
  /\ Renders /\ MaySend(listing) /\ audience # "none"
  /\ run[w].key \notin dispatches

\* A time that has passed by now queues the campaign.
FrozenStatuses(later) == IF later THEN {"SCHEDULED", "QUEUED"} ELSE {"QUEUED"}

Freeze(w) ==
  /\ frozen' = [version |-> campaign.version, copy |-> campaign.copy,
                agent |-> listing.agent, later |-> run[w].later]
  /\ campaign' \in {[campaign EXCEPT !.status = s] : s \in FrozenStatuses(run[w].later)}
  /\ dispatches' = dispatches \cup {run[w].key}

SnapshotAnyStatus(w) ==
  /\ run[w].at = "snapshot" /\ ~AlreadyFrozen(w)
  /\ Current(run[w].version) /\ Renders /\ MaySend(listing) /\ audience # "none"
  /\ run[w].key \notin dispatches
  /\ Freeze(w) /\ Goto(w, "complete")
  /\ UNCHANGED <<jobs, tests, aroundVars, historyVars>>
SnapshotAnyVersion(w) ==
  /\ run[w].at = "snapshot" /\ ~AlreadyFrozen(w)
  /\ ~campaign.deleted /\ campaign.status \in {"READY", "SNAPSHOTTING"}
  /\ Renders /\ MaySend(listing) /\ audience # "none" /\ run[w].key \notin dispatches
  /\ Freeze(w) /\ Goto(w, "complete")
  /\ UNCHANGED <<jobs, tests, aroundVars, historyVars>>
Snapshot(w) ==
  /\ run[w].at = "snapshot" /\ ~AlreadyFrozen(w) /\ MayFreeze(w)
  /\ Freeze(w) /\ Goto(w, "complete")
  /\ UNCHANGED <<jobs, tests, aroundVars, historyVars>>

SnapshotReplay(w) ==
  /\ run[w].at = "snapshot" /\ AlreadyFrozen(w)
  /\ Goto(w, "complete")
  /\ UNCHANGED <<campaignVars, jobs, tests, aroundVars, historyVars>>

\* A DomainError of one of the checks, or the transaction fails (an event).
SnapshotThrows(w) ==
  /\ run[w].at = "snapshot" /\ ~AlreadyFrozen(w)
  /\ \/ ~MayFreeze(w) /\ UNCHANGED events
     \/ Around("database error")
  /\ Goto(w, "reset")
  /\ UNCHANGED <<campaignVars, jobs, tests, listing, sender, audience, historyVars>>

\* The catch of handleJob: back to READY, and the job is retried all the same.
ResetUnscoped(w) ==
  /\ run[w].at = "reset"
  /\ campaign' = [campaign EXCEPT !.status = "READY"]
  /\ Goto(w, "fail")
  /\ UNCHANGED <<frozen, dispatches, jobs, tests, aroundVars, historyVars>>
ResetForgotten(w) ==
  /\ run[w].at = "reset" /\ Goto(w, "fail")
  /\ UNCHANGED <<campaignVars, jobs, tests, aroundVars, historyVars>>
Reset(w) ==
  /\ run[w].at = "reset"
  /\ campaign' = [campaign EXCEPT !.status = IF @ = "SNAPSHOTTING" THEN "READY" ELSE @]
  /\ Goto(w, "fail")
  /\ UNCHANGED <<frozen, dispatches, jobs, tests, aroundVars, historyVars>>
ResetThrows(w) ==
  /\ run[w].at = "reset" /\ Around("reset error")
  /\ Goto(w, "fail")
  /\ UNCHANGED <<campaignVars, jobs, tests, listing, sender, audience, historyVars>>

\* completeClaimedJob and failClaimedJob settle only a row still held by this
\* worker (module JobQueue).
Settle(w, status) ==
  /\ jobs' = IF jobs[run[w].key].owner = w /\ jobs[run[w].key].status = "RUNNING"
             THEN [jobs EXCEPT ![run[w].key].status = status, ![run[w].key].owner = None]
             ELSE jobs
  /\ run' = [run EXCEPT ![w] = Idle]
  /\ UNCHANGED <<campaignVars, tests, aroundVars, historyVars>>
Complete(w) == run[w].at = "complete" /\ Settle(w, "COMPLETED")
Fail(w) ==
  /\ run[w].at = "fail"
  /\ Settle(w, IF run[w].attempts >= MaxAttempts THEN "FAILED" ELSE "PENDING")

-----------------------------------------------------------------------------
(* A dispatch (module Delivery) takes the campaign from here.  It reads the   *)
(* status once and several awaits later writes SENDING, and at last COMPLETED, *)
(* by id, whatever the row has become; it may also return before either.      *)

BeginDispatch(w) ==
  /\ run[w].at = "idle" /\ dispatches # {}
  /\ campaign.status \notin {"PAUSED", "CANCELLED", "COMPLETED", "FAILED"}
  /\ run' = [run EXCEPT ![w] = [at |-> "loaded"]]
  /\ UNCHANGED <<campaignVars, jobs, tests, aroundVars, historyVars>>

MarkSending(w) ==
  /\ run[w].at = "loaded"
  /\ campaign' = [campaign EXCEPT !.status = "SENDING"]
  /\ run' = [run EXCEPT ![w] = [at |-> "sending"]]
  /\ UNCHANGED <<frozen, dispatches, jobs, tests, aroundVars, historyVars>>

MarkCompleted(w) ==
  /\ run[w].at = "sending"
  /\ campaign' = [campaign EXCEPT !.status = "COMPLETED"]
  /\ run' = [run EXCEPT ![w] = Idle]
  /\ UNCHANGED <<frozen, dispatches, jobs, tests, aroundVars, historyVars>>

EndDispatch(w) ==
  /\ run[w].at \in {"loaded", "sending"}
  /\ run' = [run EXCEPT ![w] = Idle]
  /\ UNCHANGED <<campaignVars, jobs, tests, aroundVars, historyVars>>

-----------------------------------------------------------------------------
\* A process dies, whatever it does.
Crash(w) ==
  /\ run[w].at # "idle" /\ Around("crash")
  /\ run' = [run EXCEPT ![w] = Idle]
  /\ UNCHANGED <<campaignVars, jobs, tests, listing, sender, audience, historyVars>>

-----------------------------------------------------------------------------
Edits ==
  \/ \E v \in 1 .. MaxVersion, c \in Copies : Update(v, c)
  \/ \E v \in 1 .. MaxVersion, c \in Copies : ApplyCopy(v, c)
  \/ \E v \in 1 .. MaxVersion : ConfigureRecipients(v)
  \/ \E v \in 1 .. MaxVersion : DeleteDraft(v)
  \/ MarkReady

Surroundings ==
  \/ \E s \in {"DRAFT", "ACTIVE"}, a \in Agents : UpdateListing(s, a)
  \/ ArchiveListing \/ UploadHero \/ DeleteHero
  \/ SenderChanges
  \/ \E a \in Audiences : AudienceChanges(a)

Sending ==
  \/ \E v \in 1 .. MaxVersion : BeginTest(v)
  \/ \E t \in tests : EndTest(t)
  \/ \E t \in tests : FailTest(t)
  \/ \E k \in Keys, v \in 1 .. MaxVersion, later \in BOOLEAN : Queue(k, v, later)
  \/ \E k \in Keys, v \in 1 .. MaxVersion, later \in BOOLEAN : Publish(k, v, later)
  \/ Pause \/ Resume \/ Cancel

WorkerStep(w) ==
  \/ Snapshot(w) \/ SnapshotReplay(w) \/ SnapshotThrows(w)
  \/ Reset(w) \/ ResetThrows(w)
  \/ Complete(w) \/ Fail(w)
  \/ MarkSending(w) \/ MarkCompleted(w) \/ EndDispatch(w)

Working ==
  \/ \E w \in Workers, k \in Keys : Claim(w, k)
  \/ \E w \in Workers : BeginDispatch(w)
  \/ \E w \in Workers : WorkerStep(w)
  \/ \E w \in Workers : Crash(w)

LifecycleNext == Edits \/ Surroundings \/ Sending \/ Working
LifecycleSpec == LifecycleInit /\ [][LifecycleNext]_lifecycleVars

\* A worker goes on, and a due job is claimed again and again (JobQueue);
\* leases need not be lost.
LifecycleFairness ==
  /\ \A w \in Workers : WF_lifecycleVars(WorkerStep(w))
  /\ \A k \in Keys : SF_lifecycleVars(\E w \in Workers : Claim(w, k) /\ UNCHANGED events)
LifecycleFairSpec == LifecycleSpec /\ LifecycleFairness

-----------------------------------------------------------------------------
(* Properties. *)

\* Under live delivery, what is frozen is what an accepted test of that very
\* version rendered: no edit, AI text or change of recipients slips in between
\* (assertLiveReady, publishCampaign, the resets of lastTestedVersion).  It is
\* the agent that test showed as well, unless updateListing gave the listing to
\* another agent while this version had left DRAFT: updateListing takes the test
\* back from drafts alone.  Other facts of the listing may change after a test.
FrozenWasTested ==
  Live /\ frozen # None =>
    \E t \in proven : /\ t.version = frozen.version /\ t.copy = frozen.copy
                      /\ t.agent = frozen.agent \/ frozen.version \in reassigned

\* A failed snapshot goes back to READY and its job is retried; whichever
\* attempt of whichever request freezes the campaign, it freezes a version
\* and a time that somebody asked for under that key, and there is one
\* dispatch job (handlers/index.ts, snapshotCampaign).
FrozenWasAsked ==
  frozen # None =>
    \E r \in asked : /\ dispatches = {r.key}
                     /\ r.version = frozen.version /\ r.later = frozen.later

\* After a cancel or a delete was answered nothing is frozen, although jobs of
\* the campaign may still run, and the campaign is not editable or SNAPSHOTTING
\* again (transitionCampaign, homix.ts delete).  CANCELLED is final but for a
\* dispatch under way: it read the status before the cancel, since none begins on
\* a cancelled campaign, and writes SENDING or COMPLETED by id (the revival that
\* NeverRevived of module Delivery shows).
WithdrawnIsFinal ==
  [][withdrawn =>
       /\ UNCHANGED <<frozen, dispatches>>
       /\ campaign'.deleted \/ campaign'.status \notin Editable \cup {"SNAPSHOTTING"}
       /\ campaign.status = "CANCELLED" /\ campaign'.status # "CANCELLED" =>
            \E w \in Workers : run[w].at \in {"loaded", "sending"}]_lifecycleVars

\* A frozen campaign stays frozen: same snapshot, same fields, and no late
\* handler brings it back to an editable state ("the recipient list and
\* email content are locked", client/src/features/composer/SendReviewDialog.tsx).
FrozenForGood ==
  [][frozen # None =>
       /\ frozen' = frozen /\ dispatches' = dispatches
       /\ campaign'.copy = campaign.copy
       /\ campaign'.status \notin Editable \cup {"SNAPSHOTTING"}]_lifecycleVars

\* A campaign does not stay SNAPSHOTTING, a status operators have no way out
\* of: it is frozen, or it is READY again.
SnapshotSettles ==
  campaign.status = "SNAPSHOTTING" ~> campaign.status # "SNAPSHOTTING"
=============================================================================
