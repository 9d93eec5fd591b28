----------------------- MODULE CampaignLifecycleProofs -----------------------
(***************************************************************************)
(* What CampaignLifecycle promises, proved for any number of idempotency   *)
(* keys, workers, texts, edits, tests and events.                          *)
(***************************************************************************)
EXTENDS CampaignLifecycle, TLAPS

\* A test or a snapshot of the current version shows the listing's agent, if
\* the listing did not change hands behind this version.
Shows(t) ==
  t.copy = campaign.copy /\ (t.agent = listing.agent \/ campaign.version \in reassigned)

\* lastTestedVersion is evidence: a test of the current version showed what is
\* current, and so does one that has not been recorded yet.
Evidence ==
  /\ campaign.tested <= campaign.version
  /\ campaign.tested = campaign.version =>
       \E t \in proven : t.version = campaign.version /\ Shows(t)
  /\ \A t \in tests : t.version <= campaign.version
                      /\ (t.version = campaign.version => Shows(t))

\* What a job carries was asked for under its key.
JobsAsked ==
  /\ \A k \in Keys : jobs[k].status # "ABSENT" =>
       [key |-> k, version |-> jobs[k].version, later |-> jobs[k].later] \in asked
  /\ \A w \in Workers : run[w].at = "snapshot" =>
       [key |-> run[w].key, version |-> run[w].version, later |-> run[w].later] \in asked

\* Where a frozen campaign can be, and one that is not; a dispatch runs for a
\* frozen one only.
Dispatching == \E w \in Workers : run[w].at \in {"loaded", "sending"}
FrozenIsPast ==
  /\ frozen = None => dispatches = {} /\ campaign.status \in Editable \cup {"SNAPSHOTTING", "CANCELLED"}
  /\ frozen # None =>
       campaign.status \in {"SCHEDULED", "QUEUED", "SENDING", "PAUSED", "COMPLETED", "CANCELLED"}
  /\ Dispatching => dispatches # {}
\* Where a withdrawn campaign can be.
WithdrawnIsPast == withdrawn => campaign.status = "CANCELLED" \/ campaign.deleted \/ frozen # None

LifecycleInv ==
  LifecycleTypeOK /\ Evidence /\ JobsAsked /\ FrozenIsPast /\ WithdrawnIsPast
  /\ FrozenWasTested /\ FrozenWasAsked

-----------------------------------------------------------------------------
\* The smallest values of the bounded counters.
LEMMA Bounds ==
  /\ 1 \in 1 .. MaxVersion /\ 0 \in 0 .. MaxVersion /\ 0 \in 0 .. MaxEvents
  /\ 1 .. MaxVersion \subseteq 0 .. MaxVersion
  /\ MaxVersion \in Nat
<1>1. MaxVersion \in Nat /\ MaxVersion # 0 /\ MaxEvents \in Nat
  BY LifecycleAssumption DEF LifecycleAssumption
<1> QED BY <1>1

\* A new campaign satisfies the invariant.
LEMMA InitEstablishes == LifecycleInit => LifecycleInv
<1> SUFFICES ASSUME LifecycleInit PROVE LifecycleInv
  OBVIOUS
<1>0. PICK c \in Copies, a \in Agents :
        campaign = [status |-> "DRAFT", version |-> 1, copy |-> c, replyTo |-> a,
                    tested |-> 0, deleted |-> FALSE]
  BY DEF LifecycleInit, Listings
<1>1. campaign \in CampaignRows
  BY <1>0, Bounds DEF CampaignRows, Statuses
<1>2. jobs \in [Keys -> Jobs]
  <2>1. NoJob \in Jobs
    BY Bounds DEF NoJob, Jobs
  <2> QED BY <2>1 DEF LifecycleInit
<1>3. listing \in Listings
  BY DEF LifecycleInit, Listings
<1>4. LifecycleTypeOK
  BY <1>1, <1>2, <1>3, Bounds, LifecycleAssumption
     DEF LifecycleAssumption, LifecycleInit, LifecycleTypeOK
<1>5. Evidence /\ FrozenIsPast /\ WithdrawnIsPast /\ FrozenWasTested /\ FrozenWasAsked
  <2>1. ~Dispatching
    BY DEF LifecycleInit, Dispatching, Idle
  <2> QED BY <1>0, <2>1 DEF LifecycleInit, Evidence, FrozenIsPast, Editable, WithdrawnIsPast, FrozenWasTested,
                            FrozenWasAsked
<1>6. JobsAsked
  BY DEF LifecycleInit, JobsAsked, NoJob, Idle
<1> QED BY <1>4, <1>5, <1>6 DEF LifecycleInv

-----------------------------------------------------------------------------
(* What the updates of the campaign's row make of it. *)

\* An edit moves the version, takes back the test and keeps the rest.
LEMMA EditedRow ==
  ASSUME campaign \in CampaignRows, campaign.version < MaxVersion, NEW c \in Copies
  PROVE  /\ Edited(c) \in CampaignRows
         /\ Edited(c).version = campaign.version + 1 /\ Edited(c).tested = 0 /\ Edited(c).copy = c
         /\ Edited(c).status = campaign.status /\ Edited(c).deleted = campaign.deleted
         /\ \A a \in Agents :
              LET u == [Edited(c) EXCEPT !.replyTo = a]
              IN  /\ u \in CampaignRows
                  /\ u.version = campaign.version + 1 /\ u.tested = 0 /\ u.copy = c
                  /\ u.status = campaign.status /\ u.deleted = campaign.deleted
<1>1. campaign.version \in Nat /\ campaign.version + 1 \in 1 .. MaxVersion /\ 0 \in 0 .. MaxVersion
  BY Bounds DEF CampaignRows
<1> QED BY <1>1 DEF CampaignRows, Edited

\* A new status leaves everything else alone.
LEMMA StatusRow ==
  ASSUME campaign \in CampaignRows, NEW s \in Statuses
  PROVE  LET u == [campaign EXCEPT !.status = s]
         IN  /\ u \in CampaignRows /\ u.status = s
             /\ u.version = campaign.version /\ u.tested = campaign.tested /\ u.copy = campaign.copy
             /\ u.deleted = campaign.deleted
  BY DEF CampaignRows

\* The record of a test writes one column.
LEMMA TestedRow ==
  ASSUME campaign \in CampaignRows, NEW v \in 0 .. MaxVersion
  PROVE  LET u == [campaign EXCEPT !.tested = v]
         IN  /\ u \in CampaignRows /\ u.tested = v
             /\ u.version = campaign.version /\ u.status = campaign.status /\ u.copy = campaign.copy
             /\ u.deleted = campaign.deleted
  BY DEF CampaignRows

\* A deleted draft.
LEMMA DeletedRow ==
  ASSUME campaign \in CampaignRows, campaign.version < MaxVersion
  PROVE  LET u == [campaign EXCEPT !.deleted = TRUE, !.version = @ + 1]
         IN  /\ u \in CampaignRows /\ u.deleted /\ u.version = campaign.version + 1
             /\ u.status = campaign.status /\ u.tested = campaign.tested /\ u.copy = campaign.copy
<1>1. campaign.version + 1 \in 1 .. MaxVersion
  BY Bounds DEF CampaignRows
<1> QED BY <1>1 DEF CampaignRows

-----------------------------------------------------------------------------
\* The types survive every step.
LEMMA TypePreserved == LifecycleTypeOK /\ [LifecycleNext]_lifecycleVars => LifecycleTypeOK'
<1> SUFFICES ASSUME LifecycleTypeOK, [LifecycleNext]_lifecycleVars PROVE LifecycleTypeOK'
  OBVIOUS
<1> USE DEF LifecycleTypeOK
<1>v. MaxVersion \in Nat /\ 1 .. MaxVersion \subseteq 0 .. MaxVersion
  BY Bounds
<1>n. campaign.version \in 1 .. MaxVersion /\ campaign.version \in Nat
  BY <1>v DEF CampaignRows
<1>e. ASSUME NEW kind, Around(kind) PROVE events' \in 0 .. MaxEvents
  <2>1. MaxEvents \in Nat
    BY LifecycleAssumption DEF LifecycleAssumption
  <2> QED BY <1>e, <2>1 DEF Around
<1>1. ASSUME NEW v \in 1 .. MaxVersion, NEW c \in Copies, Update(v, c) \/ ApplyCopy(v, c)
      PROVE  LifecycleTypeOK'
  <2>1. campaign' \in CampaignRows
    BY <1>1, EditedRow DEF Update, ApplyCopy, Changed, Listings
  <2> QED BY <1>1, <2>1 DEF Update, ApplyCopy, Changed, jobVars, aroundVars, historyVars
<1>2. ASSUME NEW v \in 1 .. MaxVersion, ConfigureRecipients(v) PROVE LifecycleTypeOK'
  <2>1. campaign' \in CampaignRows
    BY <1>2, EditedRow DEF ConfigureRecipients, CampaignRows
  <2> QED BY <1>2, <2>1 DEF ConfigureRecipients, jobVars, historyVars
<1>3. ASSUME NEW v \in 1 .. MaxVersion, DeleteDraft(v) PROVE LifecycleTypeOK'
  BY <1>3, DeletedRow DEF DeleteDraft, jobVars, aroundVars
<1>4. ASSUME MarkReady PROVE LifecycleTypeOK'
  BY <1>4, StatusRow DEF MarkReady, Statuses, jobVars, aroundVars, historyVars
<1>5. ASSUME NEW s \in {"DRAFT", "ACTIVE"}, NEW a \in Agents, UpdateListing(s, a) PROVE LifecycleTypeOK'
  <2>1. campaign' \in CampaignRows
    BY <1>5, EditedRow DEF UpdateListing, NewAgent, CampaignRows
  <2>2. listing' \in Listings
    BY <1>5 DEF UpdateListing, Listings
  <2>3. reassigned' \subseteq 1 .. MaxVersion
    BY <1>5, <1>n DEF UpdateListing
  <2> QED BY <1>5, <1>e, <2>1, <2>2, <2>3 DEF UpdateListing, jobVars
<1>6. ASSUME ArchiveListing \/ UploadHero \/ DeleteHero PROVE LifecycleTypeOK'
  <2>1. listing' \in Listings
    BY <1>6 DEF ArchiveListing, UploadHero, DeleteHero, ListingOnly, Listings
  <2> QED BY <1>6, <1>e, <2>1
          DEF ArchiveListing, UploadHero, DeleteHero, ListingOnly, campaignVars, jobVars, historyVars
<1>7. ASSUME SenderChanges PROVE LifecycleTypeOK'
  BY <1>7, <1>e DEF SenderChanges, campaignVars, jobVars, historyVars
<1>8. ASSUME NEW a \in Audiences, AudienceChanges(a) PROVE LifecycleTypeOK'
  BY <1>8, <1>e DEF AudienceChanges, campaignVars, jobVars, historyVars
<1>9. ASSUME NEW v \in 1 .. MaxVersion, BeginTest(v) PROVE LifecycleTypeOK'
  <2>1. tests' \subseteq Renderings
    BY <1>9 DEF BeginTest, CampaignRows, Listings, Renderings
  <2> QED BY <1>9, <2>1 DEF BeginTest, campaignVars, jobVars, aroundVars, historyVars
<1>10. ASSUME NEW t \in tests, EndTest(t) PROVE LifecycleTypeOK'
  <2>1. campaign' \in CampaignRows
    BY <1>10, <1>v, TestedRow DEF EndTest, Renderings
  <2>2. proven' \subseteq Renderings /\ tests' \subseteq tests
    BY <1>10 DEF EndTest, Proved, Recorded
  <2> QED BY <1>10, <2>1, <2>2 DEF EndTest, Recorded, jobVars, aroundVars
<1>11. ASSUME NEW t \in tests, FailTest(t) PROVE LifecycleTypeOK'
  BY <1>11 DEF FailTest, Recorded, jobVars, aroundVars
<1>12. ASSUME NEW k \in Keys, NEW v \in 1 .. MaxVersion, NEW later \in BOOLEAN, Enqueue(k, v, later)
       PROVE  /\ campaign' \in CampaignRows /\ jobs' \in [Keys -> Jobs]
              /\ asked' \subseteq [key : Keys, version : 1 .. MaxVersion, later : BOOLEAN]
  <2>1. campaign' \in CampaignRows
    BY <1>12, StatusRow DEF Enqueue, Statuses
  <2>2. [status |-> "PENDING", attempts |-> 0, owner |-> None, version |-> v, later |-> later] \in Jobs
    BY <1>v DEF Jobs
  <2> QED BY <1>12, <2>1, <2>2 DEF Enqueue
<1>13. ASSUME NEW k \in Keys, NEW v \in 1 .. MaxVersion, NEW later \in BOOLEAN, Queue(k, v, later)
       PROVE  LifecycleTypeOK'
  BY <1>12, <1>13 DEF Queue, Enqueue
<1>14. ASSUME NEW k \in Keys, NEW v \in 1 .. MaxVersion, NEW later \in BOOLEAN, Publish(k, v, later)
       PROVE  LifecycleTypeOK'
  <2>1. listing' \in Listings
    BY <1>14 DEF Publish, Activated, Listings
  <2> QED BY <1>12, <1>14, <2>1 DEF Publish, Enqueue
<1>15. ASSUME Pause \/ Resume \/ Cancel PROVE LifecycleTypeOK'
  <2>1. PICK to \in {"PAUSED", "SENDING", "CANCELLED"} : Command(to) /\ withdrawn' \in BOOLEAN
    BY <1>15 DEF Pause, Resume, Cancel
  <2> QED BY <2>1, StatusRow DEF Command, Statuses, jobVars, aroundVars
<1>16. ASSUME NEW w \in Workers, BeginDispatch(w) \/ MarkSending(w) \/ MarkCompleted(w) \/ EndDispatch(w)
       PROVE  LifecycleTypeOK'
  <2>1. campaign' \in CampaignRows
    BY <1>16, StatusRow DEF BeginDispatch, MarkSending, MarkCompleted, EndDispatch, Statuses, campaignVars
  <2>2. run' \in [Workers -> {Idle} \cup Runs \cup Dispatches]
    BY <1>16 DEF BeginDispatch, MarkSending, MarkCompleted, EndDispatch, Dispatches
  <2> QED BY <1>16, <2>1, <2>2 DEF BeginDispatch, MarkSending, MarkCompleted, EndDispatch, campaignVars,
                                   aroundVars, historyVars
<1>g. ASSUME NEW w \in Workers, run[w].at \in JobPlaces, NEW pc \in {"reset", "fail", "complete"},
             Goto(w, pc)
      PROVE  run' \in [Workers -> {Idle} \cup Runs \cup Dispatches]
  <2>1. run[w] \in Runs
    BY <1>g DEF Idle, JobPlaces, Dispatches
  <2>2. [run[w] EXCEPT !.at = pc] \in Runs
    BY <2>1 DEF Runs
  <2> QED BY <1>g, <2>2 DEF Goto
<1>17. ASSUME NEW w \in Workers, NEW k \in Keys, Claim(w, k) PROVE LifecycleTypeOK'
  <2>1. jobs[k] \in Jobs /\ jobs[k].attempts + 1 \in Nat
    BY DEF Jobs
  <2>2. [jobs[k] EXCEPT !.status = "RUNNING", !.owner = w, !.attempts = @ + 1] \in Jobs
    BY <2>1 DEF Jobs
  <2>3. jobs' \in [Keys -> Jobs]
    BY <1>17, <2>2 DEF Claim
  <2>4. [at |-> "snapshot", key |-> k, attempts |-> jobs[k].attempts + 1,
         version |-> jobs[k].version, later |-> jobs[k].later] \in Runs
    BY <2>1 DEF Jobs, Runs
  <2>5. run' \in [Workers -> {Idle} \cup Runs \cup Dispatches]
    BY <1>17, <2>4 DEF Claim
  <2>6. events' \in 0 .. MaxEvents
    BY <1>17, <1>e DEF Claim
  <2> QED BY <1>17, <2>3, <2>5, <2>6 DEF Claim, campaignVars, historyVars
<1>18. ASSUME NEW w \in Workers, Snapshot(w) PROVE LifecycleTypeOK'
  <2>1. run[w] \in Runs
    BY <1>18 DEF Snapshot, Idle, Dispatches
  <2>2. campaign' \in CampaignRows
    BY <1>18, StatusRow DEF Snapshot, Freeze, FrozenStatuses, Statuses
  <2>3. frozen' \in Snapshots /\ dispatches' \subseteq Keys
    BY <1>18, <2>1 DEF Snapshot, Freeze, Snapshots, Runs, CampaignRows, Listings
  <2> QED BY <1>18, <1>g, <2>2, <2>3 DEF Snapshot, JobPlaces, aroundVars, historyVars
<1>19. ASSUME NEW w \in Workers, SnapshotReplay(w) PROVE LifecycleTypeOK'
  BY <1>19, <1>g DEF SnapshotReplay, JobPlaces, campaignVars, aroundVars, historyVars
<1>20. ASSUME NEW w \in Workers, SnapshotThrows(w) PROVE LifecycleTypeOK'
  BY <1>20, <1>g, <1>e DEF SnapshotThrows, JobPlaces, campaignVars, historyVars
<1>21. ASSUME NEW w \in Workers, Reset(w) PROVE LifecycleTypeOK'
  <2>1. campaign.status \in Statuses
    BY DEF CampaignRows
  <2>2. campaign' \in CampaignRows
    BY <1>21, <2>1, StatusRow DEF Reset, Statuses
  <2> QED BY <1>21, <1>g, <2>2 DEF Reset, JobPlaces, aroundVars, historyVars
<1>22. ASSUME NEW w \in Workers, ResetThrows(w) PROVE LifecycleTypeOK'
  BY <1>22, <1>g, <1>e DEF ResetThrows, JobPlaces, campaignVars, historyVars
<1>23. ASSUME NEW w \in Workers, Complete(w) \/ Fail(w) PROVE LifecycleTypeOK'
  <2>1. run[w] \in Runs
    BY <1>23 DEF Complete, Fail, Idle, Dispatches
  <2>2. PICK status \in {"COMPLETED", "FAILED", "PENDING"} : Settle(w, status)
    BY <1>23 DEF Complete, Fail
  <2>3. [jobs[run[w].key] EXCEPT !.status = status, !.owner = None] \in Jobs
    <3>1. jobs[run[w].key] \in Jobs
      BY <2>1 DEF Runs
    <3> QED BY <3>1 DEF Jobs
  <2>4. jobs' \in [Keys -> Jobs]
    BY <2>1, <2>2, <2>3 DEF Settle, Runs
  <2>5. run' \in [Workers -> {Idle} \cup Runs \cup Dispatches]
    BY <2>2 DEF Settle
  <2> QED BY <2>2, <2>4, <2>5 DEF Settle, campaignVars, aroundVars, historyVars
<1>24. ASSUME NEW w \in Workers, Crash(w) PROVE LifecycleTypeOK'
  BY <1>24, <1>e DEF Crash, campaignVars, historyVars
<1>25. ASSUME UNCHANGED lifecycleVars PROVE LifecycleTypeOK'
  BY <1>25 DEF lifecycleVars, campaignVars, jobVars, aroundVars, historyVars
<1> QED
  BY <1>1, <1>2, <1>3, <1>4, <1>5, <1>6, <1>7, <1>8, <1>9, <1>10, <1>11, <1>13, <1>14, <1>15, <1>16,
     <1>17, <1>18, <1>19, <1>20, <1>21, <1>22, <1>23, <1>24, <1>25
  DEF LifecycleNext, Edits, Surroundings, Sending, Working, WorkerStep

-----------------------------------------------------------------------------
(* Four kinds of steps: the campaign's text is rewritten, its status moves,  *)
(* a test is sent or recorded, the campaign is frozen.                       *)

Rewrites ==
  /\ campaign.status \in Editable /\ campaign'.status = campaign.status
  /\ campaign'.version = campaign.version + 1 /\ campaign'.tested <= campaign.version
  /\ campaign.deleted => campaign'.deleted
  /\ withdrawn' => withdrawn \/ campaign'.deleted
  /\ UNCHANGED <<frozen, dispatches, tests, proven, asked, reassigned>>

StatusMoves ==
  \/ campaign'.status \in {campaign.status, "CANCELLED"}
  \/ campaign.status \in Editable /\ campaign'.status \in {"READY", "SNAPSHOTTING"}
  \/ campaign.status = "SNAPSHOTTING" /\ campaign'.status = "READY"
  \/ /\ frozen # None
     /\ campaign.status # "CANCELLED" \/ Dispatching
     /\ campaign'.status \in {"SENDING", "PAUSED", "COMPLETED"}

Moves ==
  /\ StatusMoves
  /\ campaign'.version = campaign.version /\ campaign'.tested = campaign.tested
  /\ campaign'.copy = campaign.copy /\ campaign'.deleted = campaign.deleted
  /\ withdrawn' => withdrawn \/ campaign'.status = "CANCELLED"
  /\ asked \subseteq asked'
  /\ reassigned \subseteq reassigned'
  /\ listing'.agent = listing.agent \/ campaign.version \in reassigned'
  /\ UNCHANGED <<frozen, dispatches, tests, proven>>

Tries ==
  /\ campaign'.version = campaign.version /\ campaign'.status = campaign.status
  /\ campaign'.copy = campaign.copy /\ campaign'.deleted = campaign.deleted
  /\ \/ BeginTest(campaign.version) /\ campaign'.tested = campaign.tested
     \/ \E t \in tests : EndTest(t) /\ campaign'.tested = t.version
     \/ \E t \in tests : FailTest(t) /\ campaign'.tested = campaign.tested
  /\ proven \subseteq proven'
  /\ UNCHANGED <<frozen, dispatches, asked, withdrawn, reassigned, listing>>

\* Every step is of one of the four kinds, or only the jobs and the
\* surroundings move.
LEMMA Kinds ==
  LifecycleTypeOK /\ campaign.tested <= campaign.version /\ FrozenIsPast /\ [LifecycleNext]_lifecycleVars
    => Rewrites \/ Moves \/ Tries \/ \E w \in Workers : Snapshot(w)
<1> SUFFICES ASSUME LifecycleTypeOK, campaign.tested <= campaign.version, FrozenIsPast,
                    [LifecycleNext]_lifecycleVars
             PROVE  Rewrites \/ Moves \/ Tries \/ \E w \in Workers : Snapshot(w)
  OBVIOUS
<1>r. campaign \in CampaignRows
  BY DEF LifecycleTypeOK
<1>v. campaign.version \in Nat /\ campaign.tested \in Nat /\ 1 .. MaxVersion \subseteq 0 .. MaxVersion
  BY <1>r, Bounds DEF CampaignRows
<1>1. ASSUME NEW v \in 1 .. MaxVersion, NEW c \in Copies, Update(v, c) \/ ApplyCopy(v, c)
      PROVE  Rewrites
  <2>1. listing.agent \in Agents
    BY DEF LifecycleTypeOK, Listings
  <2>2. CASE Update(v, c)
    BY <1>r, <1>v, <2>1, <2>2, EditedRow
    DEF Update, Changed, Rewrites, historyVars
  <2>3. CASE ApplyCopy(v, c)
    BY <1>r, <1>v, <2>3, EditedRow DEF ApplyCopy, Changed, Rewrites, historyVars, Editable
  <2> QED BY <1>1, <2>2, <2>3
<1>2. ASSUME NEW v \in 1 .. MaxVersion, ConfigureRecipients(v) PROVE Rewrites
  <2>1. campaign.copy \in Copies
    BY <1>r DEF CampaignRows
  <2> QED BY <1>r, <1>v, <1>2, <2>1, EditedRow DEF ConfigureRecipients, Rewrites, historyVars, Editable
<1>3. ASSUME NEW v \in 1 .. MaxVersion, DeleteDraft(v) PROVE Rewrites
  BY <1>r, <1>v, <1>3, DeletedRow DEF DeleteDraft, Rewrites, Editable
<1>4. ASSUME NEW s \in {"DRAFT", "ACTIVE"}, NEW a \in Agents, UpdateListing(s, a)
      PROVE  Rewrites \/ Moves
  <2>1. campaign.copy \in Copies
    BY <1>r DEF CampaignRows
  <2>2. CASE a # listing.agent /\ campaign.status = "DRAFT"
    <3>1. /\ campaign.version < MaxVersion
          /\ campaign' = [Edited(campaign.copy) EXCEPT !.replyTo = a]
          /\ UNCHANGED <<frozen, dispatches, tests, proven, asked, withdrawn, reassigned>>
      BY <1>4, <2>2 DEF UpdateListing, NewAgent
    <3> QED BY <1>r, <1>v, <2>1, <2>2, <3>1, EditedRow DEF Rewrites, Editable
  <2>3. CASE ~(a # listing.agent /\ campaign.status = "DRAFT")
    <3>1. listing'.agent = a
      BY <1>4 DEF UpdateListing, LifecycleTypeOK, Listings
    <3> QED BY <1>4, <2>3, <3>1 DEF UpdateListing, Moves, StatusMoves
  <2> QED BY <2>2, <2>3
<1>5. ASSUME UNCHANGED <<campaignVars, tests, historyVars>>, listing'.agent = listing.agent PROVE Moves
  BY <1>5 DEF Moves, StatusMoves, campaignVars, historyVars
<1>6. ASSUME MarkReady \/ Pause \/ Resume \/ Cancel PROVE Moves
  <2>1. CASE MarkReady
    <3>1. campaign.status \in Editable
      BY <2>1 DEF MarkReady, CanTransition, Transitions, Editable
    <3> QED BY <1>r, <2>1, <3>1, StatusRow DEF MarkReady, Moves, StatusMoves, Statuses, aroundVars, historyVars
  <2>2. CASE Cancel
    BY <1>r, <2>2, StatusRow DEF Cancel, Command, Moves, StatusMoves, Statuses, aroundVars
  <2>3. CASE Pause \/ Resume
    <3>1. PICK to \in {"PAUSED", "SENDING"} : Command(to) /\ UNCHANGED withdrawn
      BY <2>3 DEF Pause, Resume
    <3>2. campaign.status \in {"QUEUED", "SENDING", "PAUSED"}
      BY <3>1 DEF Command, CanTransition, Transitions
    <3>3. frozen # None
      BY <3>2 DEF FrozenIsPast, Editable
    <3> QED BY <1>r, <3>1, <3>2, <3>3, StatusRow DEF Command, Moves, StatusMoves, Statuses, aroundVars
  <2> QED BY <1>6, <2>1, <2>2, <2>3
<1>7. ASSUME NEW v \in 1 .. MaxVersion, BeginTest(v) PROVE Tries
  BY <1>7 DEF BeginTest, Current, Tries, campaignVars, aroundVars, historyVars
<1>8. ASSUME NEW t \in tests, EndTest(t) PROVE Tries
  <2>1. t.version \in 0 .. MaxVersion
    BY <1>v DEF LifecycleTypeOK, Renderings
  <2> QED BY <1>r, <1>8, <2>1, TestedRow DEF EndTest, Proved, Recorded, Tries, aroundVars
<1>9. ASSUME NEW t \in tests, FailTest(t) PROVE Tries
  BY <1>9 DEF FailTest, Recorded, Tries, aroundVars
<1>10. ASSUME NEW k \in Keys, NEW v \in 1 .. MaxVersion, NEW later \in BOOLEAN,
              Queue(k, v, later) \/ Publish(k, v, later)
       PROVE  Moves
  <2>1. campaign.status \in Editable /\ Enqueue(k, v, later)
    BY <1>10 DEF Queue, Publish, Editable
  <2>2. listing'.agent = listing.agent
    BY <1>10 DEF Queue, Publish, Activated, LifecycleTypeOK, Listings
  <2> QED BY <1>r, <2>1, <2>2, StatusRow DEF Enqueue, Moves, StatusMoves, Statuses
<1>11. ASSUME NEW w \in Workers, Reset(w) PROVE Moves
  <2>1. campaign.status \in Statuses
    BY <1>r DEF CampaignRows
  <2> QED BY <1>r, <1>11, <2>1, StatusRow DEF Reset, Moves, StatusMoves, Statuses, aroundVars, historyVars
<1>12. ASSUME NEW w \in Workers, NEW k \in Keys, Claim(w, k)
       PROVE  UNCHANGED <<campaignVars, tests, historyVars>> /\ listing'.agent = listing.agent
  BY <1>12 DEF Claim
<1>13. ASSUME ArchiveListing \/ UploadHero \/ DeleteHero \/ SenderChanges
                \/ \E a \in Audiences : AudienceChanges(a)
       PROVE  UNCHANGED <<campaignVars, tests, historyVars>> /\ listing'.agent = listing.agent
  <2>1. listing \in Listings
    BY DEF LifecycleTypeOK
  <2> QED BY <1>13, <2>1
          DEF ArchiveListing, UploadHero, DeleteHero, ListingOnly, SenderChanges, AudienceChanges, Listings
<1>14. ASSUME NEW w \in Workers,
              \/ SnapshotReplay(w) \/ SnapshotThrows(w) \/ ResetThrows(w) \/ Complete(w) \/ Fail(w)
              \/ Crash(w) \/ BeginDispatch(w) \/ EndDispatch(w)
       PROVE  UNCHANGED <<campaignVars, tests, historyVars>> /\ listing'.agent = listing.agent
  BY <1>14
  DEF SnapshotReplay, SnapshotThrows, ResetThrows, Complete, Fail, Settle, Crash, BeginDispatch, EndDispatch,
      campaignVars, aroundVars, historyVars
<1>15. ASSUME NEW w \in Workers, MarkSending(w) \/ MarkCompleted(w) PROVE Moves
  <2>1. Dispatching /\ frozen # None
    BY <1>15 DEF MarkSending, MarkCompleted, Dispatching, FrozenIsPast
  <2>2. PICK to \in {"SENDING", "COMPLETED"} : campaign' = [campaign EXCEPT !.status = to]
    BY <1>15 DEF MarkSending, MarkCompleted
  <2>3. UNCHANGED <<frozen, dispatches, tests, listing, proven, asked, withdrawn, reassigned>>
    BY <1>15 DEF MarkSending, MarkCompleted, aroundVars, historyVars
  <2> QED BY <1>r, <2>1, <2>2, <2>3, StatusRow DEF Moves, StatusMoves, Statuses
<1>16. ASSUME UNCHANGED lifecycleVars
       PROVE  UNCHANGED <<campaignVars, tests, historyVars>> /\ listing'.agent = listing.agent
  BY <1>16 DEF lifecycleVars, aroundVars
<1>17. Edits => Rewrites \/ Moves
  BY <1>1, <1>2, <1>3, <1>6 DEF Edits
<1>18. Surroundings => Rewrites \/ Moves
  BY <1>4, <1>5, <1>13 DEF Surroundings
<1>19. Sending => Moves \/ Tries
  BY <1>6, <1>7, <1>8, <1>9, <1>10 DEF Sending
<1>20. Working => Moves \/ \E w \in Workers : Snapshot(w)
  BY <1>5, <1>11, <1>12, <1>14, <1>15 DEF Working, WorkerStep
<1> QED BY <1>5, <1>16, <1>17, <1>18, <1>19, <1>20 DEF LifecycleNext

-----------------------------------------------------------------------------
\* Only the first snapshot finds the campaign READY or SNAPSHOTTING, and a
\* withdrawn campaign is never frozen.
LEMMA FreezeIsFirst ==
  ASSUME LifecycleInv, NEW w \in Workers, Snapshot(w)
  PROVE  /\ frozen = None /\ ~withdrawn /\ (Live => Tested)
         /\ frozen' = [version |-> campaign.version, copy |-> campaign.copy,
                       agent |-> listing.agent, later |-> run[w].later]
         /\ frozen' # None
         /\ dispatches' = {run[w].key} /\ run[w].version = campaign.version
         /\ campaign'.status \in {"SCHEDULED", "QUEUED"} /\ campaign'.deleted = campaign.deleted
         /\ campaign'.version = campaign.version /\ campaign'.copy = campaign.copy
         /\ campaign'.tested = campaign.tested
         /\ UNCHANGED <<proven, asked, withdrawn, reassigned>>
<1>1. MayFreeze(w) /\ Freeze(w) /\ UNCHANGED historyVars
  BY DEF Snapshot
<1>2. campaign.status \in {"READY", "SNAPSHOTTING"} /\ ~campaign.deleted /\ run[w].version = campaign.version
  BY <1>1 DEF MayFreeze, Current
<1>3. frozen = None /\ ~withdrawn /\ dispatches = {}
  BY <1>2 DEF LifecycleInv, FrozenIsPast, WithdrawnIsPast
<1>4. /\ campaign'.status \in {"SCHEDULED", "QUEUED"} /\ campaign'.deleted = campaign.deleted
      /\ campaign'.version = campaign.version /\ campaign'.copy = campaign.copy
      /\ campaign'.tested = campaign.tested
  <2>1. campaign \in CampaignRows
    BY DEF LifecycleInv, LifecycleTypeOK
  <2>2. PICK s \in {"SCHEDULED", "QUEUED"} : campaign' = [campaign EXCEPT !.status = s]
    BY <1>1 DEF Freeze, FrozenStatuses
  <2> QED BY <2>1, <2>2, StatusRow DEF Statuses
<1>5. frozen' # None
  <2>1. run[w].later \in BOOLEAN /\ campaign.version \in 1 .. MaxVersion /\ campaign.copy \in Copies
        /\ listing.agent \in Agents
    <3>1. run[w] \in Runs
      BY DEF Snapshot, Idle, Dispatches, LifecycleInv, LifecycleTypeOK
    <3> QED BY <3>1 DEF Runs, LifecycleInv, LifecycleTypeOK, CampaignRows, Listings
  <2>2. frozen' \in Snapshots
    BY <1>1, <2>1 DEF Freeze, Snapshots
  <2> QED BY <2>2, LifecycleAssumption DEF LifecycleAssumption
<1> QED BY <1>1, <1>2, <1>3, <1>4, <1>5 DEF Freeze, MayFreeze, MaySend, LiveReady, historyVars

\* Whatever rewrites the text forgets the test; whatever records a test
\* records the version it rendered.
LEMMA EvidencePreserved == LifecycleInv /\ [LifecycleNext]_lifecycleVars => Evidence'
<1> SUFFICES ASSUME LifecycleInv, [LifecycleNext]_lifecycleVars PROVE Evidence'
  OBVIOUS
<1> USE DEF LifecycleInv
<1>v. campaign.version \in Nat /\ campaign.tested \in Nat /\ \A t \in tests : t.version \in Nat
  BY Bounds DEF LifecycleTypeOK, CampaignRows, Renderings
<1>t. campaign'.tested \in Nat
  BY TypePreserved, Bounds DEF LifecycleTypeOK, CampaignRows
<1>1. CASE Rewrites
  BY <1>1, <1>v, <1>t DEF Rewrites, Evidence
<1>s. ASSUME campaign'.version = campaign.version, campaign'.copy = campaign.copy, reassigned \subseteq reassigned',
             listing'.agent = listing.agent \/ campaign.version \in reassigned', NEW t, Shows(t)
      PROVE  Shows(t)'
  BY <1>s DEF Shows
<1>2. CASE Moves
  BY <1>2, <1>s DEF Moves, Evidence
<1>3. CASE Tries
  <2>s. \A t : Shows(t) => Shows(t)'
    BY <1>3, <1>s DEF Tries
  <2>0. /\ campaign'.version = campaign.version /\ proven \subseteq proven'
        /\ campaign'.copy = campaign.copy /\ UNCHANGED <<listing, reassigned>>
    BY <1>3 DEF Tries
  <2>1. CASE BeginTest(campaign.version) /\ campaign'.tested = campaign.tested
    <3> DEFINE new == [version |-> campaign.version, copy |-> campaign.copy, agent |-> listing.agent]
    <3>1. tests' = tests \cup {new}
      BY <2>1 DEF BeginTest
    <3>2. \A t : t = new => t.version = campaign.version /\ Shows(t)'
      BY <2>0 DEF Shows
    <3>3. proven' = proven
      BY <2>1 DEF BeginTest, historyVars
    <3> HIDE DEF new
    <3>4. ASSUME NEW t \in tests'
          PROVE  t.version <= campaign'.version /\ (t.version = campaign'.version => Shows(t)')
      <4>1. CASE t \in tests
        BY <1>v, <2>0, <2>s, <4>1 DEF Evidence
      <4>2. CASE t = new
        BY <1>v, <2>0, <3>2, <4>2
      <4> QED BY <3>1, <3>4, <4>1, <4>2
    <3> QED BY <1>v, <2>0, <2>1, <2>s, <3>3, <3>4 DEF Evidence
  <2>2. ASSUME NEW t \in tests, EndTest(t), campaign'.tested = t.version PROVE Evidence'
    <3>1. tests' \subseteq tests /\ t \in proven'
      BY <2>2 DEF EndTest, Proved, Recorded
    <3> QED BY <1>v, <2>0, <2>2, <2>s, <3>1 DEF Evidence
  <2>3. ASSUME NEW t \in tests, FailTest(t), campaign'.tested = campaign.tested PROVE Evidence'
    <3>1. tests' \subseteq tests
      BY <2>3 DEF FailTest, Recorded
    <3> QED BY <1>v, <2>0, <2>3, <2>s, <3>1 DEF Evidence
  <2> QED BY <1>3, <2>1, <2>2, <2>3 DEF Tries
<1>4. ASSUME NEW w \in Workers, Snapshot(w) PROVE Evidence'
  <2>1. campaign.status \in Statuses /\ campaign \in CampaignRows
    BY DEF LifecycleTypeOK, CampaignRows
  <2>2. /\ campaign'.version = campaign.version /\ campaign'.tested = campaign.tested
        /\ campaign'.copy = campaign.copy
    BY <1>4, FreezeIsFirst
  <2>3. UNCHANGED <<listing, tests, proven, reassigned>>
    BY <1>4 DEF Snapshot, aroundVars, historyVars
  <2> QED BY <1>s, <2>2, <2>3 DEF Evidence
<1>5. campaign.tested <= campaign.version
  BY DEF Evidence
<1> QED BY <1>1, <1>2, <1>3, <1>4, <1>5, Kinds

\* Jobs carry what was asked for, and workers carry what their jobs carried.
LEMMA AskedPreserved == LifecycleInv /\ [LifecycleNext]_lifecycleVars => JobsAsked'
<1> SUFFICES ASSUME LifecycleInv, [LifecycleNext]_lifecycleVars PROVE JobsAsked'
  OBVIOUS
<1> USE DEF LifecycleInv, LifecycleTypeOK
<1>1. ASSUME NEW k \in Keys, NEW v \in 1 .. MaxVersion, NEW later \in BOOLEAN, Enqueue(k, v, later)
      PROVE  JobsAsked'
  BY <1>1 DEF Enqueue, JobsAsked
<1>2. ASSUME NEW w \in Workers, NEW k \in Keys, Claim(w, k) PROVE JobsAsked'
  <2>1. jobs[k].status # "ABSENT" /\ UNCHANGED asked
    BY <1>2 DEF Claim, historyVars
  <2>2. run' = [run EXCEPT ![w] = [at |-> "snapshot", key |-> k, attempts |-> jobs[k].attempts + 1,
                                   version |-> jobs[k].version, later |-> jobs[k].later]]
    BY <1>2 DEF Claim
  <2>3. [key |-> k, version |-> jobs[k].version, later |-> jobs[k].later] \in asked
    BY <2>1 DEF JobsAsked
  <2>4. ASSUME NEW j \in Keys, jobs'[j].status # "ABSENT"
        PROVE  [key |-> j, version |-> jobs'[j].version, later |-> jobs'[j].later] \in asked
    <3>1. CASE j = k
      <4>1. jobs'[k].version = jobs[k].version /\ jobs'[k].later = jobs[k].later
        BY <1>2 DEF Claim, Jobs
      <4> QED BY <2>3, <3>1, <4>1
    <3>2. CASE j # k
      <4>1. jobs'[j] = jobs[j]
        BY <1>2, <3>2 DEF Claim
      <4> QED BY <2>4, <4>1 DEF JobsAsked
    <3> QED BY <3>1, <3>2
  <2>5. ASSUME NEW u \in Workers, run'[u].at = "snapshot"
        PROVE  [key |-> run'[u].key, version |-> run'[u].version, later |-> run'[u].later] \in asked
    BY <2>2, <2>3, <2>5 DEF JobsAsked
  <2> QED BY <2>1, <2>4, <2>5 DEF JobsAsked
<1>3. ASSUME NEW w \in Workers, NEW pc \in {"reset", "fail", "complete"},
             Goto(w, pc) \/ run' = [run EXCEPT ![w] = Idle], UNCHANGED <<jobs, asked>>
      PROVE  JobsAsked'
  <2>1. run[w] \in {Idle} \cup Runs \cup Dispatches
    OBVIOUS
  <2>2. [run[w] EXCEPT !.at = pc].at = pc
    BY <2>1 DEF Idle, Runs, Dispatches
  <2>3. \A u \in Workers : run'[u].at = "snapshot" => run'[u] = run[u]
    <3>1. CASE Goto(w, pc)
      BY <2>2, <3>1 DEF Goto
    <3>2. CASE run' = [run EXCEPT ![w] = Idle]
      BY <3>2 DEF Idle
    <3> QED BY <1>3, <3>1, <3>2
  <2> QED BY <1>3, <2>3 DEF JobsAsked
<1>4. ASSUME NEW w \in Workers, Complete(w) \/ Fail(w) PROVE JobsAsked'
  <2>1. PICK status \in {"COMPLETED", "FAILED", "PENDING"} : Settle(w, status)
    BY <1>4 DEF Complete, Fail
  <2>2. run[w] \in Runs
    BY <1>4 DEF Complete, Fail, Idle, Dispatches
  <2>3. \A j \in Keys : /\ jobs'[j].version = jobs[j].version /\ jobs'[j].later = jobs[j].later
                        /\ jobs[j].status = "ABSENT" => jobs'[j].status = "ABSENT"
    BY <2>1, <2>2 DEF Settle, Jobs, Runs
  <2>4. run' = [run EXCEPT ![w] = Idle] /\ UNCHANGED asked
    BY <2>1 DEF Settle, historyVars
  <2> QED BY <2>3, <2>4 DEF Idle, JobsAsked
<1>5. ASSUME NEW w \in Workers, Snapshot(w) \/ SnapshotReplay(w) \/ SnapshotThrows(w) \/ Reset(w)
                                 \/ ResetThrows(w) \/ Crash(w)
      PROVE  JobsAsked'
  BY <1>3, <1>5 DEF Snapshot, SnapshotReplay, SnapshotThrows, Reset, ResetThrows, Crash, historyVars
<1>6. ASSUME UNCHANGED <<jobs, run, asked>> PROVE JobsAsked'
  BY <1>6 DEF JobsAsked
<1>7. ASSUME Edits PROVE UNCHANGED <<jobs, run, asked>>
  BY <1>7 DEF Edits, Update, ApplyCopy, ConfigureRecipients, DeleteDraft, MarkReady, Changed, jobVars, historyVars
<1>8. ASSUME Surroundings PROVE UNCHANGED <<jobs, run, asked>>
  BY <1>8 DEF Surroundings, UpdateListing, ArchiveListing, UploadHero, DeleteHero, ListingOnly, SenderChanges,
              AudienceChanges, jobVars, historyVars
<1>9. ASSUME \/ \E v \in 1 .. MaxVersion : BeginTest(v)
             \/ \E t \in tests : EndTest(t) \/ FailTest(t)
             \/ Pause \/ Resume \/ Cancel
      PROVE  UNCHANGED <<jobs, run, asked>>
  BY <1>9 DEF BeginTest, EndTest, FailTest, Recorded, Pause, Resume, Cancel, Command, jobVars, historyVars
<1>10. ASSUME NEW k \in Keys, NEW v \in 1 .. MaxVersion, NEW later \in BOOLEAN,
              Queue(k, v, later) \/ Publish(k, v, later)
       PROVE  JobsAsked'
  BY <1>1, <1>10 DEF Queue, Publish
<1>11. ASSUME Sending PROVE JobsAsked'
  BY <1>6, <1>9, <1>10, <1>11 DEF Sending
<1>d. ASSUME NEW w \in Workers, BeginDispatch(w) \/ MarkSending(w) \/ MarkCompleted(w) \/ EndDispatch(w)
      PROVE  JobsAsked'
  <2>1. \A u \in Workers : run'[u].at = "snapshot" => run'[u] = run[u]
    BY <1>d DEF BeginDispatch, MarkSending, MarkCompleted, EndDispatch, Idle
  <2>2. UNCHANGED <<jobs, asked>>
    BY <1>d DEF BeginDispatch, MarkSending, MarkCompleted, EndDispatch, historyVars
  <2> QED BY <2>1, <2>2 DEF JobsAsked
<1>12. ASSUME Working PROVE JobsAsked'
  BY <1>2, <1>4, <1>5, <1>d, <1>12 DEF Working, WorkerStep
<1>13. ASSUME UNCHANGED lifecycleVars PROVE UNCHANGED <<jobs, run, asked>>
  BY <1>13 DEF lifecycleVars, jobVars, historyVars
<1> QED BY <1>6, <1>7, <1>8, <1>11, <1>12, <1>13 DEF LifecycleNext

\* A dispatch begins only when there is a dispatch job, and there is one ever
\* after.
LEMMA DispatchPreserved ==
  LifecycleInv /\ [LifecycleNext]_lifecycleVars => (Dispatching' => dispatches' # {})
<1> SUFFICES ASSUME LifecycleInv, [LifecycleNext]_lifecycleVars, Dispatching' PROVE dispatches' # {}
  OBVIOUS
<1>t. run \in [Workers -> {Idle} \cup Runs \cup Dispatches]
  BY DEF LifecycleInv, LifecycleTypeOK
<1>1. dispatches \subseteq dispatches'
  <2>1. ASSUME NEW w \in Workers, Snapshot(w) PROVE dispatches \subseteq dispatches'
    BY <2>1 DEF Snapshot, Freeze
  <2>2. Rewrites \/ Moves \/ Tries => dispatches' = dispatches
    BY DEF Rewrites, Moves, Tries
  <2> QED BY <2>1, <2>2, Kinds DEF LifecycleInv, Evidence
<1>2. CASE dispatches # {}
  BY <1>1, <1>2
<1>3. CASE dispatches = {}
  <2>0. ~Dispatching
    BY <1>3 DEF LifecycleInv, FrozenIsPast
  <2>1. UNCHANGED run => ~Dispatching'
    BY <2>0 DEF Dispatching
  <2>2. ASSUME NEW w \in Workers, NEW r, r.at \notin {"loaded", "sending"}, run' = [run EXCEPT ![w] = r]
        PROVE  ~Dispatching'
    BY <1>t, <2>0, <2>2 DEF Dispatching
  <2>3. ASSUME NEW w \in Workers, NEW pc \in {"reset", "fail", "complete"}, Goto(w, pc), run[w].at \in JobPlaces
        PROVE  ~Dispatching'
    <3>1. run[w] \in Runs
      BY <1>t, <2>3 DEF JobPlaces, Idle, Dispatches
    <3>2. [run[w] EXCEPT !.at = pc].at = pc
      BY <3>1 DEF Runs
    <3> QED BY <2>2, <2>3, <3>2 DEF Goto
  <2>4. Edits \/ Surroundings \/ UNCHANGED lifecycleVars => UNCHANGED run
    BY DEF Edits, Update, ApplyCopy, ConfigureRecipients, DeleteDraft, MarkReady, Changed, Surroundings, UpdateListing,
           ArchiveListing, UploadHero, DeleteHero, ListingOnly, SenderChanges, AudienceChanges, jobVars, lifecycleVars
  <2>5. Sending => UNCHANGED run
    BY DEF Sending, BeginTest, EndTest, FailTest, Recorded, Queue, Publish, Enqueue, Pause, Resume, Cancel, Command,
           jobVars
  <2>6. ASSUME NEW w \in Workers, NEW k \in Keys, Claim(w, k) PROVE ~Dispatching'
    BY <2>2, <2>6 DEF Claim
  <2>7. ASSUME NEW w \in Workers, BeginDispatch(w) \/ MarkSending(w) \/ MarkCompleted(w) \/ EndDispatch(w)
        PROVE  FALSE
    BY <1>3, <2>0, <2>7 DEF BeginDispatch, MarkSending, MarkCompleted, EndDispatch, Dispatching
  <2>8. ASSUME NEW w \in Workers, Complete(w) \/ Fail(w) \/ Crash(w) PROVE ~Dispatching'
    BY <2>2, <2>8 DEF Complete, Fail, Settle, Crash, Idle
  <2>9. ASSUME NEW w \in Workers,
               Snapshot(w) \/ SnapshotReplay(w) \/ SnapshotThrows(w) \/ Reset(w) \/ ResetThrows(w)
        PROVE  ~Dispatching'
    BY <2>3, <2>9 DEF Snapshot, SnapshotReplay, SnapshotThrows, Reset, ResetThrows, JobPlaces
  <2>10. Working => ~Dispatching'
    BY <2>6, <2>7, <2>8, <2>9 DEF Working, WorkerStep
  <2> QED BY <2>1, <2>4, <2>5, <2>10 DEF LifecycleNext
<1> QED BY <1>2, <1>3

\* The invariant is inductive.
LEMMA StepPreserves == LifecycleInv /\ [LifecycleNext]_lifecycleVars => LifecycleInv'
<1> SUFFICES ASSUME LifecycleInv, [LifecycleNext]_lifecycleVars PROVE LifecycleInv'
  OBVIOUS
<1>1. LifecycleTypeOK' /\ Evidence' /\ JobsAsked' /\ (Dispatching' => dispatches' # {})
  BY TypePreserved, EvidencePreserved, AskedPreserved, DispatchPreserved DEF LifecycleInv
<1>d. frozen = None => ~Dispatching
  BY DEF LifecycleInv, FrozenIsPast
<1>2. FrozenIsPast' /\ WithdrawnIsPast' /\ FrozenWasTested' /\ FrozenWasAsked'
  <2>1. CASE Rewrites
    <3>1. frozen = None /\ (withdrawn => campaign.deleted)
      BY <2>1 DEF Rewrites, Editable, LifecycleInv, FrozenIsPast, WithdrawnIsPast
    <3> QED BY <1>1, <2>1, <3>1
            DEF Rewrites, LifecycleInv, FrozenIsPast, WithdrawnIsPast, FrozenWasTested, FrozenWasAsked
  <2>2. CASE Moves
    <3>1. FrozenIsPast' /\ WithdrawnIsPast'
      BY <1>1, <1>d, <2>2 DEF Moves, StatusMoves, Editable, LifecycleInv, FrozenIsPast, WithdrawnIsPast
    <3>2. FrozenWasTested' /\ FrozenWasAsked'
      BY <2>2 DEF Moves, LifecycleInv, FrozenWasTested, FrozenWasAsked
    <3> QED BY <3>1, <3>2
  <2>3. CASE Tries
    BY <1>1, <2>3 DEF Tries, LifecycleInv, FrozenIsPast, WithdrawnIsPast, FrozenWasTested, FrozenWasAsked
  <2>4. ASSUME NEW w \in Workers, Snapshot(w)
        PROVE  FrozenIsPast' /\ WithdrawnIsPast' /\ FrozenWasTested' /\ FrozenWasAsked'
    <3>1. FrozenWasTested'
      <4>1. /\ frozen'.version = campaign.version /\ frozen'.copy = campaign.copy
            /\ frozen'.agent = listing.agent /\ UNCHANGED <<proven, reassigned>>
        BY <2>4, FreezeIsFirst
      <4>2. ASSUME Live
            PROVE  \E t \in proven : t.version = campaign.version /\ Shows(t)
        BY <2>4, <4>2, FreezeIsFirst DEF LifecycleInv, Evidence, Tested
      <4> QED BY <4>1, <4>2 DEF FrozenWasTested, Shows
    <3>2. [key |-> run[w].key, version |-> run[w].version, later |-> run[w].later] \in asked'
      BY <2>4, FreezeIsFirst DEF LifecycleInv, JobsAsked, Snapshot
    <3>3. /\ dispatches' = {run[w].key} /\ frozen'.version = run[w].version /\ frozen'.later = run[w].later
      BY <2>4, FreezeIsFirst
    <3>4. FrozenWasAsked'
      BY <3>2, <3>3 DEF FrozenWasAsked
    <3> QED BY <1>1, <2>4, <3>1, <3>4, FreezeIsFirst DEF FrozenIsPast, WithdrawnIsPast
  <2> QED BY <2>1, <2>2, <2>3, <2>4, Kinds DEF LifecycleInv, Evidence
<1> QED BY <1>1, <1>2 DEF LifecycleInv

\* The strengthened invariant holds.
THEOREM Inductive == LifecycleSpec => []LifecycleInv
<1> QED BY InitEstablishes, StepPreserves, PTL DEF LifecycleSpec

\* The rows of a campaign and its jobs keep their types, whatever edits,
\* tests, requests, retries, crashes and lost leases there are.
THEOREM TypeCorrect == LifecycleSpec => []LifecycleTypeOK
<1>1. LifecycleInv => LifecycleTypeOK
  BY DEF LifecycleInv
<1> QED BY Inductive, <1>1, PTL

\* Under live delivery, what snapshotCampaign freezes is what an accepted test
\* of that version showed, its agent included unless updateListing changed it
\* behind a version that had left DRAFT: every rewrite takes the test back, and
\* a test that is recorded late is evidence of the version it rendered only.
THEOREM TestedCorrect == LifecycleSpec => []FrozenWasTested
<1>1. LifecycleInv => FrozenWasTested
  BY DEF LifecycleInv
<1> QED BY Inductive, <1>1, PTL

\* Whichever attempt of whichever request freezes the campaign, it freezes
\* what was asked for under its key, and there is one dispatch job.
THEOREM AskedCorrect == LifecycleSpec => []FrozenWasAsked
<1>1. LifecycleInv => FrozenWasAsked
  BY DEF LifecycleInv
<1> QED BY Inductive, <1>1, PTL

\* No job that still runs freezes a campaign whose cancel or delete was
\* answered or makes it editable, no reset of a failed attempt takes the cancel
\* back, and nothing but a dispatch that was under way moves it on.
THEOREM WithdrawalCorrect == LifecycleSpec => WithdrawnIsFinal
<1> DEFINE Kept ==
      /\ UNCHANGED <<frozen, dispatches>>
      /\ campaign'.deleted \/ campaign'.status \notin Editable \cup {"SNAPSHOTTING"}
      /\ campaign.status = "CANCELLED" /\ campaign'.status # "CANCELLED" =>
           \E w \in Workers : run[w].at \in {"loaded", "sending"}
<1>1. LifecycleInv /\ [LifecycleNext]_lifecycleVars => [withdrawn => Kept]_lifecycleVars
  <2> SUFFICES ASSUME LifecycleInv, [LifecycleNext]_lifecycleVars, withdrawn PROVE Kept
    OBVIOUS
  <2>1. ~\E w \in Workers : Snapshot(w)
    BY FreezeIsFirst
  <2>2. Rewrites \/ Moves \/ Tries
    BY <2>1, Kinds DEF LifecycleInv, Evidence
  <2>3. UNCHANGED <<frozen, dispatches>>
    BY <2>2 DEF Rewrites, Moves, Tries
  <2>4. campaign.status = "CANCELLED" /\ campaign'.status # "CANCELLED" => Dispatching
    BY <2>2 DEF Rewrites, Moves, StatusMoves, Tries, Editable
  <2>5. campaign'.deleted \/ campaign'.status \notin Editable \cup {"SNAPSHOTTING"}
    <3>1. campaign.deleted => campaign'.deleted
      BY <2>2 DEF Rewrites, Moves, Tries
    <3>2. CASE frozen # None
      BY <2>3, <3>2, StepPreserves DEF LifecycleInv, FrozenIsPast, Editable
    <3>3. CASE frozen = None /\ campaign.status = "CANCELLED"
      BY <2>4, <3>3 DEF LifecycleInv, FrozenIsPast, Editable
    <3> QED BY <3>1, <3>2, <3>3 DEF LifecycleInv, WithdrawnIsPast
  <2> QED BY <2>3, <2>4, <2>5 DEF Dispatching
<1>2. [][withdrawn => Kept]_lifecycleVars => WithdrawnIsFinal
  BY PTL DEF WithdrawnIsFinal
<1> QED BY Inductive, <1>1, <1>2, PTL DEF LifecycleSpec

\* A frozen campaign is never edited, frozen again or made editable, by a
\* late handler neither.
THEOREM FrozenCorrect == LifecycleSpec => FrozenForGood
<1>1. LifecycleInv /\ [LifecycleNext]_lifecycleVars
        => [frozen # None =>
              /\ frozen' = frozen /\ dispatches' = dispatches
              /\ campaign'.copy = campaign.copy
              /\ campaign'.status \notin Editable \cup {"SNAPSHOTTING"}]_lifecycleVars
  <2> SUFFICES ASSUME LifecycleInv, [LifecycleNext]_lifecycleVars, frozen # None
               PROVE  /\ frozen' = frozen /\ dispatches' = dispatches
                      /\ campaign'.copy = campaign.copy
                      /\ campaign'.status \notin Editable \cup {"SNAPSHOTTING"}
    OBVIOUS
  <2>1. campaign.status \in {"SCHEDULED", "QUEUED", "SENDING", "PAUSED", "COMPLETED", "CANCELLED"}
    BY DEF LifecycleInv, FrozenIsPast
  <2>2. ~(\E w \in Workers : Snapshot(w)) /\ ~Rewrites
    BY <2>1, FreezeIsFirst DEF Rewrites, Editable
  <2>3. Moves \/ Tries
    BY <2>2, Kinds DEF LifecycleInv, Evidence
  <2> QED BY <2>1, <2>3 DEF Moves, StatusMoves, Tries, Editable
<1> QED BY Inductive, <1>1, PTL DEF LifecycleSpec, FrozenForGood
=============================================================================
