# A specification of the e-mail campaign service

TLA+ modules for the TypeScript service in `src/`: a Web process and one or more
Worker processes that share a PostgreSQL database and nothing else. Campaigns are
drafted and published through the Web process, frozen into recipient rows by a
snapshot job, delivered batch by batch through an e-mail provider (Resend) under
idempotency keys, and corrected afterwards by provider webhooks, unsubscribe links
and operators. Paths below are relative to `src/src/` unless they start with `docs/`
or `tests/` (both under `src/`).

## The system

| Part | State it keeps | Operations | Talks to |
|---|---|---|---|
| Job queue (`worker/jobRunner.ts`, `db/rawQueries.ts: claimDueJob`, `worker/worker.ts`) | `jobs`: status, run_at, attempts, locked_by, lock_expires_at, by unique key | upsert (re-arm), claim, renew, complete, fail with backoff | everybody arms jobs; the runner calls the handlers |
| Delivery (`modules/delivery/service.ts`, `retry.ts`; reservation and sender slot in `db/rawQueries.ts`) | `campaigns.status`, `campaign_recipients.send_state / send_batch_id`, `send_batches`, `send_attempts`, `sender_daily_usage`, `sender_profiles.next_batch_at` | dispatch of a campaign, retry of a batch, provider call, commit of the result, failure handling, scheduling of the next job | provider, job queue, suppressions, statistics |
| Manual review (`modules/delivery/manualReview.ts`) | `manual_review_resolutions`, and the batch, recipient and quota rows | attach provider id, mark not sent, safe retry | delivery |
| Sending policy (`modules/delivery/quota.ts`) | none (pure) | effective daily limit, local date, send window | delivery |
| Campaign lifecycle (`modules/campaigns/service.ts`, `stateMachine.ts`, `worker/handlers/index.ts`) | `campaigns` (status, revisions, snapshots), recipients | draft, edit, test, publish, snapshot, schedule, pause, resume, cancel | job queue, delivery |
| Webhook inbox (`modules/webhooks`) | `email_events`, recipient engagement columns | receive, reduce, retry an orphan, dead-letter | suppressions, statistics, job queue |
| Suppressions (`modules/suppressions`) | `suppressions` | upsert the stricter reason, unsubscribe | delivery, contacts |
| Statistics and deliverability guard (`modules/analytics/service.ts`) | `campaign_stats`, sender verification, alert setting | recompute, pause and suspend | campaigns, senders |
| Domain tracking (`modules/tracking`) | `provider_domain_tracking` with a refresh lease and token | observe, refresh | provider, senders |
| Contact import (`modules/imports`) | `contact_imports`, its rows, contacts and their tags | validate, apply, work the rows off one transaction each | job queue, contacts |
| OneKey sync (`modules/onekey`) | `onekey_listing_index`, `external_sync_cursors`, listings, agents, photos | initial and delta sync, search, import, refresh, media import | MLS feed, listings, drafts |
| Identity (`modules/auth`, the middleware of `web/routes/homix.ts`, `scripts/link-homix-portal-user.ts`) | `users` | sign in, portal request, administration, link by hand | every route |
| Contact list and export (`modules/contacts`) | none (queries) | page by cursor, export by offset | contacts |
| Composer (`client/src/features/composer`) | a window's draft, cached row, save state | type, autosave, AI text, recipients, test, publish | campaign routes |
| Legacy migration (`scripts/migrate-sqlite-v1.ts`) | the old service's rows, copied | dry run, apply, run again | contacts, suppressions, campaigns |
| Listings, assets, AI copy, audiences, audit, rendering, configuration, other pages, infrastructure | rows or none | CRUD, formatting, I/O | - |

What makes it hard: every statement or transaction is a separate step between which
other processes run; a worker may lose its lease and go on; jobs are executed at
least once; the provider may have accepted what the worker never saw an answer to;
operators pause and cancel in the middle; the only thing that keeps a campaign
moving is a row of the job table; quota is counted in one place and released in five.
`PROJECT.json` lists each such hazard with its line and the properties about it.

What makes each part correct: *queue*: one owner, no theft from a live worker, only
the owner settles, every job is settled. *Delivery*: nobody is mailed twice, nobody
suppressed is mailed, the daily limit holds, accepted means sent, a running campaign
has a wake-up, delivery ends. *Manual review*: each reservation is given back or
accepted once. *Lifecycle*: what was tested and asked for is what is sent, the
recipients freeze once, no campaign hangs in the snapshot. *Webhooks*: the reduced state
does not depend on the order of events, every event is applied or dead-lettered.
*Suppressions*: the stricter reason wins. *Statistics*: the numbers catch up with the
events. *Tracking*: a late refresh never overwrites a newer one. *Import*, *sync*,
*photos*, *migration*: a row, change or photo counts once and none is lost, whatever is
retried. *Identity*: nobody acts as somebody else. *Composer*: "Saved" means stored.
*Contact pages*: nobody is passed over.

## Modules

| Module | What it is |
|---|---|
| `JobOwnership` | What the job table promises: one owner per job, only the owner settles. |
| `JobQueue` | The job table, the JobRunner processes, the upserts; implements `JobOwnership`. |
| `JobQueueProofs` | Theorems about `JobQueue` for every value of its constants. |
| `MCJobQueue` | Small instances. |
| `Retry` | `retry.ts`: failure classes, backoff, the retry budget. |
| `Mailing` | What delivering a campaign promises each recipient: one message, an honest record, final outcomes. |
| `Delivery` | One campaign being delivered by several workers, with commands, suppressions, the guard and failures; implements `Mailing`. |
| `DeliveryProofs` | Theorems about `Delivery` whatever fails: types, suppressions, one submitter, acceptance, the wake-up. |
| `DeliveryBooksProofs` | Theorems about what a batch holds and the day's row counts: recipients in flight, reservations, duplicates, the limit, the refinement of `Mailing`. |
| `MCDelivery` | Small instances: which errors the provider raises. |
| `WebhookInbox` | The webhook inbox: arrival, matching, retries, the reducer, and the suppressions it, operators and unsubscribe links write. |
| `WebhookInboxProofs` | Theorems about the suppressions, the reducer and the types for any webhooks, recipients and addresses. |
| `MCWebhookInbox` | Small instances: which events there are, told as one of two stories. |
| `FencedLease` | What a lease with fencing tokens promises those who share a record. |
| `TrackingLease` | The refresh of a domain's tracking settings under such a lease; implements `FencedLease`. |
| `TrackingLeaseProofs` | Theorems about the lease for any number of calls and any periods. |
| `MCTrackingLease` | Small instances. |
| `CampaignLifecycle` | One campaign from its draft to the frozen snapshot, with its jobs, listing, sender, audience. |
| `CampaignLifecycleProofs` | Theorems about it for any keys, workers, texts and bounds. |
| `MCCampaignLifecycle` | Small instances. |
| `ManualReview` | The resolution of uncertain batches beside the delivery, over the quota rows. |
| `ContactImport` | One CSV import: validation, application, the job row by row. |
| `OneKeySync` | The index of listings and the cursor of its replication. |
| `OneKeyListing` | Import and refresh of one listing: its agent, the drafts about it. |
| `OneKeyMedia` | The copying of a listing's photos beside the operators' edits. |
| `ListingProofs` | Theorems about `OneKeySync`, `OneKeyListing` and `OneKeyMedia`. |
| `LegacyMigration` | The migration script, row by row, run again. |
| `Identity` | Which row of `users` a request acts as, and who changes it. |
| `Composer` | Windows that edit one draft with autosave. |
| `CampaignStats` | Immediate and bucketed recomputation of a campaign's numbers; the guard's decision. |
| `ContactPaging` | Reading contacts page by page while they change. |
| `RecordsProofs` | Theorems about `Identity`, `Composer`, `CampaignStats`, `ContactImport`, `LegacyMigration`, `ContactPaging` and `ManualReview`, and about `MCRecords`. |
| `MCRecords` | The ten modules from `ManualReview` to `ContactPaging`, side by side. |

`Delivery` uses `Retry`. `JobQueue` implements `JobOwnership`, `Delivery` implements
`Mailing`, `TrackingLease` implements `FencedLease`. The other components meet
in the database only, and each module models what the others do to its rows as actions
of its own: `Delivery` the suppressions, `WebhookInbox` the commit of provider ids,
`JobQueue` the upserts of everybody, `CampaignLifecycle` the edits of listings, senders
and audiences, `ManualReview` the batches of the delivery.

Some definitions are followed or preceded by a variant that no action uses
(`CompleteUnowned`, `CandidatesInFlight`, ...): the definition with one plausible
mistake. Substituting it breaks the property that is about it; `PROJECT.json` pairs
them under "mutants".

### JobQueue and the code

An upsert (`Rearm`, `Restart`, `Requeue`) is one of the three update clauses found in
`scheduleDispatch`, `queueCampaignSnapshot` and the OneKey route / webhook
reconciliation: they differ in whether the lock columns are cleared and the attempts
reset, and none looks at the row's status. `Claim` is the one statement of
`claimDueJob`. The loop of `run` is `Claim`, `HandlerEnds`, then `Complete` or `Fail`,
with `CompleteThrows` for an error of the completing update, which the same `try`
catches. `Renew` is the interval callback. Instants are kept as the time left to
them, so that the state is finite while a run may go on for ever. A runner's `health`
is a history variable of the timers: `ok` while every renewal of this claim came in
time, `stalled` while the process is suspended or its renewals fail, `late` after.
`Crash` ends a worker for good, because a restarted process has a new random id.

### Delivery and the code

`run[w].pc` names the place between two awaits at which a worker is; the actions are
in the order of the code: `Claim` (loadCampaign), `Hold`, `SlotDenied`/`SlotTaken`,
then for a job that names a batch `ClaimReservedBatch` (executeReservedBatch), else
`MarkSending`, `SuppressPending`, `Reserve`; then executeBatch: `CheckSuppression`,
`Block`, `PrepareAttempt`, `SubmitAnswered`/`SubmitThrows`, `Finish`/`FinishThrows`/
`StatsThrow`, `FailBatch`, `ScheduleRetry`; then `ScheduleNext`, `CountRemaining`,
`CompleteCampaign`. Each is one transaction or statement. `Pause`, `Resume` and
`Cancel` are `transitionCampaign`; `Suppress` is the suppression upsert, alone or
with unsubscribeByToken's withdrawal of waiting recipients; `GuardTrips` is the
deliverability guard. `KeyExpires` is the provider forgetting a key, with the
batch's idempotencyExpiresAt. `Abort` is a crash or a throwing handler, `LoseLease` a
stalled worker losing its job to the queue without noticing.

The provider is modelled by its contract: a batch under a key it remembers is a
replay and sends nothing; otherwise it accepts some of the messages. `ProviderErrors`
says what may be thrown and `Ambiguous` after which errors the messages may be out.

Abstracted: job rows to the set `wake` of waiting unique keys (their claims and
leases are `JobQueue`; attempts are not counted, so an aborted dispatch always comes
back), instants to "may happen", one sender and one sender-local day, RESERVED (which
exists only inside the reserving transaction), message contents, tracking snapshots.
`Recipients` is finite (`DeliveryAssumption`): they are the rows of one campaign.
Left out: sandbox and disabled modes' allow-list (disabled is a hold); the review of
uncertain batches is `ManualReview`.

### WebhookInbox and the code

`Ingest` is `ingestWebhook`: the event row, matched at once when a recipient has the
provider id it names (`Named`), and its job. `Link(r)` is the moment `finishBatch` commits
that id. `RunJob(e, n, completed)` runs one job of the event, the first (`n = 0`) or its
`n`-th reconciliation: processWebhookEvent is one transaction under the event's row lock,
so it is one action with the outcomes `Skip`, `IgnoreTest`, `Reconcile`, `DeadLetter` and
`Apply`; `completed = FALSE` is a worker that dies, or loses its lease, between that
commit and the completion of the job, which then runs again. `RetryJob` is the job the
transaction arms: unique keys make it a set. `Reduce` is the `switch` over the event
type with the columns it writes (0 is NULL), `upsertSuppression` the statement of
`domain.ts` with the cause it records. `SuppressManually`, `Release` and `Unsubscribe` are
the routes. A payload is reduced to the kind, the recipient, the time and the class
that `classifyBounce` or `classifyClick` finds in it; the address of a recipient and the
content of an event never change, and a `test` event has no recipient
(`InboxAssumption`). The statistics job armed at the end of the transaction
is in `CampaignStats`, the withdrawal of waiting recipients by an unsubscription in
`Delivery`.

### TrackingLease and the code

`observeDomainTracking` is one action per await: `Start` takes the instant `now` every
later comparison uses; the upsert answers (`AnswerBusy`, `AnswerCached`) or loads the
row (`Load`); `Take`/`TakeLost` is the claiming update; `Read` the provider's answer;
`Check` the instant taken before the transaction, or in the catch block; then `Commit`,
`RecordFailure` or `Lost`, `Reread` and `AnswerFresh`. `Throw` is a failing provider or
transaction, `Vanish` a dead process. A token is the number of its taking: random
UUIDs differ as these do. Settings stand for the four columns observed together;
`Unverified` are those whose domain is not verified. `verifiedAt` and the sender profiles
mirrored in the commit's transaction follow the row and are left out.

### CampaignLifecycle and the code

Commands are Serializable transactions or single guarded updates, hence one action each:
`Update`, `ApplyCopy`, `ConfigureRecipients`, `MarkReady`, `DeleteDraft`, `Queue`,
`Publish`, `Pause`, `Resume`, `Cancel` of `campaigns/service.ts` and its neighbours, and
`UpdateListing`, `ArchiveListing`, `UploadHero`, `DeleteHero`, `SenderChanges`,
`AudienceChanges` around it. Three are not: a test send (`BeginTest` renders; `EndTest`
records that version by the campaign's id, whatever it has become; or `FailTest`); the
snapshot handler (`Snapshot` in one transaction, `Reset` or `ResetThrows` of
handlers/index.ts in another, `Complete` or `Fail` of the job in a third); and a dispatch,
which reads the status (`BeginDispatch`) and awaits later writes SENDING and COMPLETED by
id with no condition (`MarkSending`, `MarkCompleted`), or returns before (`EndDispatch`),
so that a cancel in between is overwritten. Workers claim jobs as in `JobQueue`, lose
leases and die. `Live` is `config.deliveryMode === "live"`, on which the readiness of
sender, listing and test depends (`MaySend`). Content is one model value (`copy`) and the
listing's agent; `proven` (what a test showed), `asked` (what was requested), `withdrawn`
and `reassigned` (the versions past DRAFT whose listing changed hands) are history.

### The modules of MCRecords and the code

`ManualReview`: one action per resolution of resolveManualReview, whose quota updates
match every day's row with `reserved_count > 0`; `ReserveBatch`, `ReserveNothing`,
`LoseAnswer`, `RefuseForNow`, `RefuseForGood`, `RetryBatch`, `FinishBatch` are the
transactions of the delivery on these rows. A recipient's batch is the variable `holder`:
`ReserveBatch` takes any recipients that are PENDING or TEMPORARY_FAILED, of another batch
too, and counts them again. Whether the campaign's status, a suppression or the batch size
lets a dispatch run is `Delivery`'s, so each such transaction may come or not. `Midnight` is
the next local date; the date a reservation is counted on and its batch's `created_at`
are one instant here, a midnight between the two statements is left out.
`ContactImport`: `Validate`, `Apply`, then per row `PassRow` (done in an earlier
execution), `RejectRow`, `UpsertRow`, `FindRowDone` or `RollBack`; `CountRows`,
`Complete`, `Fail` end an execution, `LoseJob` and `CrashImport` interrupt it.
`OneKeySync`: the delta sync is `StartDelta`, `AskChanges`, `FetchNext`/`CacheNext` per
listing, `SaveCursor` per page (`TurnPage`: the next page, up to the cap); the initial one
`FetchPage`, `CachePage`, `FinishInitial`, which saves the cursor also when the cap of 100
pages (`MaxPages`) cut it short; `FetchOnDemand`/`CacheOnDemand` are searches and imports.
`OneKeyListing`: a request reads (`Begin...`), looks the agent up by member key
(`FindByMember`), then by address (`FindByMail`, where the conflicts throw), and updates it
by id or creates it (`StoreAgent`), each a statement of one READ COMMITTED transaction, or
takes the chosen one (`ChooseAgent`), and writes (`End...`). `OneKeyMedia`: `StartCopy` reads
the assets once, then `SkipPhoto`, `MissPhoto` or `CopyPhoto` per URL; `UploadPhoto` and
`Reorder` make heroes without looking at the other assets, as the routes do, and each hero
records whether the job or an operator made it. `LegacyMigration`: `DryRun`,
`UploadAssets`, then tags, contacts, links, campaigns, a row at a time; `Abort` anywhere; a
suppression keeps its reason, which the script overwrites and the service strengthens.
`Identity`: sign-in and administration are one action; the portal's middleware and the
script, at READ COMMITTED under an advisory lock of their agent, are a read and a write.
`Composer`: a request reaches the server in one step and its answer the window in
another, or is lost; the server is the row with its version. `CampaignStats`: the end of
an event's transaction (`CommitEvent`), the immediate recomputation after it
(`ReadNow`, `WriteNow`, `CountFails`), the job of the bucket (`RunRecompute`, `ReadFacts`,
`WriteStats`, `SettleRecompute`). `ContactPaging`: `ReadAnchor` and `ReadPage` are the two
queries of a page, `PastCursor` the condition with its NULL cases.

Where the code loses something in one known sequence, a history flag is set when that
sequence happens and the property is stated without it, so that the rest is still
checked; the flag's comment and "Behaviours met while modelling" below name it.

## Runs

| Run | Instance | What it shows |
|---|---|---|
| `job_queue` | 2 jobs, 2 workers, 2 attempts, lease 3 ticks renewed every tick, 2 armings, 1 stall, 1 crash | `NoTheft`, `EveryJobSettles`, refinement of `JobOwnership` |
| `delivery_refusals` | 2 recipients, 2 workers, 3 batches, limit 3, batches of 2, 2 tries, 3 environment events of seven kinds | when an error means that nothing went out: `NoDuplicateDelivery`, `DailyLimitHolds`, `InFlightFrozen`, `SuppressionRespected`, `WakeupNotLost`, refinement of `Mailing` |
| `delivery_lease_loss` | 2 recipients, 2 workers, 2 batches, 3 events: lost answers, failing commits and statistics, lost leases, suppressions, expired keys | `SingleSubmitter` |
| `delivery_live` | batches of 1, 3 batches, 1 event | `DeliveryEnds` |
| `inbox_reducer` | either delivered, suppressed, two bounces and a complaint of one recipient, a bounce of the same address in another campaign and 1 operator; or opened, two clicks, a delay, a failure and an unknown kind; 1 repeated job | `RowIsReduction`, `StrictestReasonStands`, `ReleaseStands` |
| `inbox_orphans` | an event whose recipient is linked late, a test message, a stranger; 2 retries, 2 repeated jobs | `EveryEventSettles`, `LateLinkIsEnough` |
| `tracking_lease` | 2 calls, forced or not, lease 2, cache 2, errors 1, clock to 5, 3 takings, 1 change of settings | `NoOverlap`, `KnownIsRecent`, refinement of `FencedLease` |
| `campaign_lifecycle` | live delivery; 2 idempotency keys, 2 workers, 2 texts, 2 agents, 2 versions, 2 attempts, 2 requests, 1 test under way, 1 event of five kinds | `FrozenWasTested`, `FrozenWasAsked`, `WithdrawnIsFinal`, `FrozenForGood` |
| `campaign_settles` | live delivery; 1 key, 2 workers, 1 agent, 4 requests, 1 event of seven kinds | `SnapshotSettles` |
| `records` | ten systems, sizes below | `BooksBalance`, `ImportAccounted`, `SyncLosesNothing`, `ImportedListingCoherent`, `GalleryOnce`, `LegacyCovered`, `AccountNotShared`, `SavedMeansStored`, `StatsCatchUp`, `PagingComplete` |
| `delivery_revival` | one command | refutes `NeverRevived` |
| `delivery_duplicate` | one lost answer | refutes `NoDuplicateDelivery` |

Bounds. Two jobs suffice for a worker to confuse one with another; two workers for a
takeover; three ticks of lease and one of renewal let a lease run out exactly when the
timers stop. Two armings are two jobs or one armed again while it runs; what more of
them do to the safety properties the proofs cover: they hold for any number. Two
recipients are a partial result, a batch that is split by a suppression, and two
batches of one; three batch ids are an original, one that takes its recipients over
and one more; a limit of three is passed by two reservations of two. Environment
events are counted (`MaxEvents`) rather than each kind separately, so that any three
of them combine; four were checked once for `delivery_refusals` (7.6 million states)
without a difference.

Event kinds that write the same column are in the same one of the two stories of
`inbox_reducer`, with times that contradict the order of arrival somewhere; retries are 0
there because they only delay an arrival, which any order covers, and 2 in
`inbox_orphans`, so that a repeat meets a first and a last retry. In `tracking_lease` a
clock of five lets a call stall past its lease of two, another take over, finish, and the
cache run out once more; three takings are an owner, its successor and one after an
error.

In `campaign_lifecycle` two keys let the job of an older request be retried while a newer
one runs; two versions are an edit between a test and its record, or between a request
and its snapshot; two agents are a listing that changes hands before, during or after a
test; two attempts are a failure and its retry; two different requests (`MaxRequests`) are
one and another version, time or key. Delivery that is not live asks for no test, so
that `FrozenWasTested` says nothing there; the proofs hold for both values of `Live`.

`records` explores ten systems that share no row: the initial state picks one that moves
while the others keep a first state of theirs, so that each is explored in full and the
states add up instead of multiplying. Its sizes: three recipients in two batches, reserved
in any groups and again, over two days, limit 3, three resolutions per batch; a file of two rows under two
mappings (the second address bad or a repetition, the second tag unknown or known), two
workers, two tries, two validations; two listings, pages of one, two pages per execution
(so that the cap is met), three published changes, two executions; two roster members, two addresses, two agents, two requests,
two edits; two photos, two executions, two edits of the gallery; four legacy rows, of
which two share an address with different statuses and one is bad, two runs and one
change by the service; two portal agents, two Entra identities, two addresses, four
accounts, two administrative acts; one window with a second editor behind it, two texts,
two versions, two edits; two reducers, one recomputer, two buckets, one fault; three
contacts, pages of one, two changes. Each is the least at which its conflict exists:
two actors, something both touch, and one repetition.

Deadlock is not checked for Delivery (a campaign that is over leaves nothing to do),
WebhookInbox (all events are settled), TrackingLease (its clock is bounded),
CampaignLifecycle (a frozen campaign whose jobs are over) and the systems of MCRecords
(finished, or at a bound). It is for JobQueue, where time always passes.

Fairness. JobQueue: time passes, a live process's loop and timers go on, a suspended
process comes back, and each due job is claimed again and again as it is due again
and again (`ORDER BY run_at` makes the queue first come, first served). Delivery: the
same for a worker's steps; strong fairness only for campaign-level jobs; the slot
frees and the gate opens after finitely long, as both are instants in the code.
WebhookInbox: a waiting job is run some time, which is what `EveryJobSettles` of JobQueue
gives a job with attempts left; a job of an event that fails for good is outside.
CampaignLifecycle: a worker goes on (weak fairness of its steps), and each due job is
claimed again and again (strong fairness of a claim that needs no lost lease), as in
JobQueue. The other modules state safety only.

### What the refuted properties say

1. `NeverRevived` (`modules/delivery/service.ts:544,610,675`): the status is read
   without a lock and SENDING / COMPLETED are written by id, so a cancel or pause in
   between is overwritten. `tests/integration/postgres.test.ts:1363` tests the races of
   the commands among themselves only.
2. `NoDuplicateDelivery` with a lost answer (`db/rawQueries.ts:132`): a recipient whose
   batch waits for its retry is a candidate for the next campaign-level dispatch, which
   submits it under another key. `docs/DATA_MODEL.md:57` promises one batch and one key.
   The Resend provider reports a broken connection as an error without a status, which
   is "temporary".

`DeliveryEnds` is checked without process aborts, lost leases and statistics errors:
after a death between SUBMITTING and the result, recipients stay SENDING, no code
resumes them, and the campaign's quota job comes back every window for ever.

### Behaviours met while modelling

Each of these is a sequence the models contain or that follows from a definition; no
run states the opposite, because the properties set the sequence apart or leave it out.

- Delivery. Statistics are recomputed inside the `try` whose `catch` is meant for
  provider errors (`modules/delivery/service.ts:205`): when they fail after the result
  was committed, accepted recipients become TEMPORARY_FAILED. A recipient reserved twice
  is settled once, so that a completed campaign may leave quota reserved
  (`db/rawQueries.ts:145`, against `docs/DATA_MODEL.md:58`).
- Webhooks. Misses are counted per execution (`modules/webhooks/service.ts:100`): a job
  that runs twice starts two chains of retries that share the count, and an event can be
  dead-lettered while the job of its last retry waits (`docs/OPERATIONS_RUNBOOK.md:52`).
- Manual review. Its quota updates name no day (`modules/delivery/manualReview.ts:113`),
  and a safe retry after a release, or after an id was attached, counts the batch again;
  both are `tainted`. Recipients of a refused or safely retried batch may be reserved again
  at once, in a new batch (`db/rawQueries.ts:128`: their `next_attempt_at` is never set):
  they are counted again and nothing gives the first reservation back, against
  `docs/DATA_MODEL.md:58`, "accepted/released counters reconcile reservation".
  `BooksBalance` counts exactly what is left (`stranded`); a batch emptied in this way stays
  PREPARING. A completed campaign never runs the retry.
- Import. A validation saved while the job is pending or running changes the mapping of
  the next attempt without a confirmation (`modules/imports/service.ts:215`), `remapped`;
  an error in the catch block leaves PROCESSING, and applying answers that it was already
  processed.
- OneKey index. An on-demand fetch can overwrite a newer row, the initial sync misses a
  listing that moves to the front while it pages, and one of more than 100 pages
  (`modules/onekey/service.ts:908`) saves the number of records it read as its cursor, so
  that the listings after the cap are not indexed unless the event log names them after
  that position (`skewed`).
- OneKey agents. A refresh compares with the agent it read before its calls
  (`modules/onekey/service.ts:467`), and a draft is created with one (`overlap`). The agent
  is found by two reads and updated by id at READ COMMITTED (273-321): two members that
  share an address both find the same unowned agent and take it in turn (`crossed`), while
  `docs/SECURITY.md:30` says "links identity by stable BBO member key, rejects email/source
  conflicts".
- OneKey photos. Two executions of the media job that meet can store a photo twice and make
  two heroes (`crowded`). The routes of the assets look for no hero
  (`web/routes/v2.ts:1003-1062`): operators can make any number of assets the hero, beside
  the job's (`pressed`) or without it.
- Listings. A new agent reaches DRAFT campaigns only
  (`modules/listings/service.ts:128-137`), while `docs/DATA_MODEL.md:32` says that
  `reply_to_agent_id` "is always synchronized to the listing's assigned Agent": one past
  DRAFT keeps the older agent in its row, and its test. The snapshot renders the listing's
  agent whatever the row says (`docs/API.md:70`), so that it can freeze an agent that no
  test showed (`reassigned` in `CampaignLifecycle`).
- Migration. Of two rows of one address the later writes its reason over a stricter one of
  the earlier (`scripts/migrate-sqlite-v1.ts:349-359`), and so does a run over the new
  service's, while `docs/MIGRATION.md:38` says "creates/strengthens" and "Unsubscribed →
  `UNSUBSCRIBE`"; it activates a suppression that was released, and takes `lastSentAt` back
  to the old service's.
- Identity. A portal row made ADMIN by `PATCH /users/:id` is detached by the next request
  but keeps its `portal-agent:N` key, so that every later creation fails.
- Composer. Text typed while an AI text is applied is replaced by it or stays unsaved; a
  refetch after another window's edit brings a version without its draft, which the
  next autosave overwrites (`behind`).
- Statistics. A fact that commits after the job of its bucket has begun (`uncovered`), and
  a slow count over a newer one (`overtaken`), stay until the next event.
- Contact pages. The cursor's contact is read again for each page: mailed in between, under
  `sort=lastSentAt`, it moves the place (`anchorMoved`); the export by OFFSET skips
  someone when others leave.

## Proofs

`JobQueueProofs` proves, for any sets of jobs and workers and any values of the other
constants allowed by `QueueAssumption`: `TypeCorrect`, `OwnershipCorrect`,
`LeaseCorrect`, `TheftFree`, `SettlementCorrect`, `BudgetCorrect` and `Refinement`.

The inductive invariant is

    IInv == TypeOK /\ BusyHasJob /\ OwnerIsCurrent /\ LeaseInStep

`BusyHasJob`: a busy runner has a job, an idle one none. `OwnerIsCurrent` is inductive
beside it only because every writer of `attempts` either clears the row's status or
the owner: an upsert makes the row PENDING, so that nobody owns it, before its
attempts can differ from the copy the worker took. `LeaseInStep` strengthens
`LiveLeaseHeld`: for a worker in time the lease outlives the renewal timer by at least
the difference the constants give; `RenewEvery < LockTicks` is what keeps it
positive. The action properties follow from `IInv` and one lemma per property that
finds the only action able to change what it is about (`OnlyClaimTakes`,
`OnlySettlementEnds`, `OnlyFailFollowsThrew`); the refinement from `NoRowChanges`,
`OnlyRowChanges` and `SettlementRefines`, action by action.

`DeliveryProofs` and `DeliveryBooksProofs` prove results about any finite set of
recipients and any workers, batches and limit allowed by `DeliveryAssumption`. The type
invariant has to be strengthened to

    TypeInv == RunOK /\ RowsOK /\ OtherOK /\ AttemptsLeft

by what each place of a worker (`pc`) knows: from the reservation on a worker has a batch,
and a batch that may still be submitted has an attempt left (`AttemptsLeft`, the reason
why the count stays within the retry budget). Frame lemmas say once what a step of
another worker leaves alone; `WritersOfRows` lists the only actions that write
`sendState`, and every later proof looks at those alone.

Whatever fails: `TypeCorrect`; `SuppressionHolds` (by `ListRespected`: who was suppressed
when the job started is found by the last look and taken out after it); `OneSubmitter`
(by `PastSubmission`: the worker that takes a batch from PREPARING to SUBMITTING keeps
everybody else from doing it, with a lost lease or without); `AcceptanceIsReal`;
`LimitRespected`. The others name the failures they exclude:

| Theorem | Hypothesis | Counterexample of TLC without it |
|---|---|---|
| `WakeupKept` | no lost lease | a worker without its lease marks a paused campaign SENDING, after the job taken over from it was dropped, and dies |
| `FlightFrozen`, `ReservationsCovered`, `RowsFollowBatches` | `Calm`: no lost lease, and the statistics do not throw after a commit | the statistics throw: the committed batch is in the hands of the catch block; or a lost lease, a refusal and a suppression: two workers go on with one batch |
| `MailedOnce`, `DailyLimitKept`, `DeliveryIsMailing`, `RecordHonest` | `Clean`: `Calm`, an error means that nothing went out, the commit of an answer does not fail | the answer is lost: `delivery_duplicate` |

Commands, suppressions, refusals, retries, expired keys, holds, the guard and deaths of
workers are never excluded. The chain is `OneHolder` (a batch is in one worker's hands, or
waits under one job key), then `Frozen` (the recipients a worker works on stay SENDING
members of its batch), `Covered` (every member of a batch still to be settled is counted
in `reserved`) and `SentOnce` (who has a message has one, and is in flight or accepted,
with `Unsent` for those whose answer is not there yet), each inductive only beside those
before it. `DailyLimitKept` adds up: who has a message is accepted, and `Counted` so, or
`Covered`.

`DeliveryIsMailing` maps `sendState` to `fate` and the messages out to `sent` and shows
that each step of `Delivery` is one of `Mailing` or none. Beside the chain above it needs
`RowsAgree` (`RowsFollowBatches`): who waits for a retry belongs to a batch that waits for
it, and who has an outcome is in no batch that will be sent again; without it a commit or
a `FailBatch` could move somebody whose outcome is final. One step is wider than one would
write it: `failBatch` rewrites every member of its batch, also one who was SUPPRESSED
between two attempts, so `Mailing`'s `GiveUp` starts from "suppressed" as well; no message
has left for such a member. `RecordHonest` is an invariant of `Mailing` alone, carried
over: an accepted recipient has one message, one who waits or was refused has none.

`WebhookInboxProofs` proves `SuppressionCorrect`, `ReleaseCorrect`, `TypeCorrect` and
`RowsAreReductions` for any events, recipients, addresses, retries, repeats and
operators. The first invariant is about addresses,

    IInv == SuppressionTyped /\ MatchedIsNamed /\ StrictestReasonStands

`stricterSuppression` returns one of its arguments and an upper bound of both
(`StricterIsUpperBound`), hence each upsert keeps the projection (`UpsertKeeps`);
`MatchedIsNamed` is what makes an applied event one about a recipient with an address
(`FoundHasAddress`). A release keeps the causes, so the strictest reason survives it.
`ReleaseCorrect` needs that only `Apply` among the outcomes of a job reactivates a
suppression, and that it settles an event that was not (`RunJobPreserves`, `QuietStep`).
The second adds the rows,

    InboxInv == IInv /\ RowsReflect /\ RetriesLeft

`RowsReflect` says of each column what it is over the set of applied events: 0 if none
is of its kind, else the time of one of them that no other precedes (follows). Applying
one more event keeps that; an event that was applied is not applied again. The definition
of `RowIsReduction` chooses that minimum, which is unique (`EarliestIs`, `LatestIs`), so
no induction over the set is needed. `RetriesLeft` relates the tries of an event to its
waiting jobs and bounds both.

`TrackingLeaseProofs` proves `TypeCorrect`, `OverlapFree`, `FencingCorrect`,
`RecentCorrect` and `FencedLeaseKept` for any number of calls and any lease, cache and clock. Its invariant is

    IInv == TypeOK /\ Fencing /\ HolderKeeps /\ InOrder /\ StoredInTime /\ KnownIsRecent

`Fencing`: tokens of refreshing calls differ, the row holds the newest or none, and while
it holds a call's token it holds that call's lease. `HolderKeeps`: the token of a running
lease stays in the row; `InOrder`, the order of the instants a call takes, is what lets
`Take` conclude from `refreshLeaseUntil <= now` that no lease runs. Overlap and fencing
follow from the two: both calls would hold the row's token. `StoredInTime` carries the
guard of the commit (within the lease) into the row and the answer, where the cache
period is added. `FencedLeaseKept` is the refinement of `FencedLease`, action by action
from the same invariant; that a late owner writes nothing is there the guard of `Write`.

`CampaignLifecycleProofs` proves `TypeCorrect`, `TestedCorrect`, `AskedCorrect`,
`WithdrawalCorrect` and `FrozenCorrect` for any keys, workers, texts, agents and bounds
allowed by `LifecycleAssumption`. Its invariant is

    LifecycleInv == LifecycleTypeOK /\ Evidence /\ JobsAsked /\ FrozenIsPast
                    /\ WithdrawnIsPast /\ FrozenWasTested /\ FrozenWasAsked

`Evidence` is why the number `last_tested_version` proves anything: while it equals the
version, the very copy and agent were shown (the agent unless the listing changed hands
behind a version past DRAFT), and a test still under way is of no later version and, if of
this one, of this copy; an edit that forgot to raise the version would break it.
`JobsAsked` carries the request through the job's payload into the worker's copy of it,
across every retry. `FrozenIsPast` and `WithdrawnIsPast` say where a frozen or withdrawn
campaign can be, and that a dispatch runs for a frozen one only: what it writes from its
stale status is SENDING or COMPLETED, never an editable status. The two action properties
follow. `WithdrawalCorrect` does not say that CANCELLED is final, because it is not: it says
that nothing but a dispatch that was under way leaves it.

`ListingProofs` proves `ListingCoherent`, `GalleryCorrect` and `NothingLost`, each by
an invariant that says what a request or execution under way may rely on, and the type
invariants.

- `EstateInv == EstateTypeOK /\ Carries /\ OnTime /\ Matches /\ MembersApart /\
  BoundStands /\ DraftFollows`: a request under way has read the roster, and, unless it is
  late, the agent the listing still has (`OnTime`); the agent it found is its member's or
  nobody's as long as no other member's was written meanwhile (`Matches`, `crossed`); two
  agents never have the same member, which the unique key sees to, and an agent keeps the
  one it was bound to; unless a late request wrote (`overlap`), the draft has the listing's
  agent.
- `MediaInv`: while no two executions have met (`crowded`), a live photo still ahead of an
  execution is one it saw when it looked (`Foreseen`): it adds a photo once. A hero that
  the job made is one it knows of or its own (`HeroKnown`), so that it makes one at most
  (`OneHero`); while no operator asked for one beside it (`pressed`), it is alone (`Alone`).
- `SyncInv`: while none of the three sequences of `skewed` happened, everything before the
  saved cursor is in the index (`Covers`); what a delta sync has walked past is in the index
  or still in its list, fetched at least as new as the page it asked for (`Pending`,
  `InHand`); an initial sync has, in the index or in its hands, whatever it has paged over,
  which is everything after a short page (`Held`, `Read`), whichever other execution or
  search writes the same rows meanwhile. The least event of a page exists because the
  naturals are well-founded (`LeastOf`).
- `SyncTypeCorrect` adds `NoneAhead`: neither the index nor anything fetched, by an
  execution or on demand, is ahead of what the provider has published of that listing.

`RecordsProofs` proves theorems about the other seven modules of `MCRecords`, and one
about all ten side by side.

- `NobodyShares`: `IdentityInv == IdentityTyped /\ ActorsKnown /\ LocksHold`. Who has
  acted as an account is whom its row still names: the portal agent of its key, or its
  directory identity, never both; between the read and the write of the portal's
  middleware or the script, what was read still stands because of the advisory lock of
  the agent.
- `SavedIsStored`: for each window, `SavedOf(w)` follows the promise of "Saved" from the
  request under way, through edits typed meanwhile, to its answer: unless the row was
  changed behind it, what the answer says was stored is what the window shows, or the
  window still knows that it has more to save. Outside the theorem is what `behind` marks: an
  AI text applied over fresh typing, and a row that another window wrote, show "Saved" over
  a row that differs.
- `StatsComplete`: `Counting`: unless a fact arrived that nobody was to count
  (`uncovered`), the counts are right or some call or job that has not read yet, or has
  read what there is, will write them (`WillCount`). Outside the theorem are the facts that
  commit after their bucket's job has begun or that only a batch's failed count was to count
  (`uncovered`) and, for the numbers, a slow count over a newer one (`overtaken`).
- `ImportCorrect`: `InOrder` and `Passed` (an execution has no row undone behind it),
  `AppliedOnce` and `Completed`; `OneMapping`, `Distinct` and `Asked` while no validation
  was saved over a job that could run (`remapped`).
- `MigrationCovers`: `StepsDone(script)`: what the script has passed is there or in its report,
  table by table, and `Kept`: neither a later row nor the new service, while it is used,
  takes it back. `StatusInv`: rows come in order (`RowsAhead`), so the reason of an address is
  at least that of the last of its rows (`LastCounts`), which the service only makes
  stricter. `TagsOf` names tags of the old database only (`MigrationAssumption`): the script
  passes over a link without its tag.
- `NobodyPassedOver`: `PagingInv`. What a query returns first is a total order on the
  contacts, nulls last and ties by id (`PrecedesOrders`), so ranks tell contacts apart and
  no more of them fit into a page than it has places (`RanksFit`): a page that is not full
  leaves nobody behind it (`LastPage`), a full one ends in its last contact (`FullPage`).
  While that contact keeps its key, whoever was there all along has been read once if the
  cursor is not before it and never otherwise (`CursorKept`); by offset, whoever was not
  read has a rank of at least the offset unless somebody left (`OffsetKept`).
- `BooksReconcile`: `ReviewInv == ReviewTypeOK /\ (~tainted => Reconciled)`. A batch that
  was never in review released nothing, and one in review no more than it still holds
  (`BatchOK`); a second reservation takes recipients out of batches that have released
  nothing, and moves what was reserved for them to `stranded` (`ReserveMoves`,
  `ReserveKeeps`); so what a resolution takes is there to be taken (`EnoughReserved`) and the
  floor at 0 of its UPDATE cuts nothing off. Released quota is counted as the set of its
  numbered slots, which maps one to one into the recipients in review (`SlotsBacked`), so
  that a step on one batch changes each side by what it adds for that batch alone
  (`BalanceKept`). `tainted` is used where it is set: a row of another day would be
  written too, and a safe retry would forget what was released. `Members` is finite
  (`ReviewAssumption`): they are the rows of one campaign.

The type invariants of these modules say more than the shape of the rows, and need
invariants of their own:

- `IdentityTypeCorrect`: no two accounts share a key, a portal agent or a directory
  identity (`RowsDistinct`). A row is written after a look for another one, and the look
  is older than the write; what saves it is the advisory lock of the agent: while it is
  held, the only row that bears the agent is the one its holder has read (`LocksExact`).
- `StatsTypeCorrect`: the stored numbers never show more bounced than accepted messages,
  because no count that anybody holds does (`Tallies`): each is read in one piece.
- `ImportTypeCorrect`: rows, counts and tags stay within the file, the mapping and what
  was validated.
- `MigrationTypeCorrect`: the script carries only valid contacts and known tags, because
  what it still has to do is of the table it is at (`ScriptRows`).
- `PagingTypeCorrect`: a contact is listed at most once, and once more for each change
  (`ReadSeldom`: only a change can put somebody before the reading again, `NotPassed`);
  the offset never passes the number of contacts, since a full page has as many contacts
  behind it as its offset says (`OffsetFits`).

`ComposerTypeCorrect`, `ReviewTypeCorrect` and those of `ListingProofs` follow from the
first conjuncts of the invariants above. `RecordsTyped` puts the ten together for any
values of all their constants: a step of `MCRecords` is a step of one component
(`StepsApart`) and a stutter of each other (`ReviewAlone`, ...), so that the theorem of a
component is one about the whole.

Only model-checked: the two counterexamples, and all liveness: `DeliveryEnds`,
`EveryJobSettles`, `EveryEventSettles`, `LateLinkIsEnough` and `SnapshotSettles` (the prover
has no rule for fairness or ENABLED).

## Not modelled

- Queries and formulas without state: reports, the audience query, the search of listings,
  warm-up steps and the send window of `quota.ts`, rendering, compliance checks, parsing
  and normalising, configuration. A model would be the formula again.
- CRUD over one row with no second reader of what it leaves: templates, settings, saved
  audiences, labels, creation and duplication of listings. `quickStart` and the portal's
  creation of campaigns are creations of the rows `CampaignLifecycle` and `OneKeyListing`
  start from; their idempotency lookups do not filter deleted rows, so that a replay
  after a deletion answers the deleted draft.
- The retention clean-ups of `worker/handlers/index.ts`, which delete rows older than any
  behaviour here.
- External systems (provider, blob store, language model, MLS feed) but for the contract
  the code relies on; images; the other pages of the client; shell scripts and
  infrastructure.
- A delivery whose job runs out of attempts, and a process that dies at the provider:
  hazards without a property in `PROJECT.json`, each with the reason.

## Plan

1. Several campaigns on one sender's slot and limit, with the window and warm-up, to ask
   whether one can starve another.
2. `Delivery` over `JobQueue` with counted attempts: what survives a job that is FAILED.
