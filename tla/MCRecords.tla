------------------------------- MODULE MCRecords -------------------------------
(* Ten components that share no row with one another, explored side by     *)
(* side: an initial state picks the one that moves, the others stay in a    *)
(* first state of theirs.  README.md explains the sizes in Records.cfg.     *)
EXTENDS ManualReview, ContactImport, OneKeySync, OneKeyListing, OneKeyMedia,
        LegacyMigration, Identity, Composer, CampaignStats, ContactPaging, TLC

CONSTANTS w1, w2, x1, x2, g1, k1, f1, v1

VARIABLE moving

\* Whoever works and what is worked on.
MCSymmetry == Permutations({w1, w2}) \cup Permutations({x1, x2})

\* Import: a file of two rows whose second address is bad or the first one again,
\* by the mapping; one of the two tags is known before.
MCEmailAt == [m1 |-> <<"a", "bad">>, m2 |-> <<"a", "a">>]
MCTagAt == [m1 |-> <<"t", "u">>, m2 |-> <<"t", "t">>]
\* Migration: an address on two rows with different statuses, a bad address.
MCMailOf == <<"x", "y", "x", "bad">>
MCStatusOf == <<"unsubscribed", "active", "bounced", "unsubscribed">>
MCTagsOf == <<{g1}, {g1}, {}, {}>>
MCAssetsOf == [c \in {k1} |-> {f1}]

ReviewMoves ==
  /\ moving = "review"
  /\ UNCHANGED <<moving, importVars, syncVars, estateVars, mediaVars, migrationVars,
                 identityVars, composerVars, statsVars, pagingVars>>
ImportMoves ==
  /\ moving = "import"
  /\ UNCHANGED <<moving, reviewVars, syncVars, estateVars, mediaVars, migrationVars,
                 identityVars, composerVars, statsVars, pagingVars>>
SyncMoves ==
  /\ moving = "sync"
  /\ UNCHANGED <<moving, reviewVars, importVars, estateVars, mediaVars, migrationVars,
                 identityVars, composerVars, statsVars, pagingVars>>
EstateMoves ==
  /\ moving = "estate"
  /\ UNCHANGED <<moving, reviewVars, importVars, syncVars, mediaVars, migrationVars,
                 identityVars, composerVars, statsVars, pagingVars>>
MediaMoves ==
  /\ moving = "media"
  /\ UNCHANGED <<moving, reviewVars, importVars, syncVars, estateVars, migrationVars,
                 identityVars, composerVars, statsVars, pagingVars>>
MigrationMoves ==
  /\ moving = "migration"
  /\ UNCHANGED <<moving, reviewVars, importVars, syncVars, estateVars, mediaVars,
                 identityVars, composerVars, statsVars, pagingVars>>
IdentityMoves ==
  /\ moving = "identity"
  /\ UNCHANGED <<moving, reviewVars, importVars, syncVars, estateVars, mediaVars,
                 migrationVars, composerVars, statsVars, pagingVars>>
ComposerMoves ==
  /\ moving = "composer"
  /\ UNCHANGED <<moving, reviewVars, importVars, syncVars, estateVars, mediaVars,
                 migrationVars, identityVars, statsVars, pagingVars>>
StatsMoves ==
  /\ moving = "stats"
  /\ UNCHANGED <<moving, reviewVars, importVars, syncVars, estateVars, mediaVars,
                 migrationVars, identityVars, composerVars, pagingVars>>
PagingMoves ==
  /\ moving = "paging"
  /\ UNCHANGED <<moving, reviewVars, importVars, syncVars, estateVars, mediaVars,
                 migrationVars, identityVars, composerVars, statsVars>>

RecordsInit ==
  /\ moving \in {"review", "import", "sync", "estate", "media", "migration", "identity",
                 "composer", "stats", "paging"}
  /\ ReviewInit /\ ImportInit /\ SyncInit /\ EstateInit /\ MediaInit /\ MigrationInit
  /\ IdentityInit /\ ComposerInit /\ StatsInit /\ PagingInit
  /\ roster.listed = "m1" /\ roster.mail["m1"] = "e1"
  /\ moving # "estate" => roster.mail["m2"] = "e1"
  /\ moving # "migration" => files = [f \in Files |-> "good"]
  /\ moving # "composer" => stored.draft.text = "t1"
  /\ moving # "paging" => \A c \in Numbered : createdAt[c] \in {0, 1} /\ lastSentAt[c] = 0

RecordsNext ==
  \/ ReviewMoves /\ \E b \in ReviewBatches, S \in SUBSET Members : ReserveBatch(b, S)
  \/ ReviewMoves /\ ReserveNothing
  \/ ReviewMoves /\ \E b \in ReviewBatches : LoseAnswer(b)
  \/ ReviewMoves /\ \E b \in ReviewBatches : RefuseForNow(b)
  \/ ReviewMoves /\ \E b \in ReviewBatches : RefuseForGood(b)
  \/ ReviewMoves /\ \E b \in ReviewBatches : RetryBatch(b)
  \/ ReviewMoves /\ \E b \in ReviewBatches, A \in SUBSET Members : FinishBatch(b, A)
  \/ ReviewMoves /\ Midnight
  \/ ReviewMoves /\ \E b \in ReviewBatches : ReleaseQuota(b)
  \/ ReviewMoves /\ \E b \in ReviewBatches : MarkNotSent(b)
  \/ ReviewMoves /\ \E b \in ReviewBatches : MarkAccepted(b)
  \/ ReviewMoves /\ \E b \in ReviewBatches : SafeRetry(b)
  \/ ReviewMoves /\ \E b \in ReviewBatches : KeepInReview(b)
  \/ ReviewMoves /\ \E b \in ReviewBatches, r \in Members : AttachProviderId(b, r)
  \/ ImportMoves /\ \E m \in Mappings : Validate(m)
  \/ ImportMoves /\ \E confirm \in BOOLEAN : Apply(confirm)
  \/ ImportMoves /\ \E e \in ImportAddresses : ContactAppears(e)
  \/ ImportMoves /\ \E w \in ImportWorkers : Claim(w)
  \/ ImportMoves /\ \E w \in ImportWorkers : LoseJob(w)
  \/ ImportMoves /\ \E w \in ImportWorkers : CrashImport(w)
  \/ ImportMoves /\ \E w \in ImportWorkers : PassRow(w)
  \/ ImportMoves /\ \E w \in ImportWorkers : RejectRow(w, "INVALID")
  \/ ImportMoves /\ \E w \in ImportWorkers : RejectRow(w, "SKIPPED")
  \/ ImportMoves /\ \E w \in ImportWorkers : UpsertRow(w)
  \/ ImportMoves /\ \E w \in ImportWorkers : FindRowDone(w)
  \/ ImportMoves /\ \E w \in ImportWorkers : RollBack(w)
  \/ ImportMoves /\ \E w \in ImportWorkers : FileError(w)
  \/ ImportMoves /\ \E w \in ImportWorkers : CountRows(w)
  \/ ImportMoves /\ \E w \in ImportWorkers : CountFailure(w)
  \/ ImportMoves /\ \E w \in ImportWorkers : Complete(w)
  \/ ImportMoves /\ \E w \in ImportWorkers : Fail(w)
  \/ SyncMoves /\ \E k \in Listings : Publish(k)
  \/ SyncMoves /\ \E k \in Listings : FetchOnDemand(k)
  \/ SyncMoves /\ CacheOnDemand
  \/ SyncMoves /\ \E s \in Syncers : StartDelta(s)
  \/ SyncMoves /\ \E s \in Syncers : FetchNext(s)
  \/ SyncMoves /\ \E s \in Syncers : CacheNext(s)
  \/ SyncMoves /\ \E s \in Syncers : SaveCursor(s)
  \/ SyncMoves /\ \E s \in Syncers : StopSync(s)
  \/ SyncMoves /\ \E s \in Syncers : StartInitial(s)
  \/ SyncMoves /\ \E s \in Syncers : AskChanges(s)
  \/ SyncMoves /\ \E s \in Syncers : FetchPage(s)
  \/ SyncMoves /\ \E s \in Syncers : CachePage(s)
  \/ SyncMoves /\ \E s \in Syncers : FinishInitial(s)
  \/ EstateMoves /\ \E m \in Roster, e \in Mails : RosterChanges(m, e)
  \/ EstateMoves /\ \E a \in AgentIds, e \in Mails, active \in BOOLEAN : SaveAgent(a, e, active)
  \/ EstateMoves /\ \E a \in AgentIds : Reassign(a)
  \/ EstateMoves /\ DraftLeaves
  \/ EstateMoves /\ \E q \in Requests : BeginImport(q)
  \/ EstateMoves /\ \E q \in Requests : BeginRefresh(q)
  \/ EstateMoves /\ \E q \in Requests : BeginDraft(q)
  \/ EstateMoves /\ \E q \in Requests : RequestAborts(q)
  \/ EstateMoves /\ \E q \in Requests : EndImport(q)
  \/ EstateMoves /\ \E q \in Requests : EndRefresh(q)
  \/ EstateMoves /\ \E q \in Requests : EndDraft(q)
  \/ EstateMoves /\ \E q \in Requests, a \in AgentIds \cup {Nobody} : FindByMember(q, a)
  \/ EstateMoves /\ \E q \in Requests, a \in AgentIds \cup {Nobody} : FindByMail(q, a)
  \/ EstateMoves /\ \E q \in Requests, a \in AgentIds : StoreAgent(q, a)
  \/ EstateMoves /\ \E q \in Requests, a \in AgentIds : ChooseAgent(q, a)
  \/ MediaMoves /\ \E c \in Copiers : StartCopy(c)
  \/ MediaMoves /\ \E c \in Copiers : SkipPhoto(c)
  \/ MediaMoves /\ \E c \in Copiers : MissPhoto(c)
  \/ MediaMoves /\ \E c \in Copiers : CopyPhoto(c)
  \/ MediaMoves /\ \E c \in Copiers : EndCopy(c)
  \/ MediaMoves /\ \E c \in Copiers : LoseCopier(c)
  \/ MediaMoves /\ \E hero \in {"nobody", "operator"} : UploadPhoto(hero)
  \/ MediaMoves /\ \E H, G \in SUBSET gallery : Reorder(H, G)
  \/ MediaMoves /\ \E g \in gallery : DeletePhoto(g)
  \/ MigrationMoves /\ DryRun
  \/ MigrationMoves /\ UploadAssets
  \/ MigrationMoves /\ ToContacts
  \/ MigrationMoves /\ ToLinks
  \/ MigrationMoves /\ ToCampaigns
  \/ MigrationMoves /\ Finish
  \/ MigrationMoves /\ Abort
  \/ MigrationMoves /\ \E t \in LegacyTags : MigrateTag(t)
  \/ MigrationMoves /\ \E t \in LegacyTags : TagFails(t)
  \/ MigrationMoves /\ \E s \in Subscribers : MigrateContact(s)
  \/ MigrationMoves /\ \E s \in Subscribers : ContactFails(s)
  \/ MigrationMoves /\ \E l \in Subscribers \X LegacyTags : MigrateLink(l)
  \/ MigrationMoves /\ \E c \in LegacyCampaigns : MigrateCampaign(c)
  \/ MigrationMoves /\ \E c \in LegacyCampaigns : CampaignFails(c)
  \/ MigrationMoves /\ \E f \in Files : Repair(f)
  \/ MigrationMoves /\ \E e \in Persons : SendNow(e)
  \/ MigrationMoves /\ \E e \in Persons, cause \in Causes : BarNow(e, cause)
  \/ MigrationMoves /\ \E e \in Persons : ReleaseNow(e)
  \/ IdentityMoves /\ \E o \in Identities, m \in Addresses : SignInKnown(o, m)
  \/ IdentityMoves /\ \E o \in Identities, m \in Addresses : SignInLinks(o, m)
  \/ IdentityMoves /\ \E o \in Identities, m \in Addresses : SignInCreates(o, m)
  \/ IdentityMoves /\ \E a \in PortalAgents : PortalReads(a)
  \/ IdentityMoves /\ \E a \in PortalAgents : PortalUpdates(a)
  \/ IdentityMoves /\ \E a \in PortalAgents : PortalCreates(a)
  \/ IdentityMoves /\ \E a \in PortalAgents : PortalFails(a)
  \/ IdentityMoves /\ \E m \in Addresses, r \in {"ADMIN", "MARKETER"} : ProvisionUser(m, r)
  \/ IdentityMoves /\ \E x \in Accounts, r \in {"ADMIN", "MARKETER"}, on \in BOOLEAN :
       ChangeUser(x, r, on)
  \/ IdentityMoves /\ \E a \in PortalAgents, x \in Accounts : ScriptReads(a, x)
  \/ IdentityMoves /\ \E a \in PortalAgents : ScriptWrites(a)
  \/ ComposerMoves /\ \E w \in Windows, d \in Drafts : TypeIn(w, d)
  \/ ComposerMoves /\ \E w \in Windows : Refetch(w)
  \/ ComposerMoves /\ \E w \in Windows : RefetchArrives(w)
  \/ ComposerMoves /\ \E w \in Windows : Reload(w)
  \/ ComposerMoves /\ \E w \in Windows : StartSave(w)
  \/ ComposerMoves /\ \E w \in Windows : SaveReaches(w)
  \/ ComposerMoves /\ \E w \in Windows : SaveAnswered(w)
  \/ ComposerMoves /\ \E w \in Windows : SaveFails(w)
  \/ ComposerMoves /\ \E w \in Windows : Generate(w)
  \/ ComposerMoves /\ \E w \in Windows : Generated(w)
  \/ ComposerMoves /\ \E w \in Windows : ChooseVariant(w)
  \/ ComposerMoves /\ \E w \in Windows, t \in Texts : ApplyReaches(w, t)
  \/ ComposerMoves /\ \E w \in Windows : Applied(w)
  \/ ComposerMoves /\ \E w \in Windows : AiFails(w)
  \/ ComposerMoves /\ \E w \in Windows, kind \in {"recipients", "test", "publish"} : Ask(w, kind)
  \/ ComposerMoves /\ \E w \in Windows : RequestReaches(w)
  \/ ComposerMoves /\ \E w \in Windows : RequestAnswered(w)
  \/ ComposerMoves /\ \E w \in Windows : RequestFails(w)
  \/ ComposerMoves /\ \E d \in Drafts : EditElsewhere(d)
  \/ StatsMoves /\ \E w \in Reducers, kind \in {"bounced", "clicked"} : OpenEvent(w, kind)
  \/ StatsMoves /\ \E w \in Reducers : CommitEvent(w)
  \/ StatsMoves /\ \E w \in Reducers : AbortEvent(w)
  \/ StatsMoves /\ \E w \in Reducers : BatchAccepted(w)
  \/ StatsMoves /\ \E w \in Reducers : ReadNow(w)
  \/ StatsMoves /\ \E w \in Reducers : WriteNow(w)
  \/ StatsMoves /\ \E w \in Reducers : CountFails(w)
  \/ StatsMoves /\ \E w \in Recomputers, b \in Buckets : RunRecompute(w, b)
  \/ StatsMoves /\ \E w \in Recomputers : ReadFacts(w)
  \/ StatsMoves /\ \E w \in Recomputers : WriteStats(w)
  \/ StatsMoves /\ \E w \in Recomputers : SettleRecompute(w)
  \/ StatsMoves /\ \E w \in Recomputers : RecomputeFails(w)
  \/ StatsMoves /\ BucketEnds
  \/ StatsMoves /\ Reactivate
  \/ PagingMoves /\ \E by \in {"cursor", "offset"}, sort \in {"createdAt", "lastSentAt"}, order \in {"asc", "desc"} :
       StartWalk(by, sort, order)
  \/ PagingMoves /\ ReadAnchor
  \/ PagingMoves /\ ReadPage
  \/ PagingMoves /\ \E c \in Numbered : CreateContact(c)
  \/ PagingMoves /\ \E S \in SUBSET Numbered, status \in {"ACTIVE", "ARCHIVED"} :
       SetStatus(S, status)
  \/ PagingMoves /\ \E S \in SUBSET Numbered : Mailed(S)

recordsVars == <<moving, reviewVars, importVars, syncVars, estateVars, mediaVars, migrationVars,
                 identityVars, composerVars, statsVars, pagingVars>>
RecordsSpec == RecordsInit /\ [][RecordsNext]_recordsVars

\* The type invariant of the component that moves; the others stay as they began.
RecordsTypeOK ==
  /\ moving = "review" => ReviewTypeOK
  /\ moving = "import" => ImportTypeOK
  /\ moving = "sync" => SyncTypeOK
  /\ moving = "estate" => EstateTypeOK
  /\ moving = "media" => MediaTypeOK
  /\ moving = "migration" => MigrationTypeOK
  /\ moving = "identity" => IdentityTypeOK
  /\ moving = "composer" => ComposerTypeOK
  /\ moving = "stats" => StatsTypeOK
  /\ moving = "paging" => PagingTypeOK
=============================================================================
