--------------------------- MODULE LegacyMigration ---------------------------
(***************************************************************************)
(* scripts/migrate-sqlite-v1.ts brings the contacts, suppressions, tags    *)
(* and campaigns of the old service over, while the new one may be in use. *)
(* It is not one transaction: assets, then tags, contacts, links and       *)
(* campaigns one row at a time, a failing row reported and passed over.    *)
(* It may die anywhere and is run again.                                   *)
(***************************************************************************)
EXTENDS Naturals, FiniteSets

CONSTANTS
  Subscribers,  \* legacy rows, numbered in the order they are read
  MailOf,       \* their address, BadMail when it does not normalise
  StatusOf,     \* their legacy status
  BadMail,
  LegacyTags, TagsOf,           \* legacy tags, and those of each subscriber
  LegacyCampaigns, AssetsOf,    \* legacy campaigns, and the files their HTML names
  Files,        \* files referenced
  MaxRuns,      \* bound on runs of the script
  MaxChanges    \* bound on what the new service does meanwhile

\* A link to a tag that has no row any more is passed over: TagsOf has none.
ASSUME MigrationAssumption ==
  /\ Subscribers \subseteq Nat
  /\ \A s \in Subscribers : TagsOf[s] \subseteq LegacyTags
  /\ MaxRuns \in Nat /\ MaxChanges \in Nat

VARIABLES
  script,    \* the running script: step, rows still to do, what it mapped
  files,     \* each file: what inspectLegacyAssets makes of it
  persons,   \* contacts: exists, and whether last_sent_at is the new service's
  barred,    \* suppressions: reason and is_active
  tagged,    \* contact_tags
  archive,   \* campaigns of type LEGACY_ARCHIVE: the files whose URLs are permanent
  runs, changes,
  released   \* history: addresses an administrator released since a run suppressed them

migrationVars == <<script, files, persons, barred, tagged, archive, runs, changes, released>>

Persons == {MailOf[s] : s \in Subscribers} \ {BadMail}
Valid == {s \in Subscribers : MailOf[s] # BadMail}
\* suppressionFor
ReasonFor ==
  [unsubscribed |-> "UNSUBSCRIBE", bounced |-> "LEGACY_BOUNCE_REVIEW", complained |-> "COMPLAINT",
   suppressed |-> "PROVIDER_SUPPRESSED"]
Suppressing(s) == StatusOf[s] \in DOMAIN ReasonFor
\* severity, of the reasons that occur here (suppressions/domain.ts).
Severity ==
  [COMPLAINT |-> 9, UNSUBSCRIBE |-> 8, PROVIDER_SUPPRESSED |-> 6, MANUAL |-> 4,
   LEGACY_BOUNCE_REVIEW |-> 3, NONE |-> 0]
\* What the new service suppresses an address for: somebody asks, or an operator.
Causes == {"UNSUBSCRIBE", "MANUAL"}

NotRunning == [at |-> "idle", todo |-> {}, contacts |-> {}, tags |-> {}, urls |-> {}, errors |-> {}]
Unbarred == [active |-> FALSE, reason |-> "NONE"]
NotArchived == [row |-> FALSE, urls |-> {}]

MigrationTypeOK ==
  /\ script.at \in {"idle", "tags", "contacts", "links", "campaigns", "done"}
  /\ script.contacts \subseteq Valid /\ script.tags \subseteq LegacyTags /\ script.urls \subseteq Files
  /\ files \in [Files -> {"good", "corrupt", "missing", "unsafe", "unsupported"}]
  /\ persons \in [Persons -> {"absent", "legacy", "current"}]
  /\ barred \in [Persons -> [active : BOOLEAN, reason : DOMAIN Severity]]
  /\ tagged \subseteq Persons \X LegacyTags
  /\ archive \in [LegacyCampaigns -> [row : BOOLEAN, urls : SUBSET Files]]
  /\ runs \in 0 .. MaxRuns /\ changes \in 0 .. MaxChanges /\ released \subseteq Persons

MigrationInit ==
  /\ script = NotRunning
  /\ files \in [Files -> {"good", "corrupt", "missing", "unsafe", "unsupported"}]
  /\ persons = [e \in Persons |-> "absent"] /\ barred = [e \in Persons |-> Unbarred]
  /\ tagged = {} /\ archive = [c \in LegacyCampaigns |-> NotArchived]
  /\ runs = 0 /\ changes = 0 /\ released = {}

Change == changes < MaxChanges /\ changes' = changes + 1
FailsRow(r) == script' = [script EXCEPT !.todo = @ \ {r}, !.errors = @ \cup {r}]
NextStep(at, todo) == script' = [script EXCEPT !.at = at, !.todo = todo]

-----------------------------------------------------------------------------
(* The script. *)

\* inspectLegacyAssets: a file that is there and has known magic bytes.
Migratable == {f \in Files : files[f] \in {"good", "corrupt"}}
\* --dry-run writes a report and nothing else.
DryRun ==
  /\ script.at \in {"idle", "done"} /\ runs < MaxRuns
  /\ runs' = runs + 1 /\ script' = NotRunning
  /\ UNCHANGED <<files, persons, barred, tagged, archive, changes, released>>
\* uploadLegacyAssets: a blob that is there already is no error, a file that
\* cannot be decoded ends the script.
UploadAssets ==
  /\ script.at \in {"idle", "done"} /\ runs < MaxRuns
  /\ runs' = runs + 1
  /\ script' = IF \E f \in Migratable : files[f] = "corrupt" THEN NotRunning
               ELSE [NotRunning EXCEPT !.at = "tags", !.todo = LegacyTags, !.urls = Migratable]
  /\ UNCHANGED <<files, persons, barred, tagged, archive, changes, released>>

MigrateTag(t) ==
  /\ script.at = "tags" /\ t \in script.todo
  /\ script' = [script EXCEPT !.todo = @ \ {t}, !.tags = @ \cup {t}]
  /\ UNCHANGED <<files, persons, barred, tagged, archive, runs, changes, released>>
TagFails(t) ==
  /\ script.at = "tags" /\ t \in script.todo
  /\ FailsRow(t)
  /\ UNCHANGED <<files, persons, barred, tagged, archive, runs, changes, released>>
ToContacts ==
  /\ script.at = "tags" /\ script.todo = {}
  /\ NextStep("contacts", Valid)
  /\ UNCHANGED <<files, persons, barred, tagged, archive, runs, changes, released>>

\* Rows in order; contact and suppression in one transaction.  An existing
\* suppression is made active and given the legacy reason, weaker or not.
Due(s) == script.at = "contacts" /\ s \in script.todo /\ \A r \in script.todo : s <= r
Mapped(s) == script' = [script EXCEPT !.todo = @ \ {s}, !.contacts = @ \cup {s}]
Bar(s) ==
  barred' = IF Suppressing(s)
            THEN [barred EXCEPT ![MailOf[s]] = [active |-> TRUE, reason |-> ReasonFor[StatusOf[s]]]]
            ELSE barred
MigrateNewContactOnly(s) ==
  /\ Due(s)
  /\ persons' = [persons EXCEPT ![MailOf[s]] = "legacy"]
  /\ IF persons[MailOf[s]] = "absent" THEN Bar(s) ELSE UNCHANGED barred
  /\ released' = IF Suppressing(s) THEN released \ {MailOf[s]} ELSE released
  /\ Mapped(s)
  /\ UNCHANGED <<files, tagged, archive, runs, changes>>
MigrateContact(s) ==
  /\ Due(s)
  /\ persons' = [persons EXCEPT ![MailOf[s]] = "legacy"]
  /\ Bar(s)
  /\ released' = IF Suppressing(s) THEN released \ {MailOf[s]} ELSE released
  /\ Mapped(s)
  /\ UNCHANGED <<files, tagged, archive, runs, changes>>
ContactFails(s) ==
  /\ Due(s)
  /\ FailsRow(s)
  /\ UNCHANGED <<files, persons, barred, tagged, archive, runs, changes, released>>
ToLinks ==
  /\ script.at = "contacts" /\ script.todo = {}
  /\ NextStep("links", {l \in Subscribers \X LegacyTags : l[2] \in TagsOf[l[1]]})
  /\ UNCHANGED <<files, persons, barred, tagged, archive, runs, changes, released>>

\* A link whose contact or tag was not mapped is passed over.
MigrateLink(l) ==
  /\ script.at = "links" /\ l \in script.todo
  /\ tagged' = IF l[1] \in script.contacts /\ l[2] \in script.tags
               THEN tagged \cup {<<MailOf[l[1]], l[2]>>} ELSE tagged
  /\ script' = [script EXCEPT !.todo = @ \ {l}]
  /\ UNCHANGED <<files, persons, barred, archive, runs, changes, released>>
ToCampaigns ==
  /\ script.at = "links" /\ script.todo = {}
  /\ NextStep("campaigns", LegacyCampaigns)
  /\ UNCHANGED <<files, persons, barred, tagged, archive, runs, changes, released>>

\* replaceAssetReferences; a campaign that exists is left as it is.
MigrateCampaign(c) ==
  /\ script.at = "campaigns" /\ c \in script.todo
  /\ archive' = IF archive[c].row THEN archive
                ELSE [archive EXCEPT ![c] = [row |-> TRUE, urls |-> AssetsOf[c] \cap script.urls]]
  /\ script' = [script EXCEPT !.todo = @ \ {c}]
  /\ UNCHANGED <<files, persons, barred, tagged, runs, changes, released>>
CampaignFails(c) ==
  /\ script.at = "campaigns" /\ c \in script.todo
  /\ FailsRow(c)
  /\ UNCHANGED <<files, persons, barred, tagged, archive, runs, changes, released>>
Finish ==
  /\ script.at = "campaigns" /\ script.todo = {}
  /\ NextStep("done", {})
  /\ UNCHANGED <<files, persons, barred, tagged, archive, runs, changes, released>>

\* The process dies, or the database fails where nothing catches it (links).
Abort ==
  /\ script.at \notin {"idle", "done"}
  /\ script' = NotRunning
  /\ UNCHANGED <<files, persons, barred, tagged, archive, runs, changes, released>>

-----------------------------------------------------------------------------
(* The new service, and the operator who repairs a file. *)

Repair(f) ==
  /\ Change /\ script.at \in {"idle", "done"}
  /\ files' = [files EXCEPT ![f] = "good"]
  /\ UNCHANGED <<script, persons, barred, tagged, archive, runs, released>>
SendNow(e) ==
  /\ Change /\ ~barred[e].active
  /\ persons' = [persons EXCEPT ![e] = "current"]
  /\ UNCHANGED <<script, files, barred, tagged, archive, runs, released>>
\* upsertSuppression: of two reasons the stricter stands.
BarNow(e, cause) ==
  /\ Change
  /\ barred' = [barred EXCEPT ![e] = [active |-> TRUE,
                  reason |-> IF Severity[cause] > Severity[@.reason] THEN cause ELSE @.reason]]
  /\ released' = released \ {e}
  /\ UNCHANGED <<script, files, persons, tagged, archive, runs>>
ReleaseNow(e) ==
  /\ Change /\ barred[e].active
  /\ barred' = [barred EXCEPT ![e].active = FALSE]
  /\ released' = released \cup {e}
  /\ UNCHANGED <<script, files, persons, tagged, archive, runs>>

MigrationNext ==
  \/ DryRun \/ UploadAssets \/ ToContacts \/ ToLinks \/ ToCampaigns \/ Finish \/ Abort
  \/ \E t \in LegacyTags : MigrateTag(t) \/ TagFails(t)
  \/ \E s \in Subscribers : MigrateContact(s) \/ ContactFails(s)
  \/ \E l \in Subscribers \X LegacyTags : MigrateLink(l)
  \/ \E c \in LegacyCampaigns : MigrateCampaign(c) \/ CampaignFails(c)
  \/ \E f \in Files : Repair(f)
  \/ \E e \in Persons : SendNow(e) \/ ReleaseNow(e)
  \/ \E e \in Persons, cause \in Causes : BarNow(e, cause)
MigrationSpec == MigrationInit /\ [][MigrationNext]_migrationVars

-----------------------------------------------------------------------------
\* The last row of its address that the run carried over with a status that
\* suppresses.
SaysLast(s) ==
  /\ s \in script.contacts /\ Suppressing(s)
  /\ \A r \in script.contacts : MailOf[r] = MailOf[s] /\ Suppressing(r) => r <= s

\* MIGRATION.md: "never drop unsubscribes", "Re-running is idempotent".  After
\* a run that came to its end - whatever earlier runs left behind, whatever
\* the new service did meanwhile - everything the report lists no error for is
\* there: an unsubscribed, bounced, complained or suppressed address is
\* suppressed unless an administrator released it since, for a reason at least
\* as strict as that of the last of its rows; tags are linked, campaigns
\* archived.  The last row only: the upsert writes its reason over a stricter
\* one, of an earlier row or of the new service, although MIGRATION.md says
\* that apply "creates/strengthens" and "Unsubscribed -> UNSUBSCRIBE".
LegacyCovered ==
  script.at = "done" =>
    /\ \A s \in Valid \ script.errors :
         /\ persons[MailOf[s]] # "absent"
         /\ Suppressing(s) => barred[MailOf[s]].active \/ MailOf[s] \in released
         /\ \A t \in TagsOf[s] \ script.errors : <<MailOf[s], t>> \in tagged
    /\ \A s \in Valid :
         SaysLast(s) => Severity[barred[MailOf[s]].reason] >= Severity[ReasonFor[StatusOf[s]]]
    /\ \A c \in LegacyCampaigns \ script.errors : archive[c].row
=============================================================================
