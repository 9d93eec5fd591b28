---------------------------- MODULE ContactImport ----------------------------
(***************************************************************************)
(* One CSV import (modules/imports/service.ts): validate, apply, and the   *)
(* IMPORT_CONTACTS job that works the rows off, one transaction per row.   *)
(* Queue locks are reduced to what an execution meets: it can crash, or    *)
(* lose its job to another worker and go on (module JobQueue has the       *)
(* rest).  A row is its address and one tag; which column each is read     *)
(* from is the mapping's choice.                                           *)
(***************************************************************************)
EXTENDS Naturals, FiniteSets

CONSTANTS
  ImportWorkers,  \* processes that execute the job
  Mappings,       \* column mappings a user may submit
  RowCount,       \* rows of the file
  EmailAt,        \* [Mappings -> [Rows -> address]], BadEmail for one that does not parse
  TagAt,          \* [Mappings -> [Rows -> tag]]
  BadEmail,
  NoMapping,
  KnownContacts,  \* addresses that are contacts before the import
  KnownTags,      \* tags that exist before it
  MaxTries,       \* jobs.max_attempts; bounds the claims too, which the code does not
  MaxValidations  \* bound on validate requests

ASSUME ImportAssumption ==
  /\ RowCount \in Nat \ {0} /\ MaxTries \in Nat \ {0} /\ MaxValidations \in Nat
  /\ NoMapping \notin Mappings

Rows == 1 .. RowCount
ImportAddresses == UNION {{EmailAt[m][i] : i \in Rows} : m \in Mappings}
Tags == KnownTags \cup UNION {{TagAt[m][i] : i \in Rows} : m \in Mappings}
Outcomes == {"CREATED", "UPDATED", "SKIPPED", "INVALID"}
NoCounts == [o \in Outcomes |-> 0]

VARIABLES
  item,      \* the contact_imports row
  itemJob,   \* the IMPORT_CONTACTS job: status, attempts, holder of the lock
  rowsDone,  \* contact_import_rows: outcome and stored address per row number
  people,    \* contacts
  tagRows,   \* tags
  execution, \* each worker's processContactImport
  validated, \* validate requests made
  applied,   \* history: rows whose contact was upserted, per address
  unasked,   \* history: tags created that no apply confirmed
  remapped   \* history: a validation was saved while the job could still run

importVars == <<item, itemJob, rowsDone, people, tagRows, execution, validated, applied, unasked, remapped>>

NoRowYet == [outcome |-> "NONE", email |-> BadEmail]
Idle == [pc |-> "idle", map |-> NoMapping, at |-> 0, done |-> {}, seen |-> {}, cache |-> {},
         counts |-> NoCounts]

ImportTypeOK ==
  /\ item \in [status : {"UPLOADED", "READY", "PROCESSING", "COMPLETED", "FAILED"},
               map : Mappings \cup {NoMapping}, unknown : SUBSET Tags, confirmed : BOOLEAN,
               counts : [Outcomes -> 0 .. RowCount]]
  /\ itemJob \in [status : {"NONE", "PENDING", "PROCESSING", "COMPLETED", "FAILED"},
                  attempts : 0 .. MaxTries, holder : ImportWorkers \cup {NoMapping}]
  /\ rowsDone \in [Rows -> [outcome : Outcomes \cup {"NONE"}, email : ImportAddresses \cup {BadEmail}]]
  /\ people \subseteq ImportAddresses \cup KnownContacts /\ tagRows \subseteq Tags /\ unasked \subseteq Tags
  /\ \A w \in ImportWorkers :
       /\ execution[w].pc \in {"idle", "rows", "failing", "completing", "failed"}
       /\ execution[w].at \in 0 .. RowCount /\ execution[w].done \subseteq Rows
       /\ execution[w].seen \subseteq ImportAddresses /\ execution[w].cache \subseteq Tags
  /\ validated \in 0 .. MaxValidations /\ applied \in [ImportAddresses -> SUBSET Rows] /\ remapped \in BOOLEAN

ImportInit ==
  /\ item = [status |-> "UPLOADED", map |-> NoMapping, unknown |-> {}, confirmed |-> FALSE,
             counts |-> NoCounts]
  /\ itemJob = [status |-> "NONE", attempts |-> 0, holder |-> NoMapping]
  /\ rowsDone = [i \in Rows |-> NoRowYet]
  /\ people = KnownContacts /\ tagRows = KnownTags
  /\ execution = [w \in ImportWorkers |-> Idle]
  /\ validated = 0 /\ applied = [e \in ImportAddresses |-> {}] /\ unasked = {} /\ remapped = FALSE

Tally == [o \in Outcomes |-> Cardinality({i \in Rows : rowsDone[i].outcome = o})]
Running == {w \in ImportWorkers : execution[w].pc # "idle"}

-----------------------------------------------------------------------------
(* Requests. *)

\* Bad rows and repeated addresses as validateContactImport counts them.
InvalidUnder(m) == {i \in Rows : EmailAt[m][i] = BadEmail}
RepeatedUnder(m) == {i \in Rows \ InvalidUnder(m) : \E j \in 1 .. i - 1 : EmailAt[m][j] = EmailAt[m][i]}

\* The last statement writes READY over whatever status the import has; the
\* job that is pending or running is left as it is.
Validate(m) ==
  /\ validated < MaxValidations
  /\ validated' = validated + 1
  /\ item' = [item EXCEPT !.status = "READY", !.map = m, !.confirmed = FALSE,
                          !.unknown = {TagAt[m][i] : i \in Rows} \ tagRows,
                          !.counts["INVALID"] = Cardinality(InvalidUnder(m)),
                          !.counts["SKIPPED"] = Cardinality(RepeatedUnder(m))]
  /\ remapped' = (remapped \/ itemJob.status \in {"PENDING", "PROCESSING"} \/ Running # {})
  /\ UNCHANGED <<itemJob, rowsDone, people, tagRows, execution, applied, unasked>>

\* queueContactImport, with confirmedImportMapping; nothing happens while
\* the import is PROCESSING.
Apply(confirm) ==
  /\ item.status \in {"READY", "FAILED"}
  /\ item.unknown = {} \/ confirm
  /\ item' = [item EXCEPT !.status = "PROCESSING", !.confirmed = confirm]
  /\ itemJob' = [status |-> "PENDING", attempts |-> 0, holder |-> NoMapping]
  /\ UNCHANGED <<rowsDone, people, tagRows, execution, validated, applied, unasked, remapped>>

\* createContact and the other imports.
ContactAppears(e) ==
  /\ e \notin people /\ e # BadEmail
  /\ people' = people \cup {e}
  /\ UNCHANGED <<item, itemJob, rowsDone, tagRows, execution, validated, applied, unasked, remapped>>

-----------------------------------------------------------------------------
(* The job. *)

\* processContactImport reads the import, then the rows already there.
Claim(w) ==
  /\ execution[w].pc = "idle" /\ itemJob.status = "PENDING" /\ itemJob.attempts < MaxTries
  /\ itemJob' = [status |-> "PROCESSING", attempts |-> itemJob.attempts + 1, holder |-> w]
  /\ execution' = [execution EXCEPT ![w] =
       [Idle EXCEPT !.pc = "rows", !.map = item.map,
                    !.done = {i \in Rows : rowsDone[i].outcome # "NONE"}]]
  /\ UNCHANGED <<item, rowsDone, people, tagRows, validated, applied, unasked, remapped>>

\* The lock expires: under a live worker, or because its process died.
LoseJob(w) ==
  /\ itemJob.status = "PROCESSING" /\ itemJob.holder = w /\ itemJob.attempts < MaxTries
  /\ itemJob' = [itemJob EXCEPT !.status = "PENDING", !.holder = NoMapping]
  /\ UNCHANGED <<item, rowsDone, people, tagRows, execution, validated, applied, unasked, remapped>>
CrashImport(w) ==
  /\ execution[w].pc # "idle"
  /\ execution' = [execution EXCEPT ![w] = Idle]
  /\ itemJob' = IF itemJob.holder # w THEN itemJob
                ELSE [itemJob EXCEPT !.status = "PENDING", !.holder = NoMapping]
  /\ UNCHANGED <<item, rowsDone, people, tagRows, validated, applied, unasked, remapped>>

At(w) == execution[w].at + 1
Reading(w) == execution[w].pc = "rows" /\ execution[w].at < RowCount
EmailOf(w) == EmailAt[execution[w].map][At(w)]
TagOf(w) == TagAt[execution[w].map][At(w)]
Advance(w, seen, cache) ==
  execution' = [execution EXCEPT ![w].at = @ + 1, ![w].seen = seen, ![w].cache = cache]
Throws(w) == execution' = [execution EXCEPT ![w] = [Idle EXCEPT !.pc = "failing"]]

\* A row the import already has keeps its outcome; its address counts as seen.
PassRowForgetting(w) ==
  /\ Reading(w) /\ At(w) \in execution[w].done
  /\ Advance(w, execution[w].seen, execution[w].cache)
  /\ UNCHANGED <<item, itemJob, rowsDone, people, tagRows, validated, applied, unasked, remapped>>
PassRow(w) ==
  /\ Reading(w) /\ At(w) \in execution[w].done
  /\ Advance(w, execution[w].seen \cup ({rowsDone[At(w)].email} \ {BadEmail}), execution[w].cache)
  /\ UNCHANGED <<item, itemJob, rowsDone, people, tagRows, validated, applied, unasked, remapped>>

\* A plain INSERT: a second execution that is late meets the unique index on
\* (import, row number) and throws.
RejectRow(w, outcome) ==
  /\ Reading(w) /\ At(w) \notin execution[w].done
  /\ outcome = IF EmailOf(w) = BadEmail THEN "INVALID" ELSE "SKIPPED"
  /\ EmailOf(w) \in execution[w].seen \cup {BadEmail}
  /\ IF rowsDone[At(w)].outcome = "NONE"
     THEN /\ rowsDone' = [rowsDone EXCEPT ![At(w)] = [outcome |-> outcome, email |-> EmailOf(w)]]
          /\ Advance(w, execution[w].seen, execution[w].cache)
     ELSE Throws(w) /\ UNCHANGED rowsDone
  /\ UNCHANGED <<item, itemJob, people, tagRows, validated, applied, unasked, remapped>>

FreshRow(w) ==
  /\ Reading(w) /\ At(w) \notin execution[w].done
  /\ EmailOf(w) \notin execution[w].seen \cup {BadEmail}
\* The row's transaction: tags, contact, links and the row's outcome.
UpsertRow(w) ==
  /\ FreshRow(w) /\ rowsDone[At(w)].outcome = "NONE"
  /\ tagRows' = IF TagOf(w) \in execution[w].cache THEN tagRows ELSE tagRows \cup {TagOf(w)}
  /\ unasked' = IF item.confirmed THEN unasked ELSE unasked \cup (tagRows' \ tagRows)
  /\ people' = people \cup {EmailOf(w)}
  /\ rowsDone' = [rowsDone EXCEPT ![At(w)] =
       [outcome |-> IF EmailOf(w) \in people THEN "UPDATED" ELSE "CREATED", email |-> EmailOf(w)]]
  /\ applied' = [applied EXCEPT ![EmailOf(w)] = @ \cup {At(w)}]
  /\ Advance(w, execution[w].seen \cup {EmailOf(w)}, execution[w].cache \cup {TagOf(w)})
  /\ UNCHANGED <<item, itemJob, validated, remapped>>
FindRowDone(w) ==
  /\ FreshRow(w) /\ rowsDone[At(w)].outcome # "NONE"
  /\ Advance(w, execution[w].seen \cup {EmailOf(w)}, execution[w].cache)
  /\ UNCHANGED <<item, itemJob, rowsDone, people, tagRows, validated, applied, unasked, remapped>>
\* A rollback takes the transaction's copy of the cache with it; inTransaction
\* tries again.  The row's address stays in "seen" if the last try throws.
RollBack(w) ==
  /\ FreshRow(w)
  /\ Throws(w)
  /\ UNCHANGED <<item, itemJob, rowsDone, people, tagRows, validated, applied, unasked, remapped>>
\* Storage or the parser throws between rows.
FileError(w) ==
  /\ execution[w].pc = "rows"
  /\ Throws(w)
  /\ UNCHANGED <<item, itemJob, rowsDone, people, tagRows, validated, applied, unasked, remapped>>

\* importCounts is read before, and apart from, the transaction that saves it.
CountRows(w) ==
  /\ execution[w].pc = "rows" /\ execution[w].at = RowCount
  /\ execution' = [execution EXCEPT ![w] = [Idle EXCEPT !.pc = "completing", !.counts = Tally]]
  /\ UNCHANGED <<item, itemJob, rowsDone, people, tagRows, validated, applied, unasked, remapped>>
CountFailure(w) ==
  /\ execution[w].pc = "failing"
  /\ execution' = [execution EXCEPT ![w] = [Idle EXCEPT !.pc = "failed", !.counts = Tally]]
  /\ UNCHANGED <<item, itemJob, rowsDone, people, tagRows, validated, applied, unasked, remapped>>
Complete(w) ==
  /\ execution[w].pc = "completing"
  /\ item' = [item EXCEPT !.status = "COMPLETED", !.counts = execution[w].counts]
  /\ itemJob' = IF itemJob.holder # w THEN itemJob
                ELSE [itemJob EXCEPT !.status = "COMPLETED", !.holder = NoMapping]
  /\ execution' = [execution EXCEPT ![w] = Idle]
  /\ UNCHANGED <<rowsDone, people, tagRows, validated, applied, unasked, remapped>>
\* The catch block saves FAILED and rethrows: the job is tried again.
Fail(w) ==
  /\ execution[w].pc = "failed"
  /\ item' = [item EXCEPT !.status = "FAILED", !.counts = execution[w].counts]
  /\ itemJob' = IF itemJob.holder # w THEN itemJob
                ELSE [itemJob EXCEPT !.holder = NoMapping,
                        !.status = IF itemJob.attempts < MaxTries THEN "PENDING" ELSE "FAILED"]
  /\ execution' = [execution EXCEPT ![w] = Idle]
  /\ UNCHANGED <<rowsDone, people, tagRows, validated, applied, unasked, remapped>>

ImportNext ==
  \/ \E m \in Mappings : Validate(m)
  \/ \E confirm \in BOOLEAN : Apply(confirm)
  \/ \E e \in ImportAddresses : ContactAppears(e)
  \/ \E w \in ImportWorkers :
       \/ Claim(w) \/ LoseJob(w) \/ CrashImport(w)
       \/ PassRow(w) \/ RejectRow(w, "INVALID") \/ RejectRow(w, "SKIPPED")
       \/ UpsertRow(w) \/ FindRowDone(w) \/ RollBack(w) \/ FileError(w)
       \/ CountRows(w) \/ CountFailure(w) \/ Complete(w) \/ Fail(w)
ImportSpec == ImportInit /\ [][ImportNext]_importVars

-----------------------------------------------------------------------------
\* Crashes, retries, a second execution under a lost lock and a different
\* mapping between two attempts leave one contact upsert per address of the
\* file; a COMPLETED import has an outcome for every row and its counts are
\* their tally; a tag a row is linked to exists; and no unknown tag was
\* created without the confirmation (API.md:32).  A validation saved while
\* the job is pending (a failed attempt is retried) or running breaks this
\* and is set apart.
ImportAccounted ==
  ~remapped =>
    /\ \A e \in ImportAddresses : Cardinality(applied[e]) <= 1
    /\ item.status = "COMPLETED" => item.counts = Tally /\ \A i \in Rows : rowsDone[i].outcome # "NONE"
    /\ unasked = {}
    /\ \A w \in ImportWorkers : execution[w].cache \subseteq tagRows
=============================================================================
