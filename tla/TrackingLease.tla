---------------------------- MODULE TrackingLease ----------------------------
(***************************************************************************)
(* observeDomainTracking (modules/tracking/service.ts): calls in several   *)
(* processes keep one row per sending domain in step with the provider's   *)
(* tracking settings.  A call takes a lease on the row, reads the settings *)
(* over the network and commits them if the lease is still its own.  A     *)
(* call may stall between any two awaits, fail, or die with its process.   *)
(***************************************************************************)
EXTENDS Integers

CONSTANTS
  Calls,        \* concurrent calls of observeDomainTracking
  Settings,     \* what the provider may answer
  Unverified,   \* of these, flags whose tracking domain is not verified
  None,         \* nothing observed yet; also: an unknown answer
  LEASE,        \* REFRESH_LEASE_MS
  TTL,          \* TRACKING_CONFIG_TTL_MS
  ErrorTTL,     \* how long a failure is remembered: one minute
  MaxClock, MaxTakes, MaxChanges

ASSUME TrackingAssumption ==
  /\ None \notin Settings /\ Unverified \subseteq Settings
  /\ LEASE \in Nat \ {0} /\ TTL \in Nat \ {0} /\ ErrorTTL \in Nat
  /\ MaxClock \in Nat \ {0} /\ MaxTakes \in Nat /\ MaxChanges \in Nat

VARIABLES
  clock,       \* from 1; 0 stands for NULL in a column
  config,      \* the provider's settings of the domain
  changes,     \* how often they were changed
  takes,       \* how often the lease was taken; a token is the number of its taking
  row,         \* provider_domain_tracking
  author,      \* history: the token of the call that wrote the row's outcome last
  rowReadAt,   \* history: when the provider had the settings in the row
  pc, now, force, seen, token, observed, readAt, checkedAt,  \* locals of each call
  answer       \* what the last step answered, and how old the settings in it were

local == <<pc, now, force, seen, token, observed, readAt, checkedAt>>
vars == <<clock, config, changes, takes, row, author, rowReadAt, local, answer>>

Instants == 0 .. MaxClock
Tokens == 0 .. MaxTakes
Row == [settings : Settings \cup {None}, revision : Nat, checkedAt : Instants,
        lastAttemptAt : Instants, lastError : BOOLEAN,
        refreshToken : Tokens, refreshLeaseUntil : 0 .. MaxClock + LEASE]

TypeOK ==
  /\ clock \in Instants \ {0} /\ config \in Settings
  /\ changes \in 0 .. MaxChanges /\ takes \in Tokens
  /\ row \in Row /\ (row.refreshToken = 0 <=> row.refreshLeaseUntil = 0)
  /\ author \in Tokens /\ rowReadAt \in Instants
  /\ pc \in [Calls -> {"idle", "started", "loaded", "reading", "read", "checked",
                       "failed", "failing", "reread", "answering"}]
  /\ now \in [Calls -> Instants] /\ force \in [Calls -> BOOLEAN]
  /\ seen \in [Calls -> Row] /\ token \in [Calls -> Tokens]
  /\ observed \in [Calls -> Settings \cup {None}]
  /\ readAt \in [Calls -> Instants] /\ checkedAt \in [Calls -> Instants]
  /\ answer \in [settings : Settings \cup {None}, age : Int]

NoRow == [settings |-> None, revision |-> 1, checkedAt |-> 0, lastAttemptAt |-> 0,
          lastError |-> FALSE, refreshToken |-> 0, refreshLeaseUntil |-> 0]
Unknown == [settings |-> None, age |-> 0]

Init ==
  /\ clock = 1 /\ config \in Settings /\ changes = 0 /\ takes = 0
  /\ row = NoRow /\ author = 0 /\ rowReadAt = 0
  /\ pc = [c \in Calls |-> "idle"] /\ now = [c \in Calls |-> 0]
  /\ force = [c \in Calls |-> FALSE] /\ seen = [c \in Calls |-> NoRow]
  /\ token = [c \in Calls |-> 0] /\ observed = [c \in Calls |-> None]
  /\ readAt = [c \in Calls |-> 0] /\ checkedAt = [c \in Calls |-> 0]
  /\ answer = Unknown

-----------------------------------------------------------------------------
\* trackingSnapshotFromObservation: settings are known only while fresh.
Fresh(observation, instant) ==
  /\ observation.checkedAt # 0 /\ ~observation.lastError
  /\ instant - observation.checkedAt < TTL /\ observation.checkedAt <= instant

trackingSnapshotFromObservation(observation, readTime, instant) ==
  IF Fresh(observation, instant) /\ observation.settings \in Settings \ Unverified
  THEN [settings |-> observation.settings, age |-> instant - readTime] ELSE Unknown

\* A call that is over keeps nothing.
Return(c, a) ==
  /\ answer' = a
  /\ pc' = [pc EXCEPT ![c] = "idle"] /\ now' = [now EXCEPT ![c] = 0]
  /\ force' = [force EXCEPT ![c] = FALSE] /\ seen' = [seen EXCEPT ![c] = NoRow]
  /\ token' = [token EXCEPT ![c] = 0] /\ observed' = [observed EXCEPT ![c] = None]
  /\ readAt' = [readAt EXCEPT ![c] = 0] /\ checkedAt' = [checkedAt EXCEPT ![c] = 0]

Silent == answer' = Unknown
Goto(c, step) == pc' = [pc EXCEPT ![c] = step]
Outside == <<clock, config, changes>>
Stored == <<takes, row, author, rowReadAt>>

-----------------------------------------------------------------------------
Start(c, forced) ==
  /\ pc[c] = "idle"
  /\ Goto(c, "started") /\ now' = [now EXCEPT ![c] = clock] /\ force' = [force EXCEPT ![c] = forced]
  /\ UNCHANGED <<Outside, Stored, seen, token, observed, readAt, checkedAt>> /\ Silent

\* The upsert loads the row, or creates it as NoRow has it.
Leased(c) == row.refreshLeaseUntil > now[c]
RetryAfter(c) == now[c] - (IF row.lastError THEN ErrorTTL ELSE TTL)
Cached(c) ==
  ~force[c] /\ row.refreshToken = 0 /\ row.lastAttemptAt # 0 /\ row.lastAttemptAt > RetryAfter(c)

AnswerBusy(c) ==
  /\ pc[c] = "started" /\ Leased(c)
  /\ Return(c, Unknown) /\ UNCHANGED <<Outside, Stored>>

AnswerCached(c) ==
  /\ pc[c] = "started" /\ ~Leased(c) /\ Cached(c)
  /\ Return(c, trackingSnapshotFromObservation(row, rowReadAt, now[c]))
  /\ UNCHANGED <<Outside, Stored>>

Load(c) ==
  /\ pc[c] = "started" /\ ~Leased(c) /\ ~Cached(c)
  /\ Goto(c, "loaded") /\ seen' = [seen EXCEPT ![c] = row] /\ force' = [force EXCEPT ![c] = FALSE]
  /\ UNCHANGED <<Outside, Stored, now, token, observed, readAt, checkedAt>> /\ Silent

\* The claim: nobody attempted since the load, nobody holds the lease.
TakeableByAttempt(c) == row.lastAttemptAt = seen[c].lastAttemptAt
Takeable(c) ==
  /\ row.lastAttemptAt = seen[c].lastAttemptAt
  /\ row.refreshLeaseUntil <= now[c]

Take(c) ==
  /\ pc[c] = "loaded" /\ Takeable(c) /\ takes < MaxTakes
  /\ takes' = takes + 1 /\ token' = [token EXCEPT ![c] = takes + 1]
  /\ row' = [row EXCEPT !.lastAttemptAt = now[c], !.refreshToken = takes + 1,
                        !.refreshLeaseUntil = now[c] + LEASE]
  /\ Goto(c, "reading")
  /\ UNCHANGED <<Outside, author, rowReadAt, now, force, seen, observed, readAt, checkedAt>> /\ Silent

TakeLost(c) ==
  /\ pc[c] = "loaded" /\ ~Takeable(c)
  /\ Return(c, Unknown) /\ UNCHANGED <<Outside, Stored>>

Read(c) ==
  /\ pc[c] = "reading"
  /\ Goto(c, "read")
  /\ observed' = [observed EXCEPT ![c] = config] /\ readAt' = [readAt EXCEPT ![c] = clock]
  /\ UNCHANGED <<Outside, Stored, now, force, seen, token, checkedAt>> /\ Silent

\* The instant compared, taken once before the transaction, and once in the catch block.
Check(c) ==
  /\ pc[c] \in {"read", "failed"}
  /\ Goto(c, IF pc[c] = "read" THEN "checked" ELSE "failing")
  /\ checkedAt' = [checkedAt EXCEPT ![c] = clock]
  /\ UNCHANGED <<Outside, Stored, now, force, seen, token, observed, readAt>> /\ Silent

StillLeasedByTime(c) == row.refreshLeaseUntil > checkedAt[c]
StillLeasedByToken(c) == row.refreshToken = token[c]
StillLeased(c) == row.refreshToken = token[c] /\ row.refreshLeaseUntil > checkedAt[c]

FreedHalf(r) == [r EXCEPT !.refreshLeaseUntil = 0]
Freed(r) == [r EXCEPT !.refreshToken = 0, !.refreshLeaseUntil = 0]

\* The sender profiles mirrored in the same transaction follow the row's settings.
\* changed is decided against the copy the call loaded, not against the row.
Commit(c) ==
  /\ pc[c] = "checked" /\ StillLeased(c)
  /\ row' = [Freed(row) EXCEPT !.settings = observed[c], !.checkedAt = checkedAt[c],
                               !.lastError = FALSE,
                               !.revision = IF seen[c].settings # observed[c] THEN @ + 1 ELSE @]
  /\ author' = token[c] /\ rowReadAt' = readAt[c]
  /\ Goto(c, "answering") /\ seen' = [seen EXCEPT ![c] = row']
  /\ UNCHANGED <<Outside, takes, now, force, token, observed, readAt, checkedAt>> /\ Silent

\* The provider's answer or the transaction failed.
Throw(c) ==
  /\ pc[c] \in {"reading", "checked"}
  /\ Goto(c, "failed")
  /\ UNCHANGED <<Outside, Stored, now, force, seen, token, observed, readAt, checkedAt>> /\ Silent

RecordFailure(c) ==
  /\ pc[c] = "failing" /\ StillLeased(c)
  /\ row' = [Freed(row) EXCEPT !.lastError = TRUE]
  /\ author' = token[c]
  /\ Goto(c, "reread")
  /\ UNCHANGED <<Outside, takes, rowReadAt, now, force, seen, token, observed, readAt, checkedAt>> /\ Silent

Lost(c) ==
  /\ pc[c] \in {"checked", "failing"} /\ ~StillLeased(c)
  /\ Return(c, Unknown) /\ UNCHANGED <<Outside, Stored>>

\* After a failure the row is read again, as it is by then.
Reread(c) ==
  /\ pc[c] = "reread"
  /\ Goto(c, "answering")
  /\ seen' = [seen EXCEPT ![c] = row] /\ readAt' = [readAt EXCEPT ![c] = rowReadAt]
  /\ UNCHANGED <<Outside, Stored, now, force, token, observed, checkedAt>> /\ Silent

AnswerFresh(c) ==
  /\ pc[c] = "answering"
  /\ Return(c, trackingSnapshotFromObservation(seen[c], readAt[c], clock))
  /\ UNCHANGED <<Outside, Stored>>

\* The process dies, or a statement outside the try block throws.
Vanish(c) ==
  /\ pc[c] # "idle"
  /\ Return(c, Unknown) /\ UNCHANGED <<Outside, Stored>>

-----------------------------------------------------------------------------
Tick ==
  /\ clock < MaxClock /\ clock' = clock + 1
  /\ UNCHANGED <<config, changes, Stored, local>> /\ Silent

\* The operator changes the domain at the provider.
Reconfigure(s) ==
  /\ changes < MaxChanges /\ changes' = changes + 1
  /\ s # config /\ config' = s
  /\ UNCHANGED <<clock, Stored, local>> /\ Silent

Next ==
  \/ Tick
  \/ \E s \in Settings : Reconfigure(s)
  \/ \E c \in Calls :
       \/ \E forced \in BOOLEAN : Start(c, forced)
       \/ AnswerBusy(c) \/ AnswerCached(c) \/ Load(c)
       \/ Take(c) \/ TakeLost(c)
       \/ Read(c) \/ Check(c) \/ Throw(c)
       \/ Commit(c) \/ RecordFailure(c) \/ Lost(c)
       \/ Reread(c) \/ AnswerFresh(c)
       \/ Vanish(c)

Spec == Init /\ [][Next]_vars

-----------------------------------------------------------------------------
Refreshing == {"reading", "read", "checked", "failed", "failing"}
LeaseRuns(c) == pc[c] \in Refreshing /\ now[c] + LEASE > clock

\* "A forced request bypasses cached observations, never another request's
\* lease": while the lease of a call runs no other call is at the provider
\* with a running lease, forced or not, however long either has stalled.
NoOverlap == \A c, d \in Calls : LeaseRuns(c) /\ LeaseRuns(d) => c = d

\* "A token fences late completions": once a call has written its outcome,
\* settings or error, no call that took the lease before it writes any more.
LateOwnerFenced == [][author' >= author]_vars

\* The lease is the fenced lease it is meant to be: nobody is given it while
\* it runs, every outcome, settings or error, is written under the newest
\* token, once, and an outcome and the end of the lease are one step.
Fenced == INSTANCE FencedLease WITH
  Term <- LEASE, time <- clock, granted <- takes, current <- row.refreshToken,
  until <- row.refreshLeaseUntil, written <- author
ImplementsFencedLease == Fenced!Spec

\* "Failed or stale reads produce unknown coverage": settings reported as
\* known were the provider's at most one cache period and one lease ago,
\* although every instant the call compares was taken some steps earlier.
KnownIsRecent == answer.settings # None => answer.age >= 0 /\ answer.age < TTL + LEASE
=============================================================================
