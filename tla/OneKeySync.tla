------------------------------ MODULE OneKeySync ------------------------------
(***************************************************************************)
(* The local OneKey index and the cursor of its replication                *)
(* (modules/onekey/service.ts, integrations/onekey/BboOneKeyProvider.ts):  *)
(* the delta sync replays the provider's event log page by page, the       *)
(* initial sync pages through the whole feed, and a search or an import    *)
(* fetches single listings between them.  A listing's content is its       *)
(* version: the number of events the provider has published about it.      *)
(***************************************************************************)
EXTENDS Naturals, Sequences, FiniteSets, FiniteSetsExt, SequencesExt

CONSTANTS
  Listings,    \* source keys
  Syncers,     \* job executions, two when a sync is requested again while it runs
  PageSize,    \* config.oneKeySyncPageSize
  MaxPages,    \* pages one execution reads at most, 100 in the code
  MaxPublished \* bound on the provider's log

ASSUME SyncAssumption ==
  PageSize \in Nat \ {0} /\ MaxPages \in Nat \ {0} /\ MaxPublished \in Nat

VARIABLES
  feed,     \* external: the provider's event log, oldest first
  index,    \* onekey_listing_index: version cached, 0 when absent
  cursor,   \* external_sync_cursors.cursor
  syncing,  \* each execution: its position, the pages it asked for, and the listings fetched
            \* and not cached yet
  fetch,    \* what an on-demand request has fetched and not cached yet
  skewed    \* history: the index was written in another order than fetched, the feed moved
            \* under an initial sync, or the page cap cut one short

syncVars == <<feed, index, cursor, syncing, fetch, skewed>>

AtRest == [pc |-> "idle", keys |-> <<>>, next |-> 0, pages |-> 0, more |-> FALSE, got |-> {}]
Version(k, n) == Cardinality({i \in 1 .. n : feed[i] = k})
Current(k) == Version(k, Len(feed))
Fetched(k) == [key |-> k, version |-> Current(k)]
Published == Range(feed)

SyncTypeOK ==
  /\ feed \in Seq(Listings) /\ Len(feed) <= MaxPublished
  /\ index \in [Listings -> 0 .. MaxPublished]
  /\ cursor \in 0 .. MaxPublished /\ skewed \in BOOLEAN
  /\ fetch \subseteq [key : Listings, version : 0 .. MaxPublished]
  /\ \A s \in Syncers :
       /\ syncing[s].pc \in {"idle", "page", "delta", "initial"}
       /\ syncing[s].keys \in Seq(Listings) /\ syncing[s].next \in 0 .. MaxPublished
       /\ syncing[s].pages \in 0 .. MaxPages
       /\ syncing[s].got \subseteq [key : Listings, version : 0 .. MaxPublished]

SyncInit ==
  /\ feed = <<>> /\ index = [k \in Listings |-> 0] /\ cursor = 0
  /\ syncing = [s \in Syncers |-> AtRest] /\ fetch = {} /\ skewed = FALSE

Publish(k) ==
  /\ Len(feed) < MaxPublished
  /\ feed' = Append(feed, k)
  /\ skewed' = (skewed \/ \E s \in Syncers : syncing[s].pc = "initial")
  /\ UNCHANGED <<index, cursor, syncing, fetch>>

\* cacheOneKeyListing: an upsert that compares no timestamps.
Cache(got) ==
  /\ index' = [k \in Listings |-> IF \E g \in got : g.key = k
                                 THEN (CHOOSE g \in got : g.key = k).version ELSE index[k]]
  /\ skewed' = (skewed \/ \E g \in got : g.version < index[g.key])

-----------------------------------------------------------------------------
(* Delta sync. *)

\* changes(cursor): the distinct keys of one page of events.
DeltaFrom(from, pages) ==
  LET last == Max({from, Min({from + PageSize, Len(feed)})})
  IN [AtRest EXCEPT !.pc = "delta", !.next = last, !.pages = pages, !.more = last < Len(feed),
                     !.keys = SetToSeq({feed[i] : i \in from + 1 .. last})]

StartDelta(s) ==
  /\ syncing[s].pc = "idle"
  /\ syncing' = [syncing EXCEPT ![s] = [AtRest EXCEPT !.pc = "page", !.next = cursor]]
  /\ UNCHANGED <<feed, index, cursor, fetch, skewed>>
AskChanges(s) ==
  /\ syncing[s].pc = "page"
  /\ syncing' = [syncing EXCEPT ![s] = DeltaFrom(syncing[s].next, syncing[s].pages + 1)]
  /\ UNCHANGED <<feed, index, cursor, fetch, skewed>>

FetchNext(s) ==
  /\ syncing[s].pc = "delta" /\ syncing[s].keys # <<>> /\ syncing[s].got = {}
  /\ syncing' = [syncing EXCEPT ![s].got = {Fetched(Head(syncing[s].keys))}]
  /\ UNCHANGED <<feed, index, cursor, fetch, skewed>>
CacheNext(s) ==
  /\ syncing[s].pc = "delta" /\ syncing[s].got # {}
  /\ Cache(syncing[s].got)
  /\ syncing' = [syncing EXCEPT ![s].keys = Tail(@), ![s].got = {}]
  /\ UNCHANGED <<feed, cursor, fetch>>

\* The cursor moves when its page is in the index; the next page follows, up to
\* the cap: what is left waits for the next job.
TurnPage(x) ==
  IF x.more /\ x.pages < MaxPages
  THEN [AtRest EXCEPT !.pc = "page", !.next = x.next, !.pages = x.pages] ELSE AtRest
SaveCursorSkipping(s) ==
  /\ syncing[s].pc = "delta"
  /\ cursor' = syncing[s].next
  /\ syncing' = [syncing EXCEPT ![s] = TurnPage(@)]
  /\ UNCHANGED <<feed, index, fetch, skewed>>
SaveCursor(s) ==
  /\ syncing[s].pc = "delta" /\ syncing[s].keys = <<>>
  /\ cursor' = syncing[s].next
  /\ syncing' = [syncing EXCEPT ![s] = TurnPage(@)]
  /\ UNCHANGED <<feed, index, fetch, skewed>>

\* A provider or database error, or the process dies: the page is replayed
\* from the cursor by the next attempt.
StopSync(s) ==
  /\ syncing[s].pc # "idle"
  /\ syncing' = [syncing EXCEPT ![s] = AtRest]
  /\ UNCHANGED <<feed, index, cursor, fetch, skewed>>

-----------------------------------------------------------------------------
(* Initial sync: search("", limit, offset), newest first. *)

LastEvent(k) == Max({i \in DOMAIN feed : feed[i] = k})
NewerThan(k) == {j \in Published : LastEvent(j) > LastEvent(k)}
SearchPage(offset) ==
  {k \in Published : Cardinality(NewerThan(k)) \in offset .. offset + PageSize - 1}

StartInitial(s) ==
  /\ syncing[s].pc = "idle"
  /\ syncing' = [syncing EXCEPT ![s] = [AtRest EXCEPT !.pc = "initial", !.more = TRUE]]
  /\ UNCHANGED <<feed, index, cursor, fetch, skewed>>
\* "next" is the offset; the page's listings are cached together.
FetchPage(s) ==
  LET page == SearchPage(syncing[s].next) IN
  /\ syncing[s].pc = "initial" /\ syncing[s].got = {}
  /\ syncing[s].more /\ syncing[s].pages < MaxPages
  /\ syncing' = [syncing EXCEPT ![s].next = @ + Cardinality(page), ![s].pages = @ + 1,
                                ![s].got = {Fetched(k) : k \in page},
                                ![s].more = Cardinality(page) = PageSize]
  /\ UNCHANGED <<feed, index, cursor, fetch, skewed>>
CachePage(s) ==
  /\ syncing[s].pc = "initial" /\ syncing[s].got # {}
  /\ Cache(syncing[s].got)
  /\ syncing' = [syncing EXCEPT ![s].got = {}]
  /\ UNCHANGED <<feed, cursor, fetch>>
\* After a short page, or at the cap with pages still to read, the cursor
\* becomes the number of records read; the delta sync will hand it to the
\* provider as a position in the event log.
FinishInitial(s) ==
  /\ syncing[s].pc = "initial" /\ syncing[s].got = {}
  /\ syncing[s].more => syncing[s].pages = MaxPages
  /\ cursor' = syncing[s].next
  /\ skewed' = (skewed \/ syncing[s].more)
  /\ syncing' = [syncing EXCEPT ![s] = AtRest]
  /\ UNCHANGED <<feed, index, fetch>>

-----------------------------------------------------------------------------
(* searchOneKeyListings when nothing matches locally, loadOneKeyListing when *)
(* an import or a refresh asks for the provider's listing.                   *)

FetchOnDemand(k) ==
  /\ fetch = {} /\ k \in Published
  /\ fetch' = {Fetched(k)}
  /\ UNCHANGED <<feed, index, cursor, syncing, skewed>>
CacheOnDemand ==
  /\ fetch # {}
  /\ Cache(fetch)
  /\ fetch' = {}
  /\ UNCHANGED <<feed, cursor, syncing>>

SyncNext ==
  \/ \E k \in Listings : Publish(k) \/ FetchOnDemand(k)
  \/ CacheOnDemand
  \/ \E s \in Syncers : StartDelta(s) \/ AskChanges(s) \/ FetchNext(s) \/ CacheNext(s) \/ SaveCursor(s)
                        \/ StopSync(s) \/ StartInitial(s) \/ FetchPage(s) \/ CachePage(s)
                        \/ FinishInitial(s)
SyncSpec == SyncInit /\ [][SyncNext]_syncVars

-----------------------------------------------------------------------------
\* Every event before the cursor is in the index, at that version or a newer
\* one: a delta sync that stops anywhere, or at the page cap, and a second one
\* beside it lose no change, and neither does an initial sync that reads the
\* feed to its end, although it sets the cursor to a count of records.  Three
\* interleavings are set apart because there the code does lose listings: a
\* late write over a newer one (the upsert compares nothing), an event that
\* moves a listing to the front while an initial sync pages by offset, and an
\* initial sync cut short by the cap, which saves its cursor all the same.
SyncLosesNothing ==
  ~skewed => \A i \in 1 .. cursor : index[feed[i]] >= Version(feed[i], i)
=============================================================================
