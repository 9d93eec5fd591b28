----------------------------- MODULE ContactPaging -----------------------------
(***************************************************************************)
(* Reading the contacts page by page (modules/contacts/service.ts): the    *)
(* list, whose cursor is the last contact of the page before, and the      *)
(* export, which counts rows with OFFSET.  Every page is a query of its    *)
(* own; between two of them contacts are created, archived, restored and   *)
(* mailed.                                                                 *)
(*                                                                         *)
(* Contacts are numbered in the order of their ids, instants start at 1,   *)
(* and 0 is null.                                                          *)
(***************************************************************************)
EXTENDS Naturals, FiniteSets

CONSTANTS
  ContactCount,      \* contacts there can be
  ContactsAtFirst,   \* contacts there are
  ListLimit,         \* rows of a page: limit of the list, 500 of the export
  MaxContactChanges  \* bound on what happens meanwhile

ASSUME PagingAssumption ==
  /\ ContactCount \in Nat \ {0} /\ ContactsAtFirst \in 0 .. ContactCount
  /\ ListLimit \in Nat \ {0} /\ MaxContactChanges \in Nat

Numbered == 1 .. ContactCount
Instants == 1 .. MaxContactChanges + 2

VARIABLES
  standing,   \* status of each contact, ABSENT before it is created
  createdAt, lastSentAt,
  instant,    \* the clock
  walk,       \* the reading under way
  listed,     \* how often each contact was read
  steady,     \* history: contacts that matched all along, under an unchanged key
  anchorMoved, \* history: the contact of a cursor changed its key before it was used
  joined, left \* history: contacts came to match, or ceased to or moved

peopleVars == <<standing, createdAt, lastSentAt, instant>>
pagingVars == <<peopleVars, walk, listed, steady, anchorMoved, joined, left>>

Walks ==
  [at : {"none", "page", "anchored", "done"}, by : {"cursor", "offset"},
   sort : {"createdAt", "lastSentAt"}, order : {"asc", "desc"},
   cursor : 0 .. ContactCount, value : {0} \cup Instants, offset : 0 .. ContactCount]

PagingTypeOK ==
  /\ standing \in [Numbered -> {"ABSENT", "ACTIVE", "ARCHIVED"}]
  /\ createdAt \in [Numbered -> {0} \cup Instants]
  /\ lastSentAt \in [Numbered -> {0} \cup Instants]
  /\ \A c \in Numbered : (createdAt[c] = 0) = (standing[c] = "ABSENT")
  /\ instant \in Instants
  /\ walk \in Walks
  /\ listed \in [Numbered -> 0 .. 1 + MaxContactChanges]
  /\ steady \subseteq Numbered
  /\ anchorMoved \in BOOLEAN /\ joined \in BOOLEAN /\ left \in BOOLEAN

-----------------------------------------------------------------------------
(* contactOrder and matchingContactIds; the filter asks for a status. *)

Matching == {c \in Numbered : standing[c] = "ACTIVE"}
Key(c) == IF walk.sort = "createdAt" THEN createdAt[c] ELSE lastSentAt[c]
Beyond(a, b) == IF walk.order = "asc" THEN a > b ELSE a < b

\* ORDER BY column direction NULLS LAST, id direction.
Precedes(c, d) ==
  \/ Key(c) # 0 /\ Key(d) = 0
  \/ Key(c) # 0 /\ Key(d) # 0 /\ Beyond(Key(d), Key(c))
  \/ Key(c) = Key(d) /\ Beyond(d, c)

\* The clauses added for a cursor; a comparison with null is not true.
PastCursorForgettingNulls(c) ==
  IF walk.value = 0
  THEN Key(c) = 0 /\ Beyond(c, walk.cursor)
  ELSE Key(c) # 0 /\ (Beyond(Key(c), walk.value)
                      \/ (Key(c) = walk.value /\ Beyond(c, walk.cursor)))
PastCursor(c) ==
  IF walk.value = 0
  THEN Key(c) = 0 /\ Beyond(c, walk.cursor)
  ELSE \/ Key(c) # 0 /\ Beyond(Key(c), walk.value)
       \/ Key(c) = walk.value /\ Beyond(c, walk.cursor)
       \/ Key(c) = 0

Remaining == {c \in Matching : walk.cursor # 0 => PastCursor(c)}
Rank(c) == Cardinality({d \in Remaining : Precedes(d, c)})
Selected == {c \in Remaining : Rank(c) \in walk.offset .. walk.offset + ListLimit - 1}
LastOf(P) == CHOOSE c \in P : \A d \in P \ {c} : Precedes(d, c)

PagingInit ==
  /\ standing = [c \in Numbered |-> IF c <= ContactsAtFirst THEN "ACTIVE" ELSE "ABSENT"]
  /\ createdAt \in [Numbered -> 0 .. 2]
  /\ \A c \in Numbered : (createdAt[c] = 0) = (standing[c] = "ABSENT")
  /\ lastSentAt \in [Numbered -> {0, 2}]
  /\ \A c \in Numbered : standing[c] = "ABSENT" => lastSentAt[c] = 0
  /\ instant = 2
  /\ walk = [at |-> "none", by |-> "cursor", sort |-> "createdAt", order |-> "desc",
             cursor |-> 0, value |-> 0, offset |-> 0]
  /\ listed = [c \in Numbered |-> 0]
  /\ steady = {} /\ anchorMoved = FALSE /\ joined = FALSE /\ left = FALSE

-----------------------------------------------------------------------------
(* Reading. *)

StartWalk(by, sort, order) ==
  /\ walk.at = "none"
  /\ walk' = [walk EXCEPT !.at = "page", !.by = by, !.sort = sort, !.order = order]
  /\ steady' = Matching
  /\ UNCHANGED <<peopleVars, listed, anchorMoved, joined, left>>

\* The contact of the cursor is read first, as it is now.
ReadAnchor ==
  /\ walk.at = "page" /\ walk.cursor # 0
  /\ walk' = [walk EXCEPT !.at = "anchored", !.value = Key(walk.cursor)]
  /\ UNCHANGED <<peopleVars, listed, steady, anchorMoved, joined, left>>

\* One page of listContacts or iterateContactsForExport.  A page that is not
\* full is the last one, an empty page of the export ends it too.
ReadPage ==
  /\ walk.at = IF walk.cursor = 0 THEN "page" ELSE "anchored"
  /\ listed' = [c \in Numbered |-> IF c \in Selected THEN listed[c] + 1 ELSE listed[c]]
  /\ walk' = IF Cardinality(Selected) < ListLimit
             THEN [walk EXCEPT !.at = "done"]
             ELSE IF walk.by = "cursor"
             THEN [walk EXCEPT !.at = "page", !.cursor = LastOf(Selected)]
             ELSE [walk EXCEPT !.at = "page", !.offset = @ + Cardinality(Selected)]
  /\ UNCHANGED <<peopleVars, steady, anchorMoved, joined, left>>

-----------------------------------------------------------------------------
(* What happens to the contacts meanwhile. *)

\* Only what happens between two pages matters here.
Meanwhile ==
  /\ walk.at \in {"page", "anchored"}
  /\ instant < MaxContactChanges + 2 /\ instant' = instant + 1

CreateContact(c) ==
  /\ Meanwhile /\ standing[c] = "ABSENT"
  /\ standing' = [standing EXCEPT ![c] = "ACTIVE"]
  /\ createdAt' = [createdAt EXCEPT ![c] = instant']
  /\ joined' = TRUE
  /\ UNCHANGED <<lastSentAt, walk, listed, steady, anchorMoved, left>>

\* archiveContact, restoreContact and a bulk update of the status.
SetStatus(S, status) ==
  /\ Meanwhile /\ S # {} /\ \A c \in S : standing[c] \notin {"ABSENT", status}
  /\ standing' = [c \in Numbered |-> IF c \in S THEN status ELSE standing[c]]
  /\ steady' = steady \ S
  /\ joined' = (joined \/ status = "ACTIVE")
  /\ left' = (left \/ status # "ACTIVE")
  /\ UNCHANGED <<createdAt, lastSentAt, walk, listed, anchorMoved>>

\* finishBatch stamps the contacts a provider accepted, all with one instant.
Mailed(S) ==
  /\ Meanwhile /\ S # {} /\ S \subseteq Matching
  /\ lastSentAt' = [c \in Numbered |-> IF c \in S THEN instant' ELSE lastSentAt[c]]
  /\ IF walk.sort = "lastSentAt"
     THEN /\ steady' = steady \ S
          /\ anchorMoved' = (anchorMoved \/ (walk.at = "page" /\ walk.cursor \in S))
          /\ joined' = TRUE /\ left' = TRUE
     ELSE UNCHANGED <<steady, anchorMoved, joined, left>>
  /\ UNCHANGED <<standing, createdAt, walk, listed>>

PagingNext ==
  \/ \E by \in {"cursor", "offset"}, sort \in {"createdAt", "lastSentAt"},
        order \in {"asc", "desc"} : StartWalk(by, sort, order)
  \/ ReadAnchor
  \/ ReadPage
  \/ \E c \in Numbered : CreateContact(c)
  \/ \E S \in SUBSET Numbered, status \in {"ACTIVE", "ARCHIVED"} : SetStatus(S, status)
  \/ \E S \in SUBSET Numbered : Mailed(S)

PagingSpec == PagingInit /\ [][PagingNext]_pagingVars

-----------------------------------------------------------------------------
\* A reading that has come to its end has passed over nobody who was there
\* all the time.  By cursor it has read each of them once, whoever came, left
\* or moved around them, as long as no cursor's contact was mailed while the
\* list was sorted by that; the export may pass over somebody when others
\* leave or move, and repeat somebody when others join (nextCursor in
\* listContacts, OFFSET in iterateContactsForExport).
PagingComplete ==
  walk.at = "done" =>
    \A c \in steady :
      /\ walk.by = "cursor" /\ ~anchorMoved => listed[c] = 1
      /\ walk.by = "offset" /\ ~left => listed[c] >= 1
      /\ walk.by = "offset" /\ ~left /\ ~joined => listed[c] = 1
=============================================================================
