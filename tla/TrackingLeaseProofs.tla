------------------------ MODULE TrackingLeaseProofs ------------------------
(***************************************************************************)
(* What TrackingLease promises, proved for any number of calls, any lease  *)
(* and cache period.                                                       *)
(***************************************************************************)
EXTENDS TrackingLease, TLAPS

\* A token belongs to one call, the row holds the newest token or none, and
\* while the row holds a call's token it holds its lease.
Fencing ==
  /\ row.refreshToken \in {0, takes} /\ author <= takes
  /\ \A c \in Calls : pc[c] \in Refreshing =>
       /\ token[c] \in 1 .. takes
       /\ row.refreshToken = token[c] => row.refreshLeaseUntil = now[c] + LEASE
  /\ \A c, d \in Calls :
       pc[c] \in Refreshing /\ pc[d] \in Refreshing /\ token[c] = token[d] => c = d

\* Nobody takes a lease that runs.
HolderKeeps == \A c \in Calls : LeaseRuns(c) => row.refreshToken = token[c]

\* The order of the instants a call has taken.
InOrder ==
  \A c \in Calls :
    /\ now[c] <= clock
    /\ pc[c] \in {"read", "checked"} => now[c] <= readAt[c] /\ readAt[c] <= clock
    /\ pc[c] = "checked" => readAt[c] <= checkedAt[c] /\ checkedAt[c] <= clock

\* Settings are stored less than a lease after they were read.
StoredInTime ==
  /\ row.checkedAt # 0 => rowReadAt <= row.checkedAt /\ row.checkedAt < rowReadAt + LEASE
  /\ \A c \in Calls : pc[c] = "answering" /\ seen[c].checkedAt # 0 =>
       readAt[c] <= seen[c].checkedAt /\ seen[c].checkedAt < readAt[c] + LEASE

IInv == TypeOK /\ Fencing /\ HolderKeeps /\ InOrder /\ StoredInTime /\ KnownIsRecent

-----------------------------------------------------------------------------
\* The empty table satisfies the invariant.
LEMMA InitEstablishes == Init => IInv
<1> SUFFICES ASSUME Init PROVE IInv
  OBVIOUS
<1> USE TrackingAssumption DEF TrackingAssumption
<1>1. TypeOK
  BY DEF Init, TypeOK, NoRow, Unknown, Row, Instants, Tokens
<1>2. Fencing /\ HolderKeeps
  BY DEF Init, Fencing, HolderKeeps, LeaseRuns, Refreshing, NoRow
<1>3. InOrder /\ StoredInTime /\ KnownIsRecent
  BY DEF Init, InOrder, StoredInTime, KnownIsRecent, NoRow, Unknown
<1> QED BY <1>1, <1>2, <1>3 DEF IInv

\* An answer with known settings was fresh.
LEMMA SnapshotTyped ==
  ASSUME NEW o \in Row, NEW readTime \in Int, NEW instant \in Int
  PROVE  LET a == trackingSnapshotFromObservation(o, readTime, instant)
         IN  /\ a \in [settings : Settings \cup {None}, age : Int]
             /\ a.settings # None => Fresh(o, instant) /\ a.age = instant - readTime
  BY DEF trackingSnapshotFromObservation, Unknown

\* What the updates of the row make of it.
LEMMA TakenRow ==
  ASSUME NEW r \in Row, NEW instant \in Instants, NEW t \in Tokens, NEW until \in 0 .. MaxClock + LEASE
  PROVE  LET u == [r EXCEPT !.lastAttemptAt = instant, !.refreshToken = t, !.refreshLeaseUntil = until]
         IN  u \in Row /\ u.refreshToken = t /\ u.refreshLeaseUntil = until /\ u.checkedAt = r.checkedAt
  BY DEF Row

\* An update that gives the lease back.
LEMMA FreedRow ==
  ASSUME NEW r \in Row
  PROVE  Freed(r) \in Row /\ Freed(r).refreshToken = 0 /\ Freed(r).refreshLeaseUntil = 0
         /\ Freed(r).checkedAt = r.checkedAt
<1>1. 0 \in Tokens /\ 0 \in 0 .. MaxClock + LEASE
  BY TrackingAssumption DEF Tokens, TrackingAssumption
<1> QED BY <1>1 DEF Row, Freed

\* An update that notes a failure.
LEMMA FailedRow ==
  ASSUME NEW r \in Row
  PROVE  LET u == [r EXCEPT !.lastError = TRUE]
         IN  /\ u \in Row /\ u.refreshToken = r.refreshToken /\ u.refreshLeaseUntil = r.refreshLeaseUntil
             /\ u.checkedAt = r.checkedAt
  BY DEF Row

\* The types survive every step.
LEMMA TypePreserved == IInv /\ [Next]_vars => TypeOK'
<1> SUFFICES ASSUME IInv, [Next]_vars PROVE TypeOK'
  OBVIOUS
<1> USE TrackingAssumption DEF TrackingAssumption, IInv, TypeOK, Row, NoRow, Unknown, Instants, Tokens
<1>1. ASSUME NEW c \in Calls, NEW forced \in BOOLEAN, Start(c, forced) PROVE TypeOK'
  BY <1>1 DEF Start, Goto, Outside, Stored, Silent
<1>2. ASSUME NEW c \in Calls, AnswerBusy(c) PROVE TypeOK'
  BY <1>2 DEF AnswerBusy, Return, Outside, Stored
<1>3. ASSUME NEW c \in Calls, AnswerCached(c) PROVE TypeOK'
  <2>1. row \in Row /\ rowReadAt \in Int /\ now[c] \in Int
    OBVIOUS
  <2>2. trackingSnapshotFromObservation(row, rowReadAt, now[c]) \in [settings : Settings \cup {None}, age : Int]
    BY <2>1, SnapshotTyped
  <2> QED BY <1>3, <2>2 DEF AnswerCached, Return, Outside, Stored
<1>4. ASSUME NEW c \in Calls, Load(c) PROVE TypeOK'
  BY <1>4 DEF Load, Goto, Outside, Stored, Silent
<1>5. ASSUME NEW c \in Calls, Take(c) PROVE TypeOK'
  <2>1. /\ takes + 1 \in Tokens \ {0} /\ now[c] \in Instants
        /\ now[c] + LEASE \in 0 .. MaxClock + LEASE /\ now[c] + LEASE # 0
    BY <1>5 DEF Take
  <2>2. row' \in Row /\ row'.refreshToken = takes + 1 /\ row'.refreshLeaseUntil = now[c] + LEASE
    BY <1>5, <2>1, TakenRow DEF Take
  <2> HIDE DEF Row, NoRow
  <2> QED BY <1>5, <2>1, <2>2 DEF Take, Goto, Outside, Stored, Silent
<1>6. ASSUME NEW c \in Calls, TakeLost(c) PROVE TypeOK'
  BY <1>6 DEF TakeLost, Return, Outside, Stored
<1>7. ASSUME NEW c \in Calls, Read(c) PROVE TypeOK'
  BY <1>7 DEF Read, Goto, Outside, Stored, Silent
<1>8. ASSUME NEW c \in Calls, Check(c) PROVE TypeOK'
  BY <1>8 DEF Check, Goto, Outside, Stored, Silent
<1>9. ASSUME NEW c \in Calls, Throw(c) PROVE TypeOK'
  BY <1>9 DEF Throw, Goto, Outside, Stored, Silent
<1>10. ASSUME NEW c \in Calls, Commit(c) PROVE TypeOK'
  <2>1. observed[c] \in Settings \cup {None} /\ checkedAt[c] \in Instants
    OBVIOUS
  <2>2. row' \in Row /\ row'.refreshToken = 0 /\ row'.refreshLeaseUntil = 0
    <3> DEFINE n == IF seen[c].settings # observed[c] THEN row.revision + 1 ELSE row.revision
    <3>1. n \in Nat /\ row \in Row
      OBVIOUS
    <3>2. row' = [Freed(row) EXCEPT !.settings = observed[c], !.checkedAt = checkedAt[c],
                                    !.lastError = FALSE, !.revision = n]
      BY <1>10 DEF Commit, Freed
    <3> HIDE DEF n, Row
    <3>3. Freed(row) \in Row /\ Freed(row).refreshToken = 0 /\ Freed(row).refreshLeaseUntil = 0
      BY <3>1, FreedRow
    <3> HIDE TrackingAssumption DEF IInv, TypeOK
    <3> QED BY <2>1, <3>1, <3>2, <3>3 DEF Row
  <2> HIDE DEF Row, NoRow
  <2> QED BY <1>10, <2>1, <2>2 DEF Commit, Goto, Outside, Stored, Silent
<1>11. ASSUME NEW c \in Calls, RecordFailure(c) PROVE TypeOK'
  <2>1. row' \in Row /\ row'.refreshToken = 0 /\ row'.refreshLeaseUntil = 0
    BY <1>11, FreedRow, FailedRow DEF RecordFailure
  <2> HIDE DEF Row, NoRow
  <2> QED BY <1>11, <2>1 DEF RecordFailure, Goto, Outside, Stored, Silent
<1>12. ASSUME NEW c \in Calls, Lost(c) PROVE TypeOK'
  BY <1>12 DEF Lost, Return, Outside, Stored
<1>13. ASSUME NEW c \in Calls, Reread(c) PROVE TypeOK'
  BY <1>13 DEF Reread, Goto, Outside, Stored, Silent
<1>14. ASSUME NEW c \in Calls, AnswerFresh(c) PROVE TypeOK'
  <2>1. seen[c] \in Row /\ readAt[c] \in Int /\ clock \in Int
    OBVIOUS
  <2>2. trackingSnapshotFromObservation(seen[c], readAt[c], clock) \in [settings : Settings \cup {None}, age : Int]
    BY <2>1, SnapshotTyped
  <2> QED BY <1>14, <2>2 DEF AnswerFresh, Return, Outside, Stored
<1>15. ASSUME NEW c \in Calls, Vanish(c) PROVE TypeOK'
  BY <1>15 DEF Vanish, Return, Outside, Stored
<1>16. CASE Tick
  BY <1>16 DEF Tick, Stored, local, Silent
<1>17. ASSUME NEW s \in Settings, Reconfigure(s) PROVE TypeOK'
  BY <1>17 DEF Reconfigure, Stored, local, Silent
<1>18. CASE UNCHANGED vars
  BY <1>18 DEF vars, local
<1> QED BY <1>1, <1>2, <1>3, <1>4, <1>5, <1>6, <1>7, <1>8, <1>9, <1>10, <1>11,
       <1>12, <1>13, <1>14, <1>15, <1>16, <1>17, <1>18 DEF Next

\* The columns each step writes.
LEMMA RowSteps ==
  ASSUME IInv, NEW c \in Calls
  PROVE  /\ Take(c) => /\ row'.refreshToken = takes + 1 /\ row'.refreshLeaseUntil = now[c] + LEASE
                       /\ row'.checkedAt = row.checkedAt
         /\ Commit(c) => /\ row'.refreshToken = 0 /\ row'.refreshLeaseUntil = 0
                         /\ row'.checkedAt = checkedAt[c]
         /\ RecordFailure(c) => /\ row'.refreshToken = 0 /\ row'.refreshLeaseUntil = 0
                                /\ row'.checkedAt = row.checkedAt
  BY DEF IInv, TypeOK, Row, Take, Commit, RecordFailure, Freed

\* What is compared are numbers.
LEMMA Numbers ==
  IInv => /\ clock \in Nat /\ takes \in Nat /\ author \in Nat /\ rowReadAt \in Nat
          /\ row.refreshToken \in Nat /\ row.refreshLeaseUntil \in Nat /\ row.checkedAt \in Nat
          /\ \A c \in Calls : /\ now[c] \in Nat /\ token[c] \in Nat /\ readAt[c] \in Nat /\ checkedAt[c] \in Nat
                              /\ seen[c].checkedAt \in Nat
  BY TrackingAssumption DEF TrackingAssumption, IInv, TypeOK, Row, Instants, Tokens

\* A new token is newer than every token in use.
LEMMA FencingPreserved == IInv /\ [Next]_vars => Fencing'
<1> SUFFICES ASSUME IInv, [Next]_vars PROVE Fencing'
  OBVIOUS
<1> USE TrackingAssumption, Numbers, RowSteps DEF TrackingAssumption, IInv, TypeOK, Fencing, Refreshing
<1>1. ASSUME NEW c \in Calls, NEW forced \in BOOLEAN, Start(c, forced) PROVE Fencing'
  BY <1>1 DEF Start, Goto, Outside, Stored, Silent
<1>2. ASSUME NEW c \in Calls, AnswerBusy(c) PROVE Fencing'
  BY <1>2 DEF AnswerBusy, Return, Outside, Stored
<1>3. ASSUME NEW c \in Calls, AnswerCached(c) PROVE Fencing'
  BY <1>3 DEF AnswerCached, Return, Outside, Stored
<1>4. ASSUME NEW c \in Calls, Load(c) PROVE Fencing'
  BY <1>4 DEF Load, Goto, Outside, Stored, Silent
<1>5. ASSUME NEW c \in Calls, Take(c) PROVE Fencing'
  <2>1. /\ takes' = takes + 1 /\ author' = author /\ now' = now
        /\ row'.refreshToken = takes + 1 /\ row'.refreshLeaseUntil = now[c] + LEASE
        /\ pc' = [pc EXCEPT ![c] = "reading"] /\ token' = [token EXCEPT ![c] = takes + 1]
    BY <1>5 DEF Take, Goto
  <2>2. row'.refreshToken \in {0, takes'} /\ author' <= takes'
    BY <2>1
  <2>3. ASSUME NEW d \in Calls, pc'[d] \in Refreshing
        PROVE  /\ token'[d] \in 1 .. takes'
               /\ row'.refreshToken = token'[d] => row'.refreshLeaseUntil = now'[d] + LEASE
    BY <2>1, <2>3
  <2>4. ASSUME NEW d \in Calls, NEW e \in Calls,
               pc'[d] \in Refreshing, pc'[e] \in Refreshing, token'[d] = token'[e]
        PROVE  d = e
    BY <2>1, <2>4
  <2> QED BY <2>2, <2>3, <2>4
<1>6. ASSUME NEW c \in Calls, TakeLost(c) PROVE Fencing'
  BY <1>6 DEF TakeLost, Return, Outside, Stored
<1>7. ASSUME NEW c \in Calls, Read(c) PROVE Fencing'
  BY <1>7 DEF Read, Goto, Outside, Stored, Silent
<1>8. ASSUME NEW c \in Calls, Check(c) PROVE Fencing'
  BY <1>8 DEF Check, Goto, Outside, Stored, Silent
<1>9. ASSUME NEW c \in Calls, Throw(c) PROVE Fencing'
  BY <1>9 DEF Throw, Goto, Outside, Stored, Silent
<1>10. ASSUME NEW c \in Calls, Commit(c) PROVE Fencing'
  <2>1. /\ takes' = takes /\ author' = token[c] /\ now' = now /\ token' = token
        /\ row'.refreshToken = 0 /\ row'.refreshLeaseUntil = 0
        /\ pc' = [pc EXCEPT ![c] = "answering"] /\ pc[c] \in Refreshing
    BY <1>10 DEF Commit, Goto
  <2>2. row'.refreshToken \in {0, takes'} /\ author' <= takes'
    BY <2>1
  <2>3. ASSUME NEW d \in Calls, pc'[d] \in Refreshing
        PROVE  pc[d] \in Refreshing /\ token[d] \in 1 .. takes' /\ row'.refreshToken # token[d]
    BY <2>1, <2>3
  <2> QED BY <2>1, <2>2, <2>3
<1>11. ASSUME NEW c \in Calls, RecordFailure(c) PROVE Fencing'
  <2>1. /\ takes' = takes /\ author' = token[c] /\ now' = now /\ token' = token
        /\ row'.refreshToken = 0 /\ row'.refreshLeaseUntil = 0
        /\ pc' = [pc EXCEPT ![c] = "reread"] /\ pc[c] \in Refreshing
    BY <1>11 DEF RecordFailure, Goto
  <2>2. row'.refreshToken \in {0, takes'} /\ author' <= takes'
    BY <2>1
  <2>3. ASSUME NEW d \in Calls, pc'[d] \in Refreshing
        PROVE  pc[d] \in Refreshing /\ token[d] \in 1 .. takes' /\ row'.refreshToken # token[d]
    BY <2>1, <2>3
  <2> QED BY <2>1, <2>2, <2>3
<1>12. ASSUME NEW c \in Calls, Lost(c) PROVE Fencing'
  BY <1>12 DEF Lost, Return, Outside, Stored
<1>13. ASSUME NEW c \in Calls, Reread(c) PROVE Fencing'
  BY <1>13 DEF Reread, Goto, Outside, Stored, Silent
<1>14. ASSUME NEW c \in Calls, AnswerFresh(c) PROVE Fencing'
  BY <1>14 DEF AnswerFresh, Return, Outside, Stored
<1>15. ASSUME NEW c \in Calls, Vanish(c) PROVE Fencing'
  BY <1>15 DEF Vanish, Return, Outside, Stored
<1>16. CASE Tick
  BY <1>16 DEF Tick, Stored, local, Silent
<1>17. ASSUME NEW s \in Settings, Reconfigure(s) PROVE Fencing'
  BY <1>17 DEF Reconfigure, Stored, local, Silent
<1>18. CASE UNCHANGED vars
  BY <1>18 DEF vars, local
<1> QED BY <1>1, <1>2, <1>3, <1>4, <1>5, <1>6, <1>7, <1>8, <1>9, <1>10, <1>11,
       <1>12, <1>13, <1>14, <1>15, <1>16, <1>17, <1>18 DEF Next

\* A token leaves the row by its holder, or once the lease is over.
LEMMA HolderKeepsPreserved == IInv /\ [Next]_vars => HolderKeeps'
<1> SUFFICES ASSUME IInv, [Next]_vars PROVE HolderKeeps'
  OBVIOUS
<1> USE TrackingAssumption, Numbers, RowSteps DEF TrackingAssumption, IInv, TypeOK, Fencing, HolderKeeps, LeaseRuns, Refreshing
<1>1. ASSUME NEW c \in Calls, NEW forced \in BOOLEAN, Start(c, forced) PROVE HolderKeeps'
  BY <1>1 DEF Start, Goto, Outside, Stored, Silent
<1>2. ASSUME NEW c \in Calls, AnswerBusy(c) PROVE HolderKeeps'
  BY <1>2 DEF AnswerBusy, Return, Outside, Stored
<1>3. ASSUME NEW c \in Calls, AnswerCached(c) PROVE HolderKeeps'
  BY <1>3 DEF AnswerCached, Return, Outside, Stored
<1>4. ASSUME NEW c \in Calls, Load(c) PROVE HolderKeeps'
  BY <1>4 DEF Load, Goto, Outside, Stored, Silent
<1>5. ASSUME NEW c \in Calls, Take(c) PROVE HolderKeeps'
  <2>1. /\ now' = now /\ clock' = clock /\ row'.refreshToken = takes + 1
        /\ pc' = [pc EXCEPT ![c] = "reading"] /\ token' = [token EXCEPT ![c] = takes + 1]
        /\ row.refreshLeaseUntil <= now[c] /\ now[c] <= clock
    BY <1>5 DEF Take, Takeable, Goto, Outside, InOrder
  <2>2. ASSUME NEW d \in Calls, d # c, LeaseRuns(d) PROVE FALSE
    <3>1. row.refreshLeaseUntil = now[d] + LEASE
      BY <2>2
    <3> QED BY <2>1, <2>2, <3>1
  <2> QED BY <2>1, <2>2
<1>6. ASSUME NEW c \in Calls, TakeLost(c) PROVE HolderKeeps'
  BY <1>6 DEF TakeLost, Return, Outside, Stored
<1>7. ASSUME NEW c \in Calls, Read(c) PROVE HolderKeeps'
  BY <1>7 DEF Read, Goto, Outside, Stored, Silent
<1>8. ASSUME NEW c \in Calls, Check(c) PROVE HolderKeeps'
  BY <1>8 DEF Check, Goto, Outside, Stored, Silent
<1>9. ASSUME NEW c \in Calls, Throw(c) PROVE HolderKeeps'
  BY <1>9 DEF Throw, Goto, Outside, Stored, Silent
<1>10. ASSUME NEW c \in Calls, Commit(c) PROVE HolderKeeps'
  <2>1. /\ now' = now /\ clock' = clock /\ token' = token
        /\ pc' = [pc EXCEPT ![c] = "answering"] /\ pc[c] \in Refreshing /\ row.refreshToken = token[c]
    BY <1>10 DEF Commit, StillLeased, Goto, Outside
  <2>2. ASSUME NEW d \in Calls, LeaseRuns(d)' PROVE FALSE
    <3>1. d # c /\ LeaseRuns(d)
      BY <2>1, <2>2
    <3>2. token[d] = token[c]
      BY <2>1, <3>1
    <3> QED BY <2>1, <3>1, <3>2
  <2> QED BY <2>2
<1>11. ASSUME NEW c \in Calls, RecordFailure(c) PROVE HolderKeeps'
  <2>1. /\ now' = now /\ clock' = clock /\ token' = token
        /\ pc' = [pc EXCEPT ![c] = "reread"] /\ pc[c] \in Refreshing /\ row.refreshToken = token[c]
    BY <1>11 DEF RecordFailure, StillLeased, Goto, Outside
  <2>2. ASSUME NEW d \in Calls, LeaseRuns(d)' PROVE FALSE
    <3>1. d # c /\ LeaseRuns(d)
      BY <2>1, <2>2
    <3>2. token[d] = token[c]
      BY <2>1, <3>1
    <3> QED BY <2>1, <3>1, <3>2
  <2> QED BY <2>2
<1>12. ASSUME NEW c \in Calls, Lost(c) PROVE HolderKeeps'
  BY <1>12 DEF Lost, Return, Outside, Stored
<1>13. ASSUME NEW c \in Calls, Reread(c) PROVE HolderKeeps'
  BY <1>13 DEF Reread, Goto, Outside, Stored, Silent
<1>14. ASSUME NEW c \in Calls, AnswerFresh(c) PROVE HolderKeeps'
  BY <1>14 DEF AnswerFresh, Return, Outside, Stored
<1>15. ASSUME NEW c \in Calls, Vanish(c) PROVE HolderKeeps'
  BY <1>15 DEF Vanish, Return, Outside, Stored
<1>16. CASE Tick
  BY <1>16 DEF Tick, Stored, local, Silent
<1>17. ASSUME NEW s \in Settings, Reconfigure(s) PROVE HolderKeeps'
  BY <1>17 DEF Reconfigure, Stored, local, Silent
<1>18. CASE UNCHANGED vars
  BY <1>18 DEF vars, local
<1> QED BY <1>1, <1>2, <1>3, <1>4, <1>5, <1>6, <1>7, <1>8, <1>9, <1>10, <1>11,
       <1>12, <1>13, <1>14, <1>15, <1>16, <1>17, <1>18 DEF Next

\* The clock never runs backwards.
LEMMA InOrderPreserved == IInv /\ [Next]_vars => InOrder'
<1> SUFFICES ASSUME IInv, [Next]_vars PROVE InOrder'
  OBVIOUS
<1> USE TrackingAssumption, Numbers, RowSteps DEF TrackingAssumption, IInv, TypeOK, InOrder
<1>1. ASSUME NEW c \in Calls, NEW forced \in BOOLEAN, Start(c, forced) PROVE InOrder'
  BY <1>1 DEF Start, Goto, Outside, Stored, Silent
<1>2. ASSUME NEW c \in Calls, AnswerBusy(c) PROVE InOrder'
  BY <1>2 DEF AnswerBusy, Return, Outside, Stored
<1>3. ASSUME NEW c \in Calls, AnswerCached(c) PROVE InOrder'
  BY <1>3 DEF AnswerCached, Return, Outside, Stored
<1>4. ASSUME NEW c \in Calls, Load(c) PROVE InOrder'
  BY <1>4 DEF Load, Goto, Outside, Stored, Silent
<1>5. ASSUME NEW c \in Calls, Take(c) PROVE InOrder'
  BY <1>5 DEF Take, Goto, Outside, Stored, Silent
<1>6. ASSUME NEW c \in Calls, TakeLost(c) PROVE InOrder'
  BY <1>6 DEF TakeLost, Return, Outside, Stored
<1>7. ASSUME NEW c \in Calls, Read(c) PROVE InOrder'
  BY <1>7 DEF Read, Goto, Outside, Stored, Silent
<1>8. ASSUME NEW c \in Calls, Check(c) PROVE InOrder'
  BY <1>8 DEF Check, Goto, Outside, Stored, Silent
<1>9. ASSUME NEW c \in Calls, Throw(c) PROVE InOrder'
  BY <1>9 DEF Throw, Goto, Outside, Stored, Silent
<1>10. ASSUME NEW c \in Calls, Commit(c) PROVE InOrder'
  BY <1>10 DEF Commit, Goto, Freed, Outside, Stored, Silent
<1>11. ASSUME NEW c \in Calls, RecordFailure(c) PROVE InOrder'
  BY <1>11 DEF RecordFailure, Goto, Freed, Outside, Stored, Silent
<1>12. ASSUME NEW c \in Calls, Lost(c) PROVE InOrder'
  BY <1>12 DEF Lost, Return, Outside, Stored
<1>13. ASSUME NEW c \in Calls, Reread(c) PROVE InOrder'
  BY <1>13 DEF Reread, Goto, Outside, Stored, Silent
<1>14. ASSUME NEW c \in Calls, AnswerFresh(c) PROVE InOrder'
  BY <1>14 DEF AnswerFresh, Return, Outside, Stored
<1>15. ASSUME NEW c \in Calls, Vanish(c) PROVE InOrder'
  BY <1>15 DEF Vanish, Return, Outside, Stored
<1>16. CASE Tick
  BY <1>16 DEF Tick, Stored, local, Silent
<1>17. ASSUME NEW s \in Settings, Reconfigure(s) PROVE InOrder'
  BY <1>17 DEF Reconfigure, Stored, local, Silent
<1>18. CASE UNCHANGED vars
  BY <1>18 DEF vars, local
<1> QED BY <1>1, <1>2, <1>3, <1>4, <1>5, <1>6, <1>7, <1>8, <1>9, <1>10, <1>11,
       <1>12, <1>13, <1>14, <1>15, <1>16, <1>17, <1>18 DEF Next

\* A commit falls into the lease, and the lease began before the read.
LEMMA StoredPreserved == IInv /\ [Next]_vars => StoredInTime'
<1> SUFFICES ASSUME IInv, [Next]_vars PROVE StoredInTime'
  OBVIOUS
<1> USE TrackingAssumption, Numbers, RowSteps DEF TrackingAssumption, IInv, TypeOK, StoredInTime
<1>1. ASSUME NEW c \in Calls, NEW forced \in BOOLEAN, Start(c, forced) PROVE StoredInTime'
  BY <1>1 DEF Start, Goto, Outside, Stored, Silent
<1>2. ASSUME NEW c \in Calls, AnswerBusy(c) PROVE StoredInTime'
  BY <1>2 DEF AnswerBusy, Return, Outside, Stored
<1>3. ASSUME NEW c \in Calls, AnswerCached(c) PROVE StoredInTime'
  BY <1>3 DEF AnswerCached, Return, Outside, Stored
<1>4. ASSUME NEW c \in Calls, Load(c) PROVE StoredInTime'
  BY <1>4 DEF Load, Goto, Outside, Stored, Silent
<1>5. ASSUME NEW c \in Calls, Take(c) PROVE StoredInTime'
  BY <1>5 DEF Take, Goto, Outside, Stored, Silent
<1>6. ASSUME NEW c \in Calls, TakeLost(c) PROVE StoredInTime'
  BY <1>6 DEF TakeLost, Return, Outside, Stored
<1>7. ASSUME NEW c \in Calls, Read(c) PROVE StoredInTime'
  BY <1>7 DEF Read, Goto, Outside, Stored, Silent
<1>8. ASSUME NEW c \in Calls, Check(c) PROVE StoredInTime'
  BY <1>8 DEF Check, Goto, Outside, Stored, Silent
<1>9. ASSUME NEW c \in Calls, Throw(c) PROVE StoredInTime'
  BY <1>9 DEF Throw, Goto, Outside, Stored, Silent
<1>10. ASSUME NEW c \in Calls, Commit(c) PROVE StoredInTime'
  <2>1. /\ row'.checkedAt = checkedAt[c] /\ rowReadAt' = readAt[c] /\ readAt' = readAt
        /\ pc' = [pc EXCEPT ![c] = "answering"] /\ seen' = [seen EXCEPT ![c] = row']
    BY <1>10 DEF Commit, Goto
  <2>2. /\ pc[c] = "checked" /\ row.refreshToken = token[c] /\ checkedAt[c] < row.refreshLeaseUntil
    BY <1>10 DEF Commit, StillLeased
  <2>3. row.refreshLeaseUntil = now[c] + LEASE
    BY <2>2 DEF Fencing, Refreshing
  <2>4. now[c] <= readAt[c] /\ readAt[c] <= checkedAt[c]
    BY <2>2 DEF InOrder
  <2>5. readAt[c] <= checkedAt[c] /\ checkedAt[c] < readAt[c] + LEASE
    BY <2>2, <2>3, <2>4
  <2>6. /\ seen'[c] = row' /\ readAt'[c] = readAt[c]
        /\ \A d \in Calls \ {c} : seen'[d] = seen[d] /\ pc'[d] = pc[d] /\ readAt'[d] = readAt[d]
    BY <2>1
  <2> QED BY <2>1, <2>5, <2>6
<1>11. ASSUME NEW c \in Calls, RecordFailure(c) PROVE StoredInTime'
  BY <1>11 DEF RecordFailure, Goto, Freed, Outside, Stored, Silent
<1>12. ASSUME NEW c \in Calls, Lost(c) PROVE StoredInTime'
  BY <1>12 DEF Lost, Return, Outside, Stored
<1>13. ASSUME NEW c \in Calls, Reread(c) PROVE StoredInTime'
  BY <1>13 DEF Reread, Goto, Outside, Stored, Silent
<1>14. ASSUME NEW c \in Calls, AnswerFresh(c) PROVE StoredInTime'
  BY <1>14 DEF AnswerFresh, Return, Outside, Stored
<1>15. ASSUME NEW c \in Calls, Vanish(c) PROVE StoredInTime'
  BY <1>15 DEF Vanish, Return, Outside, Stored
<1>16. CASE Tick
  BY <1>16 DEF Tick, Stored, local, Silent
<1>17. ASSUME NEW s \in Settings, Reconfigure(s) PROVE StoredInTime'
  BY <1>17 DEF Reconfigure, Stored, local, Silent
<1>18. CASE UNCHANGED vars
  BY <1>18, SMTT(30) DEF vars, local
<1> QED BY <1>1, <1>2, <1>3, <1>4, <1>5, <1>6, <1>7, <1>8, <1>9, <1>10, <1>11,
       <1>12, <1>13, <1>14, <1>15, <1>16, <1>17, <1>18 DEF Next

\* Every other step answers nothing.
LEMMA AnswerSteps ==
  /\ Tick => answer' = Unknown
  /\ \A s \in Settings : Reconfigure(s) => answer' = Unknown
  /\ \A c \in Calls :
       /\ \A forced \in BOOLEAN : Start(c, forced) => answer' = Unknown
       /\ AnswerBusy(c) \/ Load(c) \/ Take(c) \/ TakeLost(c) \/ Read(c) \/ Check(c) \/ Commit(c) \/ Throw(c)
          \/ RecordFailure(c) \/ Lost(c) \/ Reread(c) \/ Vanish(c) => answer' = Unknown
  BY ZenonT(60) DEF Start, AnswerBusy, Load, Take, TakeLost, Read, Check, Commit, Throw, RecordFailure, Lost, Reread,
         Vanish, Tick, Reconfigure, Silent, Return

\* An answer adds the cache period to the age the settings had when stored.
LEMMA RecentPreserved == IInv /\ [Next]_vars => KnownIsRecent'
<1> SUFFICES ASSUME IInv, [Next]_vars PROVE KnownIsRecent'
  OBVIOUS
<1> USE TrackingAssumption, Numbers DEF TrackingAssumption, KnownIsRecent
<1>1. ASSUME answer' = Unknown PROVE KnownIsRecent'
  BY <1>1 DEF Unknown
<1>2. ASSUME NEW c \in Calls, AnswerCached(c) PROVE KnownIsRecent'
  <2> DEFINE a == trackingSnapshotFromObservation(row, rowReadAt, now[c])
  <2>1. row \in Row /\ now[c] \in Int /\ rowReadAt \in Int /\ row.checkedAt \in Int
    BY DEF IInv, TypeOK
  <2>2. a.settings # None => Fresh(row, now[c]) /\ a.age = now[c] - rowReadAt
    BY <2>1, SnapshotTyped
  <2>3. row.checkedAt # 0 => rowReadAt <= row.checkedAt /\ row.checkedAt < rowReadAt + LEASE
    BY DEF IInv, StoredInTime
  <2>4. answer' = a
    BY <1>2 DEF AnswerCached, Return
  <2> HIDE DEF a
  <2> QED BY <2>1, <2>2, <2>3, <2>4 DEF Fresh
<1>3. ASSUME NEW c \in Calls, AnswerFresh(c) PROVE KnownIsRecent'
  <2> DEFINE a == trackingSnapshotFromObservation(seen[c], readAt[c], clock)
  <2>1. /\ seen[c] \in Row /\ clock \in Int /\ readAt[c] \in Int
        /\ seen[c].checkedAt \in Int /\ pc[c] = "answering"
    BY <1>3 DEF IInv, TypeOK, AnswerFresh
  <2>2. a.settings # None => Fresh(seen[c], clock) /\ a.age = clock - readAt[c]
    BY <2>1, SnapshotTyped
  <2>3. seen[c].checkedAt # 0 =>
          readAt[c] <= seen[c].checkedAt /\ seen[c].checkedAt < readAt[c] + LEASE
    BY <2>1 DEF IInv, StoredInTime
  <2>4. answer' = a
    BY <1>3 DEF AnswerFresh, Return
  <2> HIDE DEF a
  <2> QED BY <2>1, <2>2, <2>3, <2>4 DEF Fresh
<1>4. CASE UNCHANGED vars
  BY <1>4 DEF vars, IInv
<1> QED BY <1>1, <1>2, <1>3, <1>4, AnswerSteps DEF Next

-----------------------------------------------------------------------------
\* The strengthening holds throughout.
THEOREM Inductive == Spec => []IInv
<1>1. Init => IInv
  BY InitEstablishes
<1>2. IInv /\ [Next]_vars => IInv'
  BY TypePreserved, FencingPreserved, HolderKeepsPreserved, InOrderPreserved, StoredPreserved,
     RecentPreserved DEF IInv
<1> QED BY <1>1, <1>2, PTL DEF Spec

\* The rows, the locals and the answers keep their types.
THEOREM TypeCorrect == Spec => []TypeOK
<1>1. IInv => TypeOK
  BY DEF IInv
<1> QED BY Inductive, <1>1, PTL

\* Two calls never refresh a domain under a running lease each, forced or
\* not: both would have to hold the one token in the row.
THEOREM OverlapFree == Spec => []NoOverlap
<1>1. IInv => NoOverlap
  <2> SUFFICES ASSUME IInv, NEW c \in Calls, NEW d \in Calls, LeaseRuns(c), LeaseRuns(d) PROVE c = d
    BY DEF NoOverlap
  <2>1. token[c] = row.refreshToken /\ token[d] = row.refreshToken
    BY DEF IInv, HolderKeeps
  <2> QED BY <2>1 DEF IInv, Fencing, LeaseRuns
<1> QED BY Inductive, <1>1, PTL

\* A call that writes an outcome holds the newest token ever given out.
THEOREM FencingCorrect == Spec => LateOwnerFenced
<1>1. ASSUME IInv, [Next]_vars PROVE [author' >= author]_vars
  <2> USE Numbers
  <2>1. ASSUME NEW c \in Calls, Commit(c) \/ RecordFailure(c) PROVE author' >= author
    <3>1. author' = token[c] /\ row.refreshToken = token[c] /\ pc[c] \in Refreshing
      BY <1>1, <2>1 DEF Commit, RecordFailure, StillLeased, Refreshing
    <3>2. token[c] = takes /\ author <= takes
      BY <1>1, <3>1 DEF IInv, Fencing
    <3> QED BY <1>1, <3>1, <3>2
  <2>2. ASSUME author' = author PROVE author' >= author
    BY <1>1, <2>2
  <2>3. /\ Tick => author' = author
        /\ \A s \in Settings : Reconfigure(s) => author' = author
        /\ \A c \in Calls :
             /\ \A forced \in BOOLEAN : Start(c, forced) => author' = author
             /\ AnswerBusy(c) \/ AnswerCached(c) \/ Load(c) \/ Take(c) \/ TakeLost(c) \/ Read(c) \/ Check(c)
                \/ Throw(c) \/ Lost(c) \/ Reread(c) \/ AnswerFresh(c) \/ Vanish(c) => author' = author
    BY DEF Start, AnswerBusy, AnswerCached, Load, Take, TakeLost, Read, Check, Throw, Lost, Reread,
           AnswerFresh, Vanish, Tick, Reconfigure, Stored
  <2>4. CASE UNCHANGED vars
    BY <2>4
  <2> QED BY <1>1, <2>1, <2>2, <2>3, <2>4 DEF Next
<1> QED BY Inductive, <1>1, PTL DEF Spec, LateOwnerFenced

\* Settings answered as known were the provider's within a cache period and
\* a lease, though the instants compared were read steps before.
THEOREM RecentCorrect == Spec => []KnownIsRecent
<1>1. IInv => KnownIsRecent
  BY DEF IInv
<1> QED BY Inductive, <1>1, PTL

-----------------------------------------------------------------------------
(* TrackingLease implements FencedLease. *)

\* The lease is taken when the row's has run out at an instant that is past.
LEMMA TakeGrants ==
  ASSUME IInv, NEW c \in Calls, Take(c)
  PROVE  Fenced!Grant
<1> USE Numbers
<1>1. /\ takes' = takes + 1 /\ UNCHANGED <<clock, author>>
      /\ row.refreshLeaseUntil <= now[c]
  BY DEF Take, Takeable, Outside
<1>2. row'.refreshToken = takes + 1 /\ row'.refreshLeaseUntil = now[c] + LEASE
  BY RowSteps
<1>3. now[c] <= clock
  BY DEF IInv, InOrder
<1>4. LEASE \in Nat
  BY TrackingAssumption DEF TrackingAssumption
<1>5. row.refreshLeaseUntil <= clock /\ row'.refreshLeaseUntil \in 0 .. clock + LEASE
  BY <1>1, <1>2, <1>3, <1>4
<1> QED
  BY <1>1, <1>2, <1>5 DEF Fenced!Grant

\* Settings or an error are written under the token in the row.
LEMMA OutcomeWrites ==
  ASSUME IInv, NEW c \in Calls, Commit(c) \/ RecordFailure(c)
  PROVE  Fenced!Write
<1>1. /\ row.refreshToken = token[c] /\ pc[c] \in Refreshing /\ author' = token[c]
      /\ UNCHANGED <<clock, takes>>
  BY DEF Commit, RecordFailure, StillLeased, Refreshing, Outside
<1>2. token[c] \in 1 .. takes /\ takes \in Nat
  BY <1>1, Numbers DEF IInv, Fencing
<1>3. row'.refreshToken = 0 /\ row'.refreshLeaseUntil = 0
  BY RowSteps
<1>4. row.refreshToken # 0
  BY <1>1, <1>2
<1> QED
  BY <1>1, <1>3, <1>4 DEF Fenced!Write

\* Every other step leaves the row and the tokens alone.
LEMMA StepFences ==
  ASSUME IInv, [Next]_vars
  PROVE  [Fenced!Next]_(Fenced!vars)
<1>0. UNCHANGED <<clock, takes, row, author>> => UNCHANGED Fenced!vars
  BY DEF Fenced!vars
<1>1. CASE Tick
  BY <1>1 DEF Tick, Stored, Fenced!Tick, Fenced!Next
<1>2. ASSUME NEW s \in Settings, Reconfigure(s) PROVE [Fenced!Next]_(Fenced!vars)
  BY <1>0, <1>2 DEF Reconfigure, Stored
<1>3. ASSUME NEW c \in Calls,
             \/ \E forced \in BOOLEAN : Start(c, forced)
             \/ AnswerBusy(c) \/ AnswerCached(c) \/ Load(c) \/ TakeLost(c) \/ Read(c) \/ Check(c)
             \/ Throw(c) \/ Lost(c) \/ Reread(c) \/ AnswerFresh(c) \/ Vanish(c)
      PROVE  [Fenced!Next]_(Fenced!vars)
  <2>1. UNCHANGED <<clock, takes, row, author>>
    BY <1>3 DEF Start, AnswerBusy, AnswerCached, Load, TakeLost, Read, Check, Throw, Lost, Reread, AnswerFresh,
       Vanish, Outside, Stored
  <2> QED
    BY <1>0, <2>1
<1>4. ASSUME NEW c \in Calls, Take(c) PROVE [Fenced!Next]_(Fenced!vars)
  BY <1>4, TakeGrants DEF Fenced!Next
<1>5. ASSUME NEW c \in Calls, Commit(c) \/ RecordFailure(c) PROVE [Fenced!Next]_(Fenced!vars)
  BY <1>5, OutcomeWrites DEF Fenced!Next
<1>6. CASE UNCHANGED vars
  BY <1>0, <1>6 DEF vars
<1> QED
  BY <1>1, <1>2, <1>3, <1>4, <1>5, <1>6 DEF Next

\* Calls that stall, fail, vanish and are overtaken share the lease as
\* FencedLease has it: granted when none runs, written under once, and only
\* under the token granted last.
THEOREM FencedLeaseKept == Spec => ImplementsFencedLease
<1>1. Init => Fenced!Init
  BY DEF Init, NoRow, Fenced!Init
<1>2. IInv /\ [Next]_vars => [Fenced!Next]_(Fenced!vars)
  BY StepFences
<1> QED
  BY <1>1, <1>2, Inductive, PTL DEF Spec, ImplementsFencedLease, Fenced!Spec
=============================================================================
