---------------------------- MODULE RecordsProofs ----------------------------
(***************************************************************************)
(* What the modules of the service's records promise, proved for any       *)
(* number of accounts, windows, workers, rows, batches and messages.       *)
(***************************************************************************)
EXTENDS MCRecords, ListingProofs,
        FiniteSetTheorems, TLAPS

-----------------------------------------------------------------------------
(* Identity: who has acted as an account can be told from its row, and what *)
(* the portal has read under an agent's lock stays true until it writes.   *)

Row(x) == users[x]
\* The row an agent has acted as bears its name; no sign-in finds it again.
IsPortals(x, a) ==
  /\ Row(x) # Nil /\ Row(x).key = a /\ Row(x).entraObjectId = Nil
  /\ Row(x).portalAgentId = a \/ Row(x).portalAgentId = Nil
IsOf(x, o) == Row(x) # Nil /\ Row(x).entraObjectId = o
ActorsKnown ==
  \A x \in Accounts :
    /\ \A a \in PortalAgents : a \in actedAs[x] => IsPortals(x, a)
    /\ \A o \in Identities : o \in actedAs[x] => IsOf(x, o)

PortalHolds(a, lock) ==
  lock.by = "portal" /\ lock.account # Nil =>
    /\ Row(lock.account) # Nil /\ Row(lock.account).portalAgentId = a
    /\ ~lock.detach => Row(lock.account).entraObjectId = Nil
ScriptHolds(lock) ==
  lock.by = "script" => lock.account # Nil /\ Row(lock.account) # Nil /\ lock.mail \in Addresses
LocksHold == \A a \in PortalAgents : PortalHolds(a, locked[a]) /\ ScriptHolds(locked[a])

IdentityTyped ==
  /\ users \in [Accounts -> UserRows \cup {Nil}]
  /\ locked \in [PortalAgents -> UserLocks]
  /\ actedAs \in [Accounts -> SUBSET (PortalAgents \cup Identities)]
IdentityInv == IdentityTyped /\ ActorsKnown /\ LocksHold

\* A lock that is held names an account, or none.
LEMMA LockTyped ==
  ASSUME NEW lock \in UserLocks, lock.by = "portal" \/ lock.by = "script"
  PROVE  /\ lock.account \in Accounts \cup {Nil} /\ lock.detach \in BOOLEAN
         /\ lock.mail \in Addresses \cup {Nil}
BY DEF UserLocks, Unlocked

LEMMA RowTyped ==
  ASSUME IdentityTyped, NEW x \in Accounts, Row(x) # Nil
  PROVE  /\ x \in Registered /\ Row(x) \in UserRows
         /\ Row(x).portalAgentId \in PortalAgents \cup {Nil} /\ Row(x).key \in Addresses \cup PortalAgents
         /\ Row(x).entraObjectId \in Identities \cup {Nil}
BY DEF IdentityTyped, Row, Registered, UserRows, LoginKeys

\* A row that is not there yet.
LEMMA UnusedIsFree ==
  ASSUME Registered # Accounts
  PROVE  Unused \in Accounts /\ Unused \notin Registered /\ users[Unused] = Nil
<1>1. \E x \in Accounts : x \notin Registered
  BY DEF Registered
<1> QED BY <1>1 DEF Unused, Registered

LEMMA NewRowTyped ==
  ASSUME NEW k \in LoginKeys, NEW r \in {"ADMIN", "MARKETER"}
  PROVE  /\ NewRow(k, r) \in UserRows
         /\ \A o \in Identities : [NewRow(k, r) EXCEPT !.entraObjectId = o] \in UserRows
         /\ \A a \in PortalAgents : [NewRow(k, r) EXCEPT !.portalAgentId = a] \in UserRows
BY DEF NewRow, UserRows

\* One row is written, by whoever holds no more locks than before.
LEMMA RowChanges ==
  ASSUME IdentityInv, NEW x \in Accounts, NEW y \in UserRows, users' = [users EXCEPT ![x] = y],
         locked' \in [PortalAgents -> UserLocks],
         actedAs' \in [Accounts -> SUBSET (PortalAgents \cup Identities)],
         \A a \in PortalAgents : locked'[a] = locked[a] \/ locked'[a] = Unlocked,
         \A z \in Accounts : z # x => actedAs'[z] = actedAs[z],
         Row(x) # Nil /\ Row(x).portalAgentId # Nil =>
           /\ y.portalAgentId = Row(x).portalAgentId
           /\ Row(x).entraObjectId = Nil => y.entraObjectId = Nil,
         \A a \in PortalAgents : a \in actedAs'[x] =>
           y.key = a /\ y.entraObjectId = Nil /\ (y.portalAgentId = a \/ y.portalAgentId = Nil),
         \A o \in Identities : o \in actedAs'[x] => y.entraObjectId = o
  PROVE  IdentityInv'
<1>1. IdentityTyped' /\ y # Nil /\ users \in [Accounts -> UserRows \cup {Nil}]
  BY IdentityAssumption DEF IdentityInv, IdentityTyped
<1>2. Row(x)' = y /\ \A z \in Accounts : z # x => Row(z)' = Row(z)
  BY <1>1 DEF Row
<1>3. ActorsKnown'
  <2> SUFFICES ASSUME NEW z \in Accounts
               PROVE  /\ \A a \in PortalAgents : a \in actedAs'[z] => IsPortals(z, a)'
                      /\ \A o \in Identities : o \in actedAs'[z] => IsOf(z, o)'
    BY DEF ActorsKnown
  <2>1. CASE z = x
    BY <1>1, <1>2, <2>1 DEF IsPortals, IsOf
  <2>2. CASE z # x
    BY <1>2, <2>2 DEF IdentityInv, ActorsKnown, IsPortals, IsOf
  <2> QED BY <2>1, <2>2
<1>4. ASSUME NEW a \in PortalAgents PROVE PortalHolds(a, locked[a])' /\ ScriptHolds(locked[a])'
  <2>1. CASE locked'[a] = Unlocked
    BY <2>1 DEF PortalHolds, ScriptHolds, Unlocked
  <2>2. CASE locked'[a] = locked[a] /\ (locked[a].by = "portal" \/ locked[a].by = "script")
    <3> DEFINE lock == locked[a]
    <3>1. lock \in UserLocks /\ PortalHolds(a, lock) /\ ScriptHolds(lock)
      BY DEF IdentityInv, IdentityTyped, LocksHold
    <3>2. lock.account \in Accounts \cup {Nil}
      BY <2>2, <3>1, LockTyped
    <3> HIDE DEF lock
    <3>3. lock.by = "portal" /\ lock.account # Nil =>
            /\ users'[lock.account] # Nil /\ users'[lock.account].portalAgentId = a
            /\ ~lock.detach => users'[lock.account].entraObjectId = Nil
      BY <1>1, <1>2, <3>1, <3>2, IdentityAssumption DEF PortalHolds, Row
    <3>4. lock.by = "script" => lock.account # Nil /\ users'[lock.account] # Nil /\ lock.mail \in Addresses
      BY <1>1, <1>2, <3>1, <3>2, IdentityAssumption DEF ScriptHolds, Row
    <3> QED BY <2>2, <3>3, <3>4 DEF PortalHolds, ScriptHolds, Row, lock
  <2>3. CASE locked'[a] = locked[a] /\ ~(locked[a].by = "portal" \/ locked[a].by = "script")
    BY <2>3 DEF PortalHolds, ScriptHolds
  <2> QED BY <2>1, <2>2, <2>3
<1> QED BY <1>1, <1>3, <1>4 DEF IdentityInv, LocksHold

\* Somebody acts as an account nobody else has acted as.
LEMMA ActingTyped ==
  ASSUME IdentityTyped, NEW x \in Accounts, NEW who \in PortalAgents \cup Identities, ActsAs(who, x)
  PROVE  /\ actedAs' \in [Accounts -> SUBSET (PortalAgents \cup Identities)]
         /\ actedAs'[x] = actedAs[x] \cup {who}
         /\ \A z \in Accounts : z # x => actedAs'[z] = actedAs[z]
BY DEF ActsAs, IdentityTyped

LEMMA SignsIn ==
  ASSUME IdentityInv, NEW o \in Identities, NEW m \in Addresses,
         SignInKnown(o, m) \/ SignInLinks(o, m) \/ SignInCreates(o, m)
  PROVE  IdentityInv'
<1>0. /\ users \in [Accounts -> UserRows \cup {Nil}] /\ locked' = locked
      /\ locked \in [PortalAgents -> UserLocks] /\ IdentityTyped
      /\ o \notin PortalAgents /\ m \notin PortalAgents /\ o # Nil
      /\ o \in PortalAgents \cup Identities /\ m \in LoginKeys
  BY IdentityAssumption DEF IdentityInv, IdentityTyped, SignInKnown, SignInLinks, SignInCreates, LoginKeys
<1>1. ASSUME NEW x \in Accounts, NEW y \in UserRows, users' = [users EXCEPT ![x] = y], ActsAs(o, x),
             y.entraObjectId = o,
             Row(x) = Nil \/ /\ Row(x).portalAgentId = Nil
                             /\ \/ Row(x).entraObjectId = o
                                \/ Row(x).key = m /\ Row(x).entraObjectId = Nil
      PROVE  IdentityInv'
  <2>1. /\ actedAs' \in [Accounts -> SUBSET (PortalAgents \cup Identities)]
        /\ actedAs'[x] = actedAs[x] \cup {o}
        /\ \A z \in Accounts : z # x => actedAs'[z] = actedAs[z]
    BY <1>0, <1>1, ActingTyped
  <2>2. ASSUME NEW a \in PortalAgents, a \in actedAs'[x] PROVE FALSE
    <3>1. a \in actedAs[x]
      BY <1>0, <2>1, <2>2
    <3> QED BY <1>0, <1>1, <3>1 DEF IdentityInv, ActorsKnown, IsPortals
  <2>3. ASSUME NEW q \in Identities, q \in actedAs'[x] PROVE y.entraObjectId = q
    <3>1. CASE q \in actedAs[x]
      BY <1>1, <3>1, IdentityAssumption DEF IdentityInv, ActorsKnown, IsOf
    <3> QED BY <1>1, <2>1, <2>3, <3>1
  <2> QED BY <1>0, <1>1, <2>1, <2>2, <2>3, RowChanges
<1>2. CASE SignInKnown(o, m)
  <2>1. PICK x \in OfIdentity(o) : users[x].portalAgentId = Nil /\ users' = [users EXCEPT ![x].key = m] /\ ActsAs(o, x)
    BY <1>2 DEF SignInKnown
  <2>2. x \in Accounts /\ users[x] \in UserRows /\ users[x].entraObjectId = o
    BY <1>0, <2>1 DEF OfIdentity, Registered
  <2> DEFINE y == [users[x] EXCEPT !.key = m]
  <2>3. y \in UserRows /\ y.entraObjectId = o /\ users' = [users EXCEPT ![x] = y]
    BY <1>0, <2>1, <2>2 DEF UserRows
  <2> QED BY <1>1, <2>1, <2>2, <2>3 DEF Row
<1>3. CASE SignInLinks(o, m)
  <2>1. PICK x \in WithKey(m) : /\ users[x].portalAgentId = Nil /\ users[x].entraObjectId = Nil
                                /\ users' = [users EXCEPT ![x].entraObjectId = o] /\ ActsAs(o, x)
    BY <1>3 DEF SignInLinks
  <2>2. x \in Accounts /\ users[x] \in UserRows /\ users[x].key = m
    BY <1>0, <2>1 DEF WithKey, Registered
  <2> DEFINE y == [users[x] EXCEPT !.entraObjectId = o]
  <2>3. y \in UserRows /\ y.entraObjectId = o /\ users' = [users EXCEPT ![x] = y]
    BY <1>0, <2>1, <2>2 DEF UserRows
  <2> QED BY <1>1, <2>1, <2>2, <2>3 DEF Row
<1>4. CASE SignInCreates(o, m)
  <2> DEFINE r == IF m \in BootstrapMail THEN "ADMIN" ELSE "MARKETER"
             y == [NewRow(m, r) EXCEPT !.entraObjectId = o]
  <2>1. Registered # Accounts /\ users' = [users EXCEPT ![Unused] = y] /\ ActsAs(o, Unused)
    BY <1>4 DEF SignInCreates
  <2>2. r \in {"ADMIN", "MARKETER"}
    OBVIOUS
  <2> HIDE DEF r
  <2>3. y \in UserRows /\ y.entraObjectId = o
    BY <1>0, <2>2, NewRowTyped DEF NewRow
  <2>4. Unused \in Accounts /\ Row(Unused) = Nil
    BY <2>1, UnusedIsFree DEF Row
  <2> QED BY <1>1, <2>1, <2>3, <2>4
<1> QED BY <1>2, <1>3, <1>4

LEMMA Administration ==
  ASSUME IdentityInv,
         \/ \E m \in Addresses, r \in {"ADMIN", "MARKETER"} : ProvisionUser(m, r)
         \/ \E x \in Accounts, r \in {"ADMIN", "MARKETER"}, on \in BOOLEAN : ChangeUser(x, r, on)
  PROVE  IdentityInv'
<1>1. /\ users \in [Accounts -> UserRows \cup {Nil}] /\ locked' = locked /\ actedAs' = actedAs
      /\ locked \in [PortalAgents -> UserLocks] /\ IdentityTyped
      /\ actedAs \in [Accounts -> SUBSET (PortalAgents \cup Identities)]
  BY DEF IdentityInv, IdentityTyped, ProvisionUser, ChangeUser, Administers
<1>2. ASSUME NEW x \in Accounts, NEW y \in UserRows, users' = [users EXCEPT ![x] = y],
             \/ Row(x) = Nil
             \/ /\ y.portalAgentId = Row(x).portalAgentId /\ y.key = Row(x).key
                /\ y.entraObjectId = Row(x).entraObjectId
      PROVE  IdentityInv'
  <2>1. \A a \in PortalAgents : a \in actedAs[x] => IsPortals(x, a)
    BY DEF IdentityInv, ActorsKnown
  <2>2. \A o \in Identities : o \in actedAs[x] => IsOf(x, o)
    BY DEF IdentityInv, ActorsKnown
  <2>3. \A a \in PortalAgents : a \in actedAs'[x] =>
           y.key = a /\ y.entraObjectId = Nil /\ (y.portalAgentId = a \/ y.portalAgentId = Nil)
    BY <1>1, <1>2, <2>1 DEF IsPortals
  <2>4. \A o \in Identities : o \in actedAs'[x] => y.entraObjectId = o
    BY <1>1, <1>2, <2>2 DEF IsOf
  <2> QED BY <1>1, <1>2, <2>3, <2>4, RowChanges
<1>3. ASSUME NEW m \in Addresses, NEW r \in {"ADMIN", "MARKETER"}, ProvisionUser(m, r) PROVE IdentityInv'
  <2>1. Registered # Accounts /\ users' = [users EXCEPT ![Unused] = NewRow(m, r)]
    BY <1>3 DEF ProvisionUser
  <2>2. NewRow(m, r) \in UserRows
    BY NewRowTyped DEF LoginKeys
  <2>3. Unused \in Accounts /\ Row(Unused) = Nil
    BY <2>1, UnusedIsFree DEF Row
  <2> QED BY <1>2, <2>1, <2>2, <2>3
<1>4. ASSUME NEW x \in Accounts, NEW r \in {"ADMIN", "MARKETER"}, NEW on \in BOOLEAN, ChangeUser(x, r, on)
      PROVE  IdentityInv'
  <2>1. x \in Registered /\ users' = [users EXCEPT ![x].role = r, ![x].isActive = on]
    BY <1>4 DEF ChangeUser
  <2>2. users[x] \in UserRows
    BY <1>1, <2>1 DEF Registered
  <2> DEFINE y == [users[x] EXCEPT !.role = r, !.isActive = on]
  <2>3. /\ y \in UserRows /\ y.portalAgentId = users[x].portalAgentId /\ y.key = users[x].key
        /\ y.entraObjectId = users[x].entraObjectId
    BY <2>2 DEF UserRows
  <2>4. users' = [users EXCEPT ![x] = y]
    BY <1>1, <2>1, <2>2 DEF UserRows
  <2> HIDE DEF y
  <2> QED BY <1>2, <2>3, <2>4 DEF Row
<1> QED BY <1>3, <1>4

\* A lock is taken with what its holder has just read, or given back.
LEMMA Locks ==
  ASSUME IdentityInv, NEW a \in PortalAgents, NEW lock \in UserLocks, locked' = [locked EXCEPT ![a] = lock],
         UNCHANGED <<users, actedAs>>, PortalHolds(a, lock), ScriptHolds(lock)
  PROVE  IdentityInv'
<1>1. IdentityTyped' /\ locked \in [PortalAgents -> UserLocks]
  BY DEF IdentityInv, IdentityTyped
<1>2. ActorsKnown'
  BY DEF IdentityInv, ActorsKnown, IsPortals, IsOf, Row
<1>3. ASSUME NEW b \in PortalAgents PROVE PortalHolds(b, locked[b])' /\ ScriptHolds(locked[b])'
  <2>1. CASE b = a
    BY <1>1, <2>1 DEF PortalHolds, ScriptHolds, Row
  <2>2. CASE b # a
    BY <1>1, <2>2 DEF IdentityInv, LocksHold, PortalHolds, ScriptHolds, Row
  <2> QED BY <2>1, <2>2
<1> QED BY <1>1, <1>2, <1>3 DEF IdentityInv, LocksHold

LEMMA UnlockedHolds == Unlocked \in UserLocks /\ \A a \in PortalAgents : PortalHolds(a, Unlocked) /\ ScriptHolds(Unlocked)
BY DEF UserLocks, Unlocked, PortalHolds, ScriptHolds

LEMMA ReadsUnderLock ==
  ASSUME IdentityInv, NEW a \in PortalAgents,
         PortalReads(a) \/ PortalFails(a) \/ \E x \in Accounts : ScriptReads(a, x)
  PROVE  IdentityInv'
<1>1. UNCHANGED <<users, actedAs>> /\ IdentityTyped
  BY DEF PortalReads, PortalFails, ScriptReads, Administers, IdentityInv
<1>2. CASE PortalReads(a)
  <2> DEFINE x == IF OfAgent(a) = {} THEN Nil ELSE CHOOSE z \in OfAgent(a) : TRUE
             d == \E z \in OfAgent(a) : users[z].entraObjectId # Nil \/ users[z].role = "ADMIN"
             lock == [by |-> "portal", account |-> x, detach |-> d, mail |-> Nil]
  <2>1. locked' = [locked EXCEPT ![a] = lock]
    BY <1>2 DEF PortalReads
  <2>2. d \in BOOLEAN /\ (~d => \A z \in OfAgent(a) : users[z].entraObjectId = Nil)
    BY Zenon
  <2>3. x = Nil \/ (x \in OfAgent(a) /\ x \in Accounts)
    BY DEF OfAgent, Registered
  <2> HIDE DEF d, x
  <2>4. lock \in UserLocks
    BY <2>2, <2>3 DEF UserLocks
  <2>5. PortalHolds(a, lock) /\ ScriptHolds(lock)
    BY <2>2, <2>3 DEF PortalHolds, ScriptHolds, Row, OfAgent, Registered
  <2> HIDE DEF lock
  <2> QED BY <1>1, <2>1, <2>4, <2>5, Locks
<1>3. CASE PortalFails(a)
  BY <1>1, <1>3, Locks, UnlockedHolds DEF PortalFails, Unlocks
<1>4. ASSUME NEW x \in Accounts, ScriptReads(a, x) PROVE IdentityInv'
  <2> DEFINE k == users[x].key
             lock == [by |-> "script", account |-> x, detach |-> FALSE, mail |-> k]
  <2>1. locked' = [locked EXCEPT ![a] = lock] /\ k \in Addresses /\ users[x] # Nil /\ x # Nil
    BY <1>4, IdentityAssumption DEF ScriptReads, Registered
  <2> HIDE DEF k
  <2>2. lock \in UserLocks /\ PortalHolds(a, lock) /\ ScriptHolds(lock)
    BY <2>1 DEF UserLocks, PortalHolds, ScriptHolds, Row
  <2> HIDE DEF lock
  <2> QED BY <1>1, <2>1, <2>2, Locks
<1> QED BY <1>2, <1>3, <1>4

\* A row mapped to an agent is no row of somebody else's doing.
LEMMA MappedIsHeld ==
  ASSUME IdentityInv, NEW a \in PortalAgents, locked[a].by = "portal", locked[a].account # Nil
  PROVE  /\ locked[a].account \in Accounts /\ Row(locked[a].account) \in UserRows
         /\ Row(locked[a].account) # Nil /\ Row(locked[a].account).portalAgentId = a
         /\ ~locked[a].detach => Row(locked[a].account).entraObjectId = Nil
<1>1. locked[a] \in UserLocks /\ PortalHolds(a, locked[a]) /\ IdentityTyped
  BY DEF IdentityInv, IdentityTyped, LocksHold
<1>2. locked[a].account \in Accounts
  BY <1>1, LockTyped
<1> QED BY <1>1, <1>2, RowTyped DEF PortalHolds

LEMMA PortalWrites ==
  ASSUME IdentityInv, NEW a \in PortalAgents, PortalUpdates(a)
  PROVE  IdentityInv'
<1> DEFINE x == locked[a].account
           y == [users[x] EXCEPT !.key = a]
<1>1. /\ locked[a].by = "portal" /\ x # Nil /\ ~locked[a].detach
      /\ users' = [users EXCEPT ![x].key = a] /\ ActsAs(a, x) /\ locked' = [locked EXCEPT ![a] = Unlocked]
  BY DEF PortalUpdates, Unlocks
<1>2. /\ x \in Accounts /\ users[x] \in UserRows /\ users[x].portalAgentId = a
      /\ users[x].entraObjectId = Nil
  BY <1>1, MappedIsHeld DEF Row
<1>3. IdentityTyped /\ users \in [Accounts -> UserRows \cup {Nil}] /\ locked \in [PortalAgents -> UserLocks]
  BY DEF IdentityInv, IdentityTyped
<1>4. /\ y \in UserRows /\ y.key = a /\ y.entraObjectId = Nil /\ y.portalAgentId = a
      /\ users' = [users EXCEPT ![x] = y]
  BY <1>1, <1>2, <1>3 DEF UserRows, LoginKeys
<1>5. /\ actedAs' \in [Accounts -> SUBSET (PortalAgents \cup Identities)]
      /\ actedAs'[x] = actedAs[x] \cup {a}
      /\ \A z \in Accounts : z # x => actedAs'[z] = actedAs[z]
  BY <1>1, <1>2, <1>3, ActingTyped
<1>6. locked' \in [PortalAgents -> UserLocks] /\ \A b \in PortalAgents : locked'[b] = locked[b] \/ locked'[b] = Unlocked
  BY <1>1, <1>3, UnlockedHolds
<1>7. ASSUME NEW b \in PortalAgents, b \in actedAs'[x] PROVE b = a
  <2>1. CASE b \in actedAs[x]
    <3>1. IsPortals(x, b)
      BY <1>2, <2>1 DEF IdentityInv, ActorsKnown
    <3> QED BY <1>2, <3>1, IdentityAssumption DEF IsPortals, Row
  <2> QED BY <1>5, <1>7, <2>1
<1>8. ASSUME NEW o \in Identities, o \in actedAs'[x] PROVE FALSE
  <2>1. o # a /\ o # Nil
    BY IdentityAssumption
  <2>2. IsOf(x, o)
    BY <1>2, <1>5, <1>8, <2>1 DEF IdentityInv, ActorsKnown
  <2> QED BY <1>2, <2>1, <2>2 DEF IsOf, Row
<1> HIDE DEF x, y
<1> QED BY <1>2, <1>4, <1>5, <1>6, <1>7, <1>8, RowChanges DEF Row

LEMMA ScriptMaps ==
  ASSUME IdentityInv, NEW a \in PortalAgents, ScriptWrites(a)
  PROVE  IdentityInv'
<1> DEFINE x == locked[a].account
           y == [users[x] EXCEPT !.portalAgentId = a]
<1>1. locked[a].by = "script" /\ locked' = [locked EXCEPT ![a] = Unlocked] /\ actedAs' = actedAs
  BY DEF ScriptWrites, Unlocks
<1>2. /\ IdentityTyped /\ users \in [Accounts -> UserRows \cup {Nil}] /\ locked \in [PortalAgents -> UserLocks]
      /\ locked[a] \in UserLocks /\ ScriptHolds(locked[a])
      /\ actedAs \in [Accounts -> SUBSET (PortalAgents \cup Identities)]
  BY DEF IdentityInv, IdentityTyped, LocksHold
<1>3. x \in Accounts /\ users[x] \in UserRows /\ locked[a].mail \in Addresses
  BY <1>1, <1>2, LockTyped DEF ScriptHolds, Row
<1>4. CASE users' = users
  BY <1>1, <1>4, Locks, UnlockedHolds
<1>5. CASE users[x].portalAgentId = Nil /\ users[x].key = locked[a].mail /\ users' = [users EXCEPT ![x].portalAgentId = a]
  <2>1. /\ y \in UserRows /\ users' = [users EXCEPT ![x] = y]
        /\ y.entraObjectId = users[x].entraObjectId
    BY <1>2, <1>3, <1>5 DEF UserRows
  <2>2. \A b \in PortalAgents : b \notin actedAs'[x]
    BY <1>1, <1>3, <1>5, IdentityAssumption DEF IdentityInv, ActorsKnown, IsPortals, Row
  <2>3. \A o \in Identities : o \in actedAs'[x] => users[x].entraObjectId = o
    BY <1>1, <1>3 DEF IdentityInv, ActorsKnown, IsOf, Row
  <2>4. locked' \in [PortalAgents -> UserLocks] /\ \A b \in PortalAgents : locked'[b] = locked[b] \/ locked'[b] = Unlocked
    BY <1>1, <1>2, UnlockedHolds
  <2> HIDE DEF x, y
  <2> QED BY <1>1, <1>2, <1>3, <1>5, <2>1, <2>2, <2>3, <2>4, RowChanges DEF Row
<1>6. \/ users' = users
      \/ /\ users[x].portalAgentId = Nil /\ users[x].key = locked[a].mail
         /\ users' = [users EXCEPT ![x].portalAgentId = a]
  BY DEF ScriptWrites
<1> QED BY <1>4, <1>5, <1>6

\* A row of the agent's own; the row it detaches, if there is one, keeps the
\* name under which the agent acted as it.
LEMMA PortalDetaches ==
  ASSUME IdentityInv, NEW a \in PortalAgents, PortalCreates(a)
  PROVE  IdentityInv'
<1> DEFINE u == Unused
           c == locked[a].account
           new == [NewRow(a, "MARKETER") EXCEPT !.portalAgentId = a]
           old == [users[c] EXCEPT !.portalAgentId = Nil]
<1>1. /\ locked[a].by = "portal" /\ Registered # Accounts /\ ActsAs(a, u)
      /\ locked' = [locked EXCEPT ![a] = Unlocked]
      /\ users' = [x \in Accounts |-> IF x = u THEN new
                                      ELSE IF x = c THEN [users[x] EXCEPT !.portalAgentId = Nil] ELSE users[x]]
  BY DEF PortalCreates, Unlocks
<1>2. /\ IdentityTyped /\ users \in [Accounts -> UserRows \cup {Nil}] /\ locked \in [PortalAgents -> UserLocks]
      /\ a \in LoginKeys
  BY DEF IdentityInv, IdentityTyped, LoginKeys
<1>3. u \in Accounts /\ users[u] = Nil
  BY <1>1, UnusedIsFree
<1>4. c # Nil => c \in Accounts /\ c # u /\ users[c] \in UserRows /\ users[c].portalAgentId = a
  BY <1>1, <1>3, MappedIsHeld DEF Row
<1>5. new \in UserRows /\ new.key = a /\ new.portalAgentId = a /\ new.entraObjectId = Nil /\ new # Nil
  <2>1. new \in UserRows
    BY <1>2, NewRowTyped
  <2>2. new.key = a /\ new.portalAgentId = a /\ new.entraObjectId = Nil
    BY DEF NewRow
  <2> HIDE DEF new
  <2> QED BY <2>1, <2>2, IdentityAssumption
<1>6. c # Nil => /\ old \in UserRows /\ old # Nil /\ old.portalAgentId = Nil
                 /\ old.key = users[c].key /\ old.entraObjectId = users[c].entraObjectId
  BY <1>4, IdentityAssumption DEF UserRows
<1>7. /\ users'[u] = new /\ (c # Nil => users'[c] = old)
      /\ \A z \in Accounts : z # u /\ z # c => users'[z] = users[z]
  <2> HIDE DEF u, c, new
  <2>1. users'[u] = new
    BY <1>1, <1>3
  <2>2. c # Nil => users'[c] = old
    BY <1>1, <1>4
  <2>3. \A z \in Accounts : z # u /\ z # c => users'[z] = users[z]
    BY <1>1
  <2> QED BY <2>1, <2>2, <2>3
<1>8. /\ actedAs' \in [Accounts -> SUBSET (PortalAgents \cup Identities)]
      /\ actedAs'[u] = actedAs[u] \cup {a}
      /\ \A z \in Accounts : z # u => actedAs'[z] = actedAs[z]
  BY <1>1, <1>2, <1>3, ActingTyped
<1>9. Nil \notin Accounts /\ Nil \notin PortalAgents /\ Nil \notin Identities
  BY IdentityAssumption
<1> HIDE DEF u, c, new, old
<1>10. users' \in [Accounts -> UserRows \cup {Nil}]
  <2>1. \A z \in Accounts : users'[z] \in UserRows \cup {Nil}
    BY <1>2, <1>5, <1>6, <1>7, <1>9
  <2>2. \E f : users' = [z \in Accounts |-> f[z]]
    <3> DEFINE f == [x \in Accounts |-> IF x = u THEN new
                                      ELSE IF x = c THEN [users[x] EXCEPT !.portalAgentId = Nil] ELSE users[x]]
    <3>1. users' = f
      BY <1>1
    <3>2. f = [z \in Accounts |-> f[z]]
      OBVIOUS
    <3> QED BY <3>1, <3>2
  <2> QED BY <2>1, <2>2
<1>11. IdentityTyped'
  BY <1>1, <1>2, <1>8, <1>10, UnlockedHolds DEF IdentityTyped
<1>12. ActorsKnown'
  <2> SUFFICES ASSUME NEW z \in Accounts
               PROVE  /\ \A b \in PortalAgents : b \in actedAs'[z] => IsPortals(z, b)'
                      /\ \A o \in Identities : o \in actedAs'[z] => IsOf(z, o)'
    BY DEF ActorsKnown
  <2>0. /\ \A b \in PortalAgents : b \in actedAs[z] => IsPortals(z, b)
        /\ \A o \in Identities : o \in actedAs[z] => IsOf(z, o)
    BY DEF IdentityInv, ActorsKnown
  <2>1. CASE z = u
    <3>1. actedAs[z] \cap (PortalAgents \cup Identities) = {}
      BY <1>3, <2>0, <2>1 DEF IsPortals, IsOf, Row
    <3>2. a \notin Identities
      BY IdentityAssumption
    <3> QED BY <1>5, <1>7, <1>8, <2>1, <3>1, <3>2 DEF IsPortals, IsOf, Row
  <2>2. CASE z # u /\ z = c
    <3>1. c # Nil /\ users'[z] = old /\ actedAs'[z] = actedAs[z]
      BY <1>7, <1>8, <1>9, <2>2
    <3> QED BY <1>6, <2>0, <2>2, <3>1 DEF IsPortals, IsOf, Row
  <2>3. CASE z # u /\ z # c
    BY <1>7, <1>8, <2>0, <2>3 DEF IsPortals, IsOf, Row
  <2> QED BY <2>1, <2>2, <2>3
<1>13. ASSUME NEW b \in PortalAgents PROVE PortalHolds(b, locked[b])' /\ ScriptHolds(locked[b])'
  <2>1. CASE b = a
    BY <1>1, <1>2, <2>1 DEF PortalHolds, ScriptHolds, Unlocked
  <2>2. CASE b # a /\ (locked[b].by = "portal" \/ locked[b].by = "script")
    <3> DEFINE lock == locked[b]
    <3>1. lock \in UserLocks /\ PortalHolds(b, lock) /\ ScriptHolds(lock)
      BY DEF IdentityInv, IdentityTyped, LocksHold
    <3>2. lock.account \in Accounts \cup {Nil} /\ locked'[b] = lock
      BY <1>1, <1>2, <2>2, <3>1, LockTyped
    <3> HIDE DEF lock
    <3>3. lock.by = "portal" /\ lock.account # Nil =>
            /\ users'[lock.account] # Nil /\ users'[lock.account].portalAgentId = b
            /\ ~lock.detach => users'[lock.account].entraObjectId = Nil
      <4>1. lock.by = "portal" /\ lock.account # Nil => lock.account # c /\ lock.account # u
        BY <1>3, <1>4, <1>9, <2>2, <3>1, <3>2 DEF PortalHolds, Row
      <4> QED BY <1>7, <3>1, <3>2, <4>1 DEF PortalHolds, Row
    <3>4. lock.by = "script" => lock.account # Nil /\ users'[lock.account] # Nil /\ lock.mail \in Addresses
      <4>1. lock.by = "script" => lock.account \in Accounts /\ lock.account # u
        BY <1>3, <3>1, <3>2 DEF ScriptHolds, Row
      <4> QED BY <1>6, <1>7, <1>9, <3>1, <4>1 DEF ScriptHolds, Row
    <3> QED BY <3>2, <3>3, <3>4 DEF PortalHolds, ScriptHolds, Row
  <2>3. CASE b # a /\ ~(locked[b].by = "portal" \/ locked[b].by = "script")
    BY <1>1, <1>2, <2>3 DEF PortalHolds, ScriptHolds
  <2> QED BY <2>1, <2>2, <2>3
<1> QED BY <1>11, <1>12, <1>13 DEF IdentityInv, LocksHold

LEMMA IdentityStep == IdentityInv /\ [IdentityNext]_identityVars => IdentityInv'
<1> SUFFICES ASSUME IdentityInv, [IdentityNext]_identityVars PROVE IdentityInv'
  OBVIOUS
<1>1. CASE UNCHANGED identityVars
  BY <1>1 DEF identityVars, IdentityInv, IdentityTyped, ActorsKnown, IsPortals, IsOf, LocksHold, PortalHolds,
              ScriptHolds, Row
<1> QED BY <1>1, SignsIn, Administration, ReadsUnderLock, PortalWrites, PortalDetaches, ScriptMaps
        DEF IdentityNext

\* Nobody acts as an account somebody else has acted as (sign-in, the
\* portal's middleware, the mapping script): for any accounts, agents and
\* identities, and however often administrators change what they are.
THEOREM NobodyShares == IdentitySpec => []AccountNotShared
<1>1. IdentityInit => IdentityInv
  BY IdentityAssumption DEF IdentityInit, IdentityInv, IdentityTyped, ActorsKnown, LocksHold, PortalHolds,
     ScriptHolds, UserLocks, Unlocked
<1>2. ASSUME IdentityInv PROVE AccountNotShared
  <2> SUFFICES ASSUME NEW x \in Accounts PROVE Cardinality(actedAs[x]) <= 1
    BY DEF AccountNotShared
  <2>1. \A p, q \in actedAs[x] : p = q
    <3>1. actedAs[x] \subseteq PortalAgents \cup Identities
      BY <1>2 DEF IdentityInv, IdentityTyped
    <3> QED BY <1>2, <3>1, IdentityAssumption DEF IdentityInv, ActorsKnown, IsPortals, IsOf
  <2>2. CASE actedAs[x] = {}
    BY <2>2, FS_EmptySet
  <2>3. ASSUME NEW p \in actedAs[x] PROVE Cardinality(actedAs[x]) <= 1
    <3>1. actedAs[x] = {p}
      BY <2>1
    <3>2. Cardinality({p}) = 1
      BY FS_Singleton
    <3> QED BY <3>1, <3>2
  <2> QED BY <2>2, <2>3
<1> QED BY <1>1, <1>2, IdentityStep, PTL DEF IdentitySpec

-----------------------------------------------------------------------------
(* Identity: a key is taken by one row.  A step that gives a row its agent   *)
(* or its Entra identity has found no other row with it, and the locks of   *)
(* the portal and the script keep it so until they write.                   *)
\* Two rows never share a unique key, and while an agent's lock is held the
\* only row of that agent is the one its holder has read.
KeysApart(p, q) ==
  /\ p.key # q.key
  /\ p.portalAgentId = Nil \/ p.portalAgentId # q.portalAgentId
  /\ p.entraObjectId = Nil \/ p.entraObjectId # q.entraObjectId
RowsDistinct ==
  \A x, y \in Accounts : x # y /\ Row(x) # Nil /\ Row(y) # Nil => KeysApart(Row(x), Row(y))
Bears(x, a) == Row(x) # Nil /\ Row(x).portalAgentId = a
LockExact(a, lock) ==
  lock.by = "portal" \/ lock.by = "script" =>
    \A x \in Accounts : Bears(x, a) => lock.by = "portal" /\ lock.account = x
LocksExact == \A a \in PortalAgents : LockExact(a, locked[a])
KeysInv ==
  /\ RowsDistinct /\ LocksExact
  /\ administration \in 0 .. MaxAdministration

\* One row is written, and clashes with no other.
LEMMA RowKeepsDistinct ==
  ASSUME IdentityInv, RowsDistinct, NEW x \in Accounts, NEW y \in UserRows, users' = [users EXCEPT ![x] = y],
         \A z \in Accounts : z # x /\ Row(z) # Nil => KeysApart(Row(z), y) /\ KeysApart(y, Row(z))
  PROVE  RowsDistinct'
<1>1. users \in [Accounts -> UserRows \cup {Nil}]
  BY DEF IdentityInv, IdentityTyped
<1>2. Row(x)' = y /\ \A z \in Accounts : z # x => Row(z)' = Row(z)
  BY <1>1 DEF Row
<1> QED BY <1>2 DEF RowsDistinct, KeysApart

\* No row comes to bear an agent's name while the agent's lock is held.
LEMMA ExactKept ==
  ASSUME LocksExact,
         \A b \in PortalAgents :
           \/ locked'[b] = Unlocked
           \/ locked'[b] = locked[b] /\ \A x \in Accounts : Bears(x, b)' => Bears(x, b)
  PROVE  LocksExact'
BY DEF LocksExact, LockExact, Unlocked

\* The row of an account is written with the keys it has, or with new ones
\* that nobody else has.
LEMMA RowReplaced ==
  ASSUME IdentityInv, RowsDistinct, LocksExact, NEW x \in Accounts, NEW y \in UserRows,
         users' = [users EXCEPT ![x] = y],
         (Row(x) # Nil /\ y.key = Row(x).key) \/ WithKey(y.key) \subseteq {x},
         \/ y.portalAgentId = Nil \/ (Row(x) # Nil /\ y.portalAgentId = Row(x).portalAgentId)
         \/ OfAgent(y.portalAgentId) \subseteq {x},
         \/ y.entraObjectId = Nil \/ (Row(x) # Nil /\ y.entraObjectId = Row(x).entraObjectId)
         \/ OfIdentity(y.entraObjectId) \subseteq {x},
         \A b \in PortalAgents :
           \/ locked'[b] = Unlocked
           \/ locked'[b] = locked[b] /\ (y.portalAgentId = b => Bears(x, b))
  PROVE  RowsDistinct' /\ LocksExact'
<1>1. ASSUME NEW z \in Accounts, z # x, Row(z) # Nil PROVE KeysApart(Row(z), y) /\ KeysApart(y, Row(z))
  <2>0. z \in Registered /\ (Row(x) # Nil => KeysApart(Row(z), Row(x)) /\ KeysApart(Row(x), Row(z)))
    BY <1>1 DEF RowsDistinct, Registered, Row
  <2>1. Row(z).key # y.key
    BY <1>1, <2>0 DEF WithKey, Row, KeysApart
  <2>2. y.portalAgentId = Nil \/ Row(z).portalAgentId # y.portalAgentId
    BY <1>1, <2>0 DEF OfAgent, Row, KeysApart
  <2>3. y.entraObjectId = Nil \/ Row(z).entraObjectId # y.entraObjectId
    BY <1>1, <2>0 DEF OfIdentity, Row, KeysApart
  <2> QED BY <2>1, <2>2, <2>3 DEF KeysApart
<1>2. ASSUME NEW b \in PortalAgents, y.portalAgentId = b => Bears(x, b), NEW z \in Accounts, Bears(z, b)'
      PROVE  Bears(z, b)
  <2>1. users \in [Accounts -> UserRows \cup {Nil}]
    BY DEF IdentityInv, IdentityTyped
  <2> QED BY <1>2, <2>1 DEF Bears, Row
<1>3. LocksExact'
  BY <1>2, ExactKept
<1> QED BY <1>1, <1>3, RowKeepsDistinct

\* What a lock's holder reads is all there is; what is written clashes with
\* nothing, and nobody else writes an agent's name while its lock is held.
LEMMA KeysStay ==
  ASSUME IdentityInv, RowsDistinct, LocksExact, IdentityNext
  PROVE  RowsDistinct' /\ LocksExact'
<1>0. users \in [Accounts -> UserRows \cup {Nil}] /\ IdentityTyped /\ locked \in [PortalAgents -> UserLocks]
  BY DEF IdentityInv, IdentityTyped
<1>00. /\ \A x \in Accounts : users[x] # Nil => users[x] \in UserRows
       /\ Nil \notin Identities /\ Nil \notin PortalAgents
  BY <1>0, IdentityAssumption
<1>1. ASSUME NEW o \in Identities, NEW m \in Addresses, SignInKnown(o, m) PROVE RowsDistinct' /\ LocksExact'
  <2>1. PICK x \in OfIdentity(o) : locked' = locked /\ WithKey(m) \subseteq {x} /\ users' = [users EXCEPT ![x].key = m]
    BY <1>1 DEF SignInKnown
  <2>2. x \in Accounts /\ users[x] \in UserRows /\ users[x] # Nil
    BY <1>00, <2>1 DEF OfIdentity, Registered
  <2> DEFINE y == [users[x] EXCEPT !.key = m]
  <2>3. /\ y \in UserRows /\ y.key = m /\ users' = [users EXCEPT ![x] = y]
        /\ y.portalAgentId = users[x].portalAgentId /\ y.entraObjectId = users[x].entraObjectId
    BY <1>0, <2>1, <2>2 DEF UserRows, LoginKeys
  <2> HIDE DEF y
  <2>4. \A b \in PortalAgents : locked'[b] = locked[b] /\ (y.portalAgentId = b => Bears(x, b))
    BY <2>1, <2>2, <2>3 DEF Row, Bears
  <2> QED BY <2>1, <2>2, <2>3, <2>4, RowReplaced DEF Row
<1>2. ASSUME NEW o \in Identities, NEW m \in Addresses, SignInLinks(o, m) PROVE RowsDistinct' /\ LocksExact'
  <2>1. PICK x \in WithKey(m) : locked' = locked /\ OfIdentity(o) = {} /\ users' = [users EXCEPT ![x].entraObjectId = o]
    BY <1>2 DEF SignInLinks
  <2>2. x \in Accounts /\ users[x] \in UserRows /\ users[x] # Nil
    BY <1>00, <2>1 DEF WithKey, Registered
  <2> DEFINE y == [users[x] EXCEPT !.entraObjectId = o]
  <2>3. /\ y \in UserRows /\ y.entraObjectId = o /\ users' = [users EXCEPT ![x] = y]
        /\ y.portalAgentId = users[x].portalAgentId /\ y.key = users[x].key
    BY <1>0, <2>1, <2>2 DEF UserRows
  <2> HIDE DEF y
  <2>4. \A b \in PortalAgents : locked'[b] = locked[b] /\ (y.portalAgentId = b => Bears(x, b))
    BY <2>1, <2>2, <2>3 DEF Row, Bears
  <2> QED BY <2>1, <2>2, <2>3, <2>4, RowReplaced DEF Row
<1>3. ASSUME NEW o \in Identities, NEW m \in Addresses, SignInCreates(o, m) PROVE RowsDistinct' /\ LocksExact'
  <2> DEFINE r == IF m \in BootstrapMail THEN "ADMIN" ELSE "MARKETER"
             y == [NewRow(m, r) EXCEPT !.entraObjectId = o]
  <2>1. locked' = locked /\ Registered # Accounts /\ OfIdentity(o) = {} /\ WithKey(m) = {} /\ users' = [users EXCEPT ![Unused] = y]
    BY <1>3 DEF SignInCreates
  <2>2. r \in {"ADMIN", "MARKETER"} /\ m \in LoginKeys
    BY DEF LoginKeys
  <2> HIDE DEF r
  <2>3. y \in UserRows /\ y.entraObjectId = o /\ y.key = m /\ y.portalAgentId = Nil
    BY <2>2, NewRowTyped DEF NewRow
  <2>4. Unused \in Accounts
    BY <2>1, UnusedIsFree
  <2> HIDE DEF y
  <2> QED BY <1>00, <2>1, <2>3, <2>4, RowReplaced
<1>4. ASSUME UNCHANGED users PROVE RowsDistinct'
  BY <1>4 DEF RowsDistinct, Row
<1>5. ASSUME NEW a \in PortalAgents, PortalUpdates(a) PROVE RowsDistinct' /\ LocksExact'
  <2> DEFINE x == locked[a].account
             y == [users[x] EXCEPT !.key = a]
  <2>1. /\ locked[a].by = "portal" /\ x # Nil /\ users' = [users EXCEPT ![x].key = a]
        /\ WithKey(a) \subseteq {x} /\ locked' = [locked EXCEPT ![a] = Unlocked]
    BY <1>5 DEF PortalUpdates, Unlocks
  <2>2. x \in Accounts /\ users[x] \in UserRows /\ users[x] # Nil
    BY <2>1, MappedIsHeld DEF Row
  <2> HIDE DEF x
  <2>3. /\ y \in UserRows /\ y.key = a /\ users' = [users EXCEPT ![x] = y]
        /\ y.portalAgentId = users[x].portalAgentId /\ y.entraObjectId = users[x].entraObjectId
    BY <1>0, <2>1, <2>2 DEF UserRows, LoginKeys
  <2> HIDE DEF y
  <2>4. \A b \in PortalAgents : locked'[b] = Unlocked \/ (locked'[b] = locked[b] /\ (y.portalAgentId = b => Bears(x, b)))
    BY <1>0, <2>1, <2>2, <2>3 DEF Row, Bears
  <2> QED BY <2>1, <2>2, <2>3, <2>4, RowReplaced DEF Row
<1>6. ASSUME NEW a \in PortalAgents, PortalCreates(a) PROVE RowsDistinct' /\ LocksExact'
  <2> DEFINE u == Unused
             c == locked[a].account
             new == [NewRow(a, "MARKETER") EXCEPT !.portalAgentId = a]
  <2>1. /\ locked[a].by = "portal" /\ Registered # Accounts /\ WithKey(a) = {}
        /\ users' = [x \in Accounts |-> IF x = u THEN new
                                        ELSE IF x = c THEN [users[x] EXCEPT !.portalAgentId = Nil] ELSE users[x]]
        /\ locked' = [locked EXCEPT ![a] = Unlocked]
    BY <1>6 DEF PortalCreates, Unlocks
  <2>2. u \in Accounts /\ users[u] = Nil
    BY <2>1, UnusedIsFree
  <2>3. new.key = a /\ new.portalAgentId = a /\ new.entraObjectId = Nil
    BY DEF NewRow
  <2>4. \A x \in Accounts : Bears(x, a) => c = x
    BY <2>1 DEF LocksExact, LockExact
  <2> HIDE DEF u, c, new
  <2>5. ASSUME NEW x \in Accounts, x # u, Row(x)' # Nil
        PROVE  /\ Row(x) # Nil /\ Row(x)'.key = Row(x).key /\ Row(x)'.entraObjectId = Row(x).entraObjectId
               /\ Row(x)'.portalAgentId = Nil \/ Row(x)'.portalAgentId = Row(x).portalAgentId
               /\ Row(x)'.portalAgentId # a /\ Row(x).key # a
    <3>1. CASE x = c
      <4>1. c # Nil /\ users[x] # Nil
        BY <1>00, <2>1, <2>5, <3>1, MappedIsHeld, IdentityAssumption DEF Row, c
      <4>2. users[x] \in UserRows /\ users'[x] = [users[x] EXCEPT !.portalAgentId = Nil]
        BY <1>00, <2>1, <2>5, <3>1, <4>1
      <4>3. users'[x].key = users[x].key /\ users'[x].entraObjectId = users[x].entraObjectId /\ users'[x].portalAgentId = Nil
        BY <4>2 DEF UserRows
      <4> QED BY <1>00, <2>1, <2>5, <4>1, <4>3 DEF Row, WithKey, Registered
    <3>2. CASE x # c
      <4>1. users'[x] = users[x]
        BY <2>1, <2>5, <3>2
      <4> QED BY <2>1, <2>4, <2>5, <3>2, <4>1 DEF Row, Bears, WithKey, Registered
    <3> QED BY <3>1, <3>2
  <2>6. \A x \in Accounts : x = u => Row(x)' = new
    BY <2>1, <2>2 DEF Row
  <2>7. ASSUME NEW x \in Accounts, NEW y \in Accounts, x # y, Row(x)' # Nil, Row(y)' # Nil
        PROVE  KeysApart(Row(x)', Row(y)')
    <3>1. CASE x = u
      BY <2>3, <2>5, <2>6, <2>7, <3>1 DEF KeysApart
    <3>2. CASE y = u
      <4>1. Row(x)'.entraObjectId = Nil \/ Row(x)'.entraObjectId # new.entraObjectId
        BY <2>3
      <4> QED BY <1>00, <2>3, <2>5, <2>6, <2>7, <3>2, <4>1 DEF KeysApart
    <3>3. CASE x # u /\ y # u
      <4>1. Row(x) # Nil /\ Row(y) # Nil /\ KeysApart(Row(x), Row(y))
        BY <2>5, <2>7, <3>3 DEF RowsDistinct
      <4> QED BY <2>5, <2>7, <3>3, <4>1 DEF KeysApart
    <3> QED BY <3>1, <3>2, <3>3
  <2>8. ASSUME NEW b \in PortalAgents, b # a
        PROVE  locked'[b] = locked[b] /\ \A x \in Accounts : Bears(x, b)' => Bears(x, b)
    <3>1. \A x \in Accounts : x # u /\ Bears(x, b)' => Bears(x, b)
      BY <1>00, <2>5, <2>8 DEF Bears
    <3>2. \A x \in Accounts : x = u => ~Bears(x, b)'
      BY <2>3, <2>6, <2>8 DEF Bears
    <3> QED BY <1>0, <2>1, <2>8, <3>1, <3>2
  <2>9. locked'[a] = Unlocked
    BY <1>0, <2>1
  <2>10. LocksExact'
    BY <2>8, <2>9, ExactKept
  <2> QED BY <2>7, <2>10 DEF RowsDistinct
<1>7. ASSUME NEW m \in Addresses, NEW r \in {"ADMIN", "MARKETER"}, ProvisionUser(m, r) PROVE RowsDistinct' /\ LocksExact'
  <2>1. locked' = locked /\ Registered # Accounts /\ WithKey(m) = {} /\ users' = [users EXCEPT ![Unused] = NewRow(m, r)]
    BY <1>7 DEF ProvisionUser
  <2>2. NewRow(m, r) \in UserRows
    BY NewRowTyped DEF LoginKeys
  <2>3. NewRow(m, r).key = m /\ NewRow(m, r).portalAgentId = Nil /\ NewRow(m, r).entraObjectId = Nil
    BY DEF NewRow
  <2>4. Unused \in Accounts
    BY <2>1, UnusedIsFree
  <2> QED BY <1>00, <2>1, <2>2, <2>3, <2>4, RowReplaced
<1>8. ASSUME NEW x \in Accounts, NEW r \in {"ADMIN", "MARKETER"}, NEW on \in BOOLEAN, ChangeUser(x, r, on)
      PROVE  RowsDistinct' /\ LocksExact'
  <2>1. locked' = locked /\ x \in Registered /\ users' = [users EXCEPT ![x].role = r, ![x].isActive = on]
    BY <1>8 DEF ChangeUser
  <2>2. users[x] \in UserRows /\ users[x] # Nil
    BY <1>0, <2>1 DEF Registered
  <2> DEFINE y == [users[x] EXCEPT !.role = r, !.isActive = on]
  <2>3. /\ y \in UserRows /\ y.portalAgentId = users[x].portalAgentId /\ y.key = users[x].key
        /\ y.entraObjectId = users[x].entraObjectId
    BY <2>2 DEF UserRows
  <2>4. users' = [users EXCEPT ![x] = y]
    BY <1>0, <2>1, <2>2 DEF UserRows
  <2> HIDE DEF y
  <2>5. \A b \in PortalAgents : locked'[b] = locked[b] /\ (y.portalAgentId = b => Bears(x, b))
    BY <2>1, <2>2, <2>3 DEF Row, Bears
  <2> QED BY <2>1, <2>2, <2>3, <2>4, <2>5, RowReplaced DEF Row
<1>9. ASSUME NEW a \in PortalAgents, ScriptWrites(a), users' # users PROVE RowsDistinct' /\ LocksExact'
  <2> DEFINE x == locked[a].account
             y == [users[x] EXCEPT !.portalAgentId = a]
  <2>1. /\ locked[a].by = "script" /\ users' = [users EXCEPT ![x].portalAgentId = a]
        /\ locked' = [locked EXCEPT ![a] = Unlocked]
    BY <1>9 DEF ScriptWrites, Unlocks
  <2>2. locked[a] \in UserLocks /\ x # Nil /\ users[x] # Nil
    BY <2>1 DEF IdentityInv, IdentityTyped, LocksHold, ScriptHolds, Row
  <2>3. x \in Accounts
    BY <2>1, <2>2, LockTyped
  <2>4. users[x] \in UserRows
    BY <1>00, <2>2, <2>3
  <2>5. OfAgent(a) = {}
    BY <2>1 DEF LocksExact, LockExact, OfAgent, Bears, Row, Registered
  <2> HIDE DEF x
  <2>6. /\ y \in UserRows /\ y.portalAgentId = a /\ users' = [users EXCEPT ![x] = y]
        /\ y.key = users[x].key /\ y.entraObjectId = users[x].entraObjectId
    BY <1>0, <2>1, <2>3, <2>4 DEF UserRows
  <2> HIDE DEF y
  <2>7. \A b \in PortalAgents : locked'[b] = Unlocked \/ (locked'[b] = locked[b] /\ y.portalAgentId # b)
    BY <1>0, <2>1, <2>6
  <2> QED BY <2>2, <2>3, <2>5, <2>6, <2>7, RowReplaced DEF Row
<1>10. ASSUME NEW a \in PortalAgents, NEW lock, LockExact(a, lock), UNCHANGED users, locked' = [locked EXCEPT ![a] = lock]
       PROVE  RowsDistinct' /\ LocksExact'
  <2>1. ASSUME NEW b \in PortalAgents PROVE LockExact(b, locked[b])'
    <3>1. \A x \in Accounts : Bears(x, b)' = Bears(x, b)
      BY <1>10 DEF Bears, Row
    <3>2. locked'[b] = IF b = a THEN lock ELSE locked[b]
      BY <1>0, <1>10
    <3>3. LockExact(b, locked'[b])
      BY <1>10, <3>2 DEF LocksExact
    <3> QED BY <3>1, <3>3 DEF LockExact
  <2> QED BY <1>4, <1>10, <2>1 DEF LocksExact
<1>11. \A a \in PortalAgents : LockExact(a, Unlocked)
  BY DEF LockExact, Unlocked
<1>12. ASSUME NEW a \in PortalAgents, PortalFails(a) \/ (ScriptWrites(a) /\ users' = users)
       PROVE  RowsDistinct' /\ LocksExact'
  BY <1>10, <1>11, <1>12 DEF PortalFails, ScriptWrites, Unlocks
<1>13. ASSUME NEW a \in PortalAgents, PortalReads(a) PROVE RowsDistinct' /\ LocksExact'
  <2> DEFINE x == IF OfAgent(a) = {} THEN Nil ELSE CHOOSE z \in OfAgent(a) : TRUE
             d == \E z \in OfAgent(a) : users[z].entraObjectId # Nil \/ users[z].role = "ADMIN"
             lock == [by |-> "portal", account |-> x, detach |-> d, mail |-> Nil]
  <2>1. locked' = [locked EXCEPT ![a] = lock] /\ UNCHANGED users
    BY <1>13 DEF PortalReads
  <2>2. ASSUME NEW y \in Accounts, Bears(y, a) PROVE x = y
    <3>1. y \in OfAgent(a)
      BY <2>2 DEF OfAgent, Bears, Row, Registered
    <3>2. x \in OfAgent(a)
      BY <3>1
    <3> HIDE DEF x
    <3>3. x \in Accounts /\ Row(x) # Nil /\ Row(y) # Nil /\ Row(x).portalAgentId = a /\ Row(y).portalAgentId = a
      BY <3>1, <3>2 DEF OfAgent, Registered, Row
    <3> QED BY <1>00, <3>3 DEF RowsDistinct, KeysApart
  <2> HIDE DEF x, d
  <2>3. LockExact(a, lock)
    BY <2>2 DEF LockExact
  <2> HIDE DEF lock
  <2> QED BY <1>10, <2>1, <2>3
<1>14. ASSUME NEW a \in PortalAgents, NEW x \in Accounts, ScriptReads(a, x) PROVE RowsDistinct' /\ LocksExact'
  <2> DEFINE lock == [by |-> "script", account |-> x, detach |-> FALSE, mail |-> users[x].key]
  <2>1. locked' = [locked EXCEPT ![a] = lock] /\ UNCHANGED users /\ OfAgent(a) = {}
    BY <1>14 DEF ScriptReads
  <2>2. LockExact(a, lock)
    BY <2>1 DEF LockExact, OfAgent, Bears, Row, Registered
  <2> HIDE DEF lock
  <2> QED BY <1>10, <2>1, <2>2
<1> QED BY <1>1, <1>2, <1>3, <1>5, <1>6, <1>7, <1>8, <1>9, <1>12, <1>13, <1>14 DEF IdentityNext

LEMMA KeysStep == IdentityInv /\ KeysInv /\ [IdentityNext]_identityVars => KeysInv'
<1> SUFFICES ASSUME IdentityInv, KeysInv, [IdentityNext]_identityVars PROVE KeysInv'
  OBVIOUS
<1>1. CASE UNCHANGED identityVars
  BY <1>1 DEF identityVars, KeysInv, RowsDistinct, LocksExact, LockExact, Bears, Row
<1>2. CASE IdentityNext
  <2>1. RowsDistinct' /\ LocksExact'
    BY <1>2, KeysStay DEF KeysInv
  <2>2. administration' = administration \/ Administers
    BY <1>2, ZenonT(30) DEF IdentityNext, SignInKnown, SignInLinks, SignInCreates, PortalReads, PortalUpdates,
       PortalCreates, PortalFails, ProvisionUser, ChangeUser, ScriptReads, ScriptWrites
  <2>3. administration' \in 0 .. MaxAdministration
    BY <2>2, IdentityAssumption DEF KeysInv, Administers
  <2> QED BY <2>1, <2>3 DEF KeysInv
<1> QED BY <1>1, <1>2

LEMMA IdentityStarts == IdentityInit => IdentityInv /\ KeysInv
<1>1. IdentityInit => IdentityInv
  BY IdentityAssumption DEF IdentityInit, IdentityInv, IdentityTyped, ActorsKnown, LocksHold, PortalHolds,
     ScriptHolds, UserLocks, Unlocked
<1>2. IdentityInit => KeysInv
  BY IdentityAssumption DEF IdentityInit, KeysInv, RowsDistinct, LocksExact, LockExact, Unlocked, Row
<1> QED BY <1>1, <1>2

\* The rows of the users table keep their types and their unique keys: no
\* two accounts share an address, an agent or an Entra identity, although the
\* portal and the script write under locks that sign-in does not take.
THEOREM IdentityTypeCorrect == IdentitySpec => []IdentityTypeOK
<1>1. ASSUME IdentityInv, KeysInv PROVE IdentityTypeOK
  <2>1. ASSUME NEW x \in Accounts, NEW y \in Accounts, users[x] # Nil, users[y] # Nil, x # y
        PROVE  /\ users[x].key # users[y].key
               /\ users[x].portalAgentId = Nil \/ users[x].portalAgentId # users[y].portalAgentId
               /\ users[x].entraObjectId = Nil \/ users[x].entraObjectId # users[y].entraObjectId
    BY <1>1, <2>1 DEF KeysInv, RowsDistinct, KeysApart, Row
  <2> QED BY <1>1, <2>1 DEF IdentityTypeOK, IdentityInv, IdentityTyped, KeysInv
<1> QED BY <1>1, IdentityStarts, IdentityStep, KeysStep, PTL DEF IdentitySpec

-----------------------------------------------------------------------------
(* Composer: a save that has got through left the window's fields in the   *)
(* row, unless they were typed in or written behind since.                 *)

SaveCalls ==
  [draft : Drafts, version : 1 .. MaxRevision, newer : BOOLEAN,
   outcome : {"pending", "ok"} \cup Failures, answer : {Nothing} \cup CampaignRows]
AiCalls ==
  [at : {"writing", "applying", "choosing"}, version : 1 .. MaxRevision, edited : BOOLEAN,
   answer : {Nothing} \cup CampaignRows]
Demands ==
  [kind : {"recipients", "test", "publish"}, version : 1 .. MaxRevision, answer : {Nothing} \cup CampaignRows]

ComposerTyped ==
  /\ stored \in CampaignRows /\ typed \in 0 .. MaxTyped
  /\ row \in [Windows -> CampaignRows] /\ shown \in [Windows -> Drafts]
  /\ dirty \in [Windows -> BOOLEAN] /\ offered \in [Windows -> BOOLEAN] /\ behind \in [Windows -> BOOLEAN]
  /\ saveState \in [Windows -> {"saved", "saving"} \cup Failures]
  /\ save \in [Windows -> {Nothing} \cup SaveCalls] /\ ai \in [Windows -> {Nothing} \cup AiCalls]
  /\ request \in [Windows -> {Nothing} \cup Demands] /\ refetch \in [Windows -> {Nothing} \cup CampaignRows]

SavedOf(w) ==
  /\ save[w] # Nothing => saveState[w] = "saving"
  /\ save[w] # Nothing /\ save[w].outcome = "ok" =>
       /\ save[w].answer \in CampaignRows
       /\ ~behind[w] /\ ~(dirty[w] /\ save[w].newer) => shown[w] = stored.draft
  /\ save[w] # Nothing /\ dirty[w] /\ ~save[w].newer => shown[w] = save[w].draft
  /\ save[w] = Nothing /\ ~dirty[w] /\ saveState[w] = "saved" /\ ~behind[w] => shown[w] = stored.draft
ComposerInv == ComposerTyped /\ \A w \in Windows : SavedOf(w)

\* A window nothing happens to keeps its promise when the stored draft stays,
\* or is noted to have changed behind it.
LEMMA WindowKept ==
  ASSUME NEW w \in Windows, SavedOf(w), save'[w] = save[w], saveState'[w] = saveState[w],
         dirty'[w] = dirty[w], shown'[w] = shown[w],
         behind'[w] \/ (behind'[w] = behind[w] /\ stored'.draft = stored.draft)
  PROVE  SavedOf(w)'
BY DEF SavedOf

LEMMA TypedAlike == ComposerTyped => ComposerTypeOK
BY DEF ComposerTyped, ComposerTypeOK, SaveCalls, AiCalls, Demands

LEMMA WindowTyped ==
  ASSUME ComposerTyped, NEW w \in Windows
  PROVE  /\ row[w] \in CampaignRows /\ shown[w] \in Drafts
         /\ dirty[w] \in BOOLEAN /\ offered[w] \in BOOLEAN /\ behind[w] \in BOOLEAN
         /\ saveState[w] \in {"saved", "saving"} \cup Failures
         /\ save[w] \in {Nothing} \cup SaveCalls /\ ai[w] \in {Nothing} \cup AiCalls
         /\ request[w] \in {Nothing} \cup Demands /\ refetch[w] \in {Nothing} \cup CampaignRows
BY DEF ComposerTyped

\* What the server writes is a row with the draft it was given.
LEMMA WrittenTyped ==
  ASSUME stored \in CampaignRows, stored.version < MaxRevision, NEW d \in Drafts
  PROVE  Written(d) \in CampaignRows /\ Written(d).draft = d
<1> DEFINE v == stored.version + 1
<1>1. v \in 1 .. MaxRevision /\ 0 \in 0 .. MaxRevision
  BY ComposerAssumption DEF CampaignRows
<1>2. Written(d) = [stored EXCEPT !.version = v, !.draft = d, !.lastTestedVersion = 0]
  BY DEF Written
<1> HIDE DEF v
<1> QED BY <1>1, <1>2 DEF CampaignRows

LEMMA ServedTyped ==
  ASSUME stored \in CampaignRows, NEW kind \in {"recipients", "test", "publish"},
         kind = "recipients" => stored.version < MaxRevision
  PROVE  Served(kind) \in CampaignRows /\ Served(kind).draft = stored.draft
<1>1. CASE kind = "recipients"
  <2>1. stored.draft \in Drafts
    BY DEF CampaignRows
  <2> QED BY <1>1, <2>1, WrittenTyped DEF Served
<1>2. CASE kind = "test"
  <2>1. Served(kind) = [stored EXCEPT !.lastTestedVersion = stored.version]
    BY <1>2 DEF Served
  <2> QED BY <2>1, ComposerAssumption DEF CampaignRows
<1>3. CASE kind = "publish"
  <2>1. Served(kind) = [stored EXCEPT !.status = "SNAPSHOTTING"]
    BY <1>3 DEF Served
  <2> QED BY <2>1 DEF CampaignRows
<1> QED BY <1>1, <1>2, <1>3

LEMMA Types ==
  ASSUME ComposerInv, NEW w \in Windows, NEW d \in Drafts, TypeIn(w, d)
  PROVE  ComposerInv'
<1>1. /\ shown' = [shown EXCEPT ![w] = d] /\ dirty' = [dirty EXCEPT ![w] = TRUE]
      /\ save' = IF save[w] = Nothing THEN save ELSE [save EXCEPT ![w].newer = TRUE]
      /\ ai' = IF ai[w] = Nothing THEN ai ELSE [ai EXCEPT ![w].edited = TRUE]
      /\ typed < MaxTyped /\ typed' = typed + 1
      /\ UNCHANGED <<stored, row, saveState, offered, behind, request, refetch>>
  BY DEF TypeIn
<1>2. ComposerTyped /\ save[w] \in {Nothing} \cup SaveCalls /\ ai[w] \in {Nothing} \cup AiCalls
  BY WindowTyped DEF ComposerInv
<1>3. /\ save' \in [Windows -> {Nothing} \cup SaveCalls]
      /\ \A x \in Windows : x # w => save'[x] = save[x]
      /\ save[w] # Nothing => /\ save'[w].newer = TRUE /\ save'[w].outcome = save[w].outcome
                              /\ save'[w].answer = save[w].answer
      /\ save[w] = Nothing => save'[w] = Nothing
  <2> DEFINE y == [save[w] EXCEPT !.newer = TRUE]
  <2>1. save[w] # Nothing => /\ y \in SaveCalls /\ y.newer = TRUE /\ y.outcome = save[w].outcome
                             /\ y.answer = save[w].answer
    BY <1>2 DEF SaveCalls
  <2>2. save[w] # Nothing => save' = [save EXCEPT ![w] = y]
    BY <1>1, <1>2 DEF ComposerTyped
  <2> HIDE DEF y
  <2> QED BY <1>1, <1>2, <2>1, <2>2 DEF ComposerTyped
<1>4. ai' \in [Windows -> {Nothing} \cup AiCalls]
  <2> DEFINE y == [ai[w] EXCEPT !.edited = TRUE]
  <2>1. ai[w] # Nothing => y \in AiCalls
    BY <1>2 DEF AiCalls
  <2>2. ai[w] # Nothing => ai' = [ai EXCEPT ![w] = y]
    BY <1>1, <1>2 DEF ComposerTyped
  <2> HIDE DEF y
  <2> QED BY <1>1, <1>2, <2>1, <2>2 DEF ComposerTyped
<1>5. ComposerTyped'
  BY <1>1, <1>2, <1>3, <1>4, ComposerAssumption DEF ComposerTyped
<1>6. ASSUME NEW x \in Windows PROVE SavedOf(x)'
  <2>0. SavedOf(x)
    BY DEF ComposerInv
  <2>1. CASE x = w
    BY <1>1, <1>2, <1>3, <2>0, <2>1 DEF SavedOf, ComposerTyped
  <2>2. CASE x # w
    BY <1>1, <1>2, <1>3, <2>0, <2>2, WindowKept DEF ComposerTyped
  <2> QED BY <2>1, <2>2
<1> QED BY <1>5, <1>6 DEF ComposerInv

LEMMA Saves ==
  ASSUME ComposerInv, NEW w \in Windows, StartSave(w)
  PROVE  ComposerInv'
<1> DEFINE y == [draft |-> shown[w], version |-> row[w].version, newer |-> FALSE,
                 outcome |-> "pending", answer |-> Nothing]
<1>1. /\ save' = [save EXCEPT ![w] = y] /\ saveState' = [saveState EXCEPT ![w] = "saving"]
      /\ UNCHANGED <<stored, row, shown, dirty, offered, behind, ai, request, refetch, typed>>
  BY DEF StartSave
<1>2. ComposerTyped /\ row[w] \in CampaignRows /\ shown[w] \in Drafts
  BY WindowTyped DEF ComposerInv
<1>3. y \in SaveCalls /\ y.outcome = "pending" /\ y.draft = shown[w]
  BY <1>2 DEF SaveCalls, CampaignRows
<1> HIDE DEF y
<1>4. ComposerTyped'
  BY <1>1, <1>2, <1>3 DEF ComposerTyped
<1>5. ASSUME NEW x \in Windows PROVE SavedOf(x)'
  <2>0. SavedOf(x)
    BY DEF ComposerInv
  <2>1. CASE x = w
    BY <1>1, <1>2, <1>3, <2>0, <2>1 DEF SavedOf, ComposerTyped
  <2>2. CASE x # w
    BY <1>1, <1>2, <2>0, <2>2, WindowKept DEF ComposerTyped
  <2> QED BY <2>1, <2>2
<1> QED BY <1>4, <1>5 DEF ComposerInv

LEMMA SaveGetsThrough ==
  ASSUME ComposerInv, NEW w \in Windows, SaveReaches(w)
  PROVE  ComposerInv'
<1> DEFINE y == [save[w] EXCEPT !.outcome = "ok", !.answer = stored']
           f == IF save[w].version # stored.version THEN "conflict" ELSE "error"
           z == [save[w] EXCEPT !.outcome = f]
<1>1. /\ save[w] # Nothing /\ save[w].outcome = "pending"
      /\ UNCHANGED <<row, shown, dirty, saveState, offered, ai, request, refetch, typed>>
  BY DEF SaveReaches
<1>2. /\ ComposerTyped /\ save[w] \in SaveCalls /\ stored \in CampaignRows /\ save[w].draft \in Drafts
      /\ save \in [Windows -> {Nothing} \cup SaveCalls] /\ saveState[w] = "saving"
  BY <1>1, WindowTyped DEF ComposerInv, SaveCalls, ComposerTyped, SavedOf
<1>3. CASE Writable(save[w].version)
  <2>1. /\ stored.version < MaxRevision /\ stored' = Written(save[w].draft)
        /\ save' = [save EXCEPT ![w].outcome = "ok", ![w].answer = stored']
        /\ behind' = [x \in Windows |-> x = w => save[w].draft # shown[w] /\ ~dirty[w]]
    BY <1>3 DEF SaveReaches
  <2>2. stored' \in CampaignRows /\ stored'.draft = save[w].draft
    BY <1>2, <2>1, WrittenTyped
  <2>3. /\ y \in SaveCalls /\ y.outcome = "ok" /\ y.answer = stored' /\ y.newer = save[w].newer
        /\ y.draft = save[w].draft
    BY <1>2, <2>2 DEF SaveCalls
  <2>4. save' = [save EXCEPT ![w] = y]
    BY <1>2, <2>1
  <2>5. /\ behind' \in [Windows -> BOOLEAN]
        /\ \A x \in Windows : x # w => behind'[x]
    BY <2>1, Zenon
  <2>6. ~behind'[w] => save[w].draft = shown[w] \/ dirty[w]
    BY <2>1, Zenon
  <2> HIDE DEF y
  <2>7. ComposerTyped'
    BY <1>1, <1>2, <2>2, <2>3, <2>4, <2>5 DEF ComposerTyped
  <2>8. ASSUME NEW x \in Windows PROVE SavedOf(x)'
    <3>0. SavedOf(x)
      BY DEF ComposerInv
    <3>1. CASE x = w
      BY <1>1, <1>2, <2>2, <2>3, <2>4, <2>6, <3>0, <3>1 DEF SavedOf
    <3>2. CASE x # w
      BY <1>1, <1>2, <2>4, <2>5, <3>0, <3>2, WindowKept
    <3> QED BY <3>1, <3>2
  <2> QED BY <2>7, <2>8 DEF ComposerInv
<1>4. CASE ~Writable(save[w].version)
  <2>1. save' = [save EXCEPT ![w].outcome = f] /\ UNCHANGED <<stored, behind>>
    BY <1>4 DEF SaveReaches
  <2>2. f \in Failures
    BY DEF Failures
  <2> HIDE DEF f
  <2>3. /\ z \in SaveCalls /\ z.outcome = f /\ z.outcome # "ok" /\ z.newer = save[w].newer
        /\ z.draft = save[w].draft /\ save' = [save EXCEPT ![w] = z]
    BY <1>2, <2>1, <2>2 DEF SaveCalls, Failures
  <2> HIDE DEF z
  <2>4. ComposerTyped'
    BY <1>1, <1>2, <2>1, <2>3 DEF ComposerTyped
  <2>5. ASSUME NEW x \in Windows PROVE SavedOf(x)'
    <3>0. SavedOf(x)
      BY DEF ComposerInv
    <3>1. CASE x = w
      BY <1>1, <1>2, <2>1, <2>3, <3>0, <3>1 DEF SavedOf
    <3>2. CASE x # w
      BY <1>1, <1>2, <2>1, <2>3, <3>0, <3>2, WindowKept
    <3> QED BY <3>1, <3>2
  <2> QED BY <2>4, <2>5 DEF ComposerInv
<1> QED BY <1>3, <1>4

LEMMA SaveSettles ==
  ASSUME ComposerInv, NEW w \in Windows, SaveAnswered(w) \/ SaveFails(w)
  PROVE  ComposerInv'
<1>1. /\ save' = [save EXCEPT ![w] = Nothing] /\ save[w] # Nothing
      /\ UNCHANGED <<stored, shown, offered, behind, ai, request, refetch, typed>>
  BY DEF SaveAnswered, SaveFails
<1>2. ComposerTyped /\ save[w] \in SaveCalls /\ saveState[w] = "saving" /\ SavedOf(w) /\ save'[w] = Nothing
  BY <1>1, WindowTyped DEF ComposerInv, SavedOf, ComposerTyped
<1>3. CASE SaveAnswered(w)
  <2> DEFINE d == dirty[w] /\ save[w].newer
  <2>1. /\ row' = [row EXCEPT ![w] = save[w].answer] /\ save[w].outcome = "ok"
        /\ saveState' = [saveState EXCEPT ![w] = "saved"]
        /\ dirty' = [dirty EXCEPT ![w] = d]
    BY <1>3 DEF SaveAnswered
  <2>2. save[w].answer \in CampaignRows /\ (~behind[w] /\ ~d => shown[w] = stored.draft)
    BY <1>1, <1>2, <2>1 DEF SavedOf
  <2>3. d \in BOOLEAN
    BY Zenon
  <2> HIDE DEF d
  <2>4. ComposerTyped'
    BY <1>1, <1>2, <2>1, <2>2, <2>3 DEF ComposerTyped
  <2>5. ASSUME NEW x \in Windows PROVE SavedOf(x)'
    <3>0. SavedOf(x)
      BY DEF ComposerInv
    <3>1. CASE x = w
      BY <1>1, <1>2, <2>1, <2>2, <2>3, <3>1 DEF SavedOf, ComposerTyped
    <3>2. CASE x # w
      BY <1>1, <1>2, <2>1, <3>0, <3>2, WindowKept DEF ComposerTyped
    <3> QED BY <3>1, <3>2
  <2> QED BY <2>4, <2>5 DEF ComposerInv
<1>4. CASE SaveFails(w)
  <2>1. PICK f \in Failures : saveState' = [saveState EXCEPT ![w] = f] /\ UNCHANGED <<row, dirty>>
    BY <1>4 DEF SaveFails
  <2>2. f # "saved"
    BY DEF Failures
  <2>3. ComposerTyped'
    BY <1>1, <1>2, <2>1 DEF ComposerTyped
  <2>4. ASSUME NEW x \in Windows PROVE SavedOf(x)'
    <3>0. SavedOf(x)
      BY DEF ComposerInv
    <3>1. CASE x = w
      BY <1>1, <1>2, <2>1, <2>2, <3>1 DEF SavedOf, ComposerTyped
    <3>2. CASE x # w
      BY <1>1, <1>2, <2>1, <3>0, <3>2, WindowKept DEF ComposerTyped
    <3> QED BY <3>1, <3>2
  <2> QED BY <2>3, <2>4 DEF ComposerInv
<1> QED BY <1>3, <1>4

LEMMA Reloads ==
  ASSUME ComposerInv, NEW w \in Windows, Reload(w)
  PROVE  ComposerInv'
<1>1. /\ row' = [row EXCEPT ![w] = stored] /\ shown' = [shown EXCEPT ![w] = stored.draft]
      /\ dirty' = [dirty EXCEPT ![w] = FALSE] /\ saveState' = [saveState EXCEPT ![w] = "saved"]
      /\ offered' = [offered EXCEPT ![w] = FALSE] /\ behind' = [behind EXCEPT ![w] = FALSE]
      /\ save' = [save EXCEPT ![w] = Nothing] /\ ai' = [ai EXCEPT ![w] = Nothing]
      /\ request' = [request EXCEPT ![w] = Nothing] /\ refetch' = [refetch EXCEPT ![w] = Nothing]
      /\ UNCHANGED <<stored, typed>>
  BY DEF Reload
<1>2. ComposerTyped /\ stored.draft \in Drafts
  BY DEF ComposerInv, ComposerTyped, CampaignRows
<1>3. ComposerTyped'
  BY <1>1, <1>2 DEF ComposerTyped
<1>4. ASSUME NEW x \in Windows PROVE SavedOf(x)'
  <2>0. SavedOf(x)
    BY DEF ComposerInv
  <2>1. CASE x = w
    BY <1>1, <1>2, <2>1 DEF SavedOf, ComposerTyped
  <2>2. CASE x # w
    BY <1>1, <1>2, <2>0, <2>2, WindowKept DEF ComposerTyped
  <2> QED BY <2>1, <2>2
<1> QED BY <1>3, <1>4 DEF ComposerInv

\* Nothing a window's promise speaks of changes.
LEMMA FieldsStay ==
  ASSUME ComposerInv, ComposerTyped', UNCHANGED <<shown, dirty, saveState, save>>,
         \A w \in Windows : behind'[w] \/ (behind'[w] = behind[w] /\ stored'.draft = stored.draft)
  PROVE  ComposerInv'
BY WindowKept DEF ComposerInv

LEMMA Refetches ==
  ASSUME ComposerInv, NEW w \in Windows, Refetch(w) \/ RefetchArrives(w)
  PROVE  ComposerInv'
<1>0. ComposerTyped /\ refetch[w] \in {Nothing} \cup CampaignRows
  BY WindowTyped DEF ComposerInv
<1>1. CASE Refetch(w)
  <2>1. refetch' = [refetch EXCEPT ![w] = stored] /\ UNCHANGED <<stored, windowVars, save, ai, request, typed>>
    BY <1>1 DEF Refetch
  <2>2. ComposerTyped'
    BY <1>0, <2>1 DEF ComposerTyped, windowVars
  <2> QED BY <2>1, <2>2, FieldsStay DEF windowVars
<1>2. CASE RefetchArrives(w)
  <2>1. /\ refetch[w] # Nothing /\ row' = [row EXCEPT ![w] = refetch[w]]
        /\ refetch' = [refetch EXCEPT ![w] = Nothing]
        /\ UNCHANGED <<stored, shown, dirty, saveState, offered, behind, save, ai, request, typed>>
    BY <1>2 DEF RefetchArrives
  <2>2. ComposerTyped'
    BY <1>0, <2>1 DEF ComposerTyped
  <2> QED BY <2>1, <2>2, FieldsStay
<1> QED BY <1>1, <1>2

LEMMA AiWrites ==
  ASSUME ComposerInv, NEW w \in Windows, Generate(w) \/ Generated(w) \/ ChooseVariant(w) \/ AiFails(w)
  PROVE  ComposerInv'
<1>1. AiOnly /\ UNCHANGED offered
  BY DEF Generate, Generated, ChooseVariant, AiFails
<1>2. ComposerTyped /\ ai[w] \in {Nothing} \cup AiCalls /\ row[w] \in CampaignRows
  BY WindowTyped DEF ComposerInv
<1>3. ASSUME NEW y \in {Nothing} \cup AiCalls, ai' = [ai EXCEPT ![w] = y]
      PROVE  ComposerInv'
  <2>1. ComposerTyped'
    BY <1>1, <1>2, <1>3 DEF AiOnly, ComposerTyped
  <2> QED BY <1>1, <2>1, FieldsStay DEF AiOnly
<1>4. ASSUME NEW at \in {"writing", "choosing"}, AiCall(w, at) PROVE ComposerInv'
  <2> DEFINE y == [at |-> at, version |-> row[w].version, edited |-> FALSE, answer |-> Nothing]
  <2>1. y \in AiCalls
    BY <1>2 DEF AiCalls, CampaignRows
  <2>2. ai' = [ai EXCEPT ![w] = y]
    BY <1>4 DEF AiCall
  <2> HIDE DEF y
  <2> QED BY <1>3, <2>1, <2>2
<1>5. CASE Generated(w)
  <2> DEFINE y == [ai[w] EXCEPT !.at = "applying"]
  <2>1. ai' = [ai EXCEPT ![w] = Nothing] \/ (ai[w] # Nothing /\ ai' = [ai EXCEPT ![w].at = "applying"])
    BY <1>5 DEF Generated
  <2>2. ai[w] # Nothing => y \in AiCalls
    BY <1>2 DEF AiCalls
  <2>3. ai' = [ai EXCEPT ![w].at = "applying"] => ai' = [ai EXCEPT ![w] = y]
    BY <1>2 DEF ComposerTyped
  <2> HIDE DEF y
  <2> QED BY <1>3, <2>1, <2>2, <2>3
<1> QED BY <1>3, <1>4, <1>5 DEF Generate, ChooseVariant, AiFails

LEMMA AiApplies ==
  ASSUME ComposerInv, NEW w \in Windows, NEW t \in Texts, ApplyReaches(w, t)
  PROVE  ComposerInv'
<1> DEFINE d == [stored.draft EXCEPT !.text = t]
           y == [ai[w] EXCEPT !.answer = stored']
<1>1. /\ ai[w] # Nothing /\ stored.version < MaxRevision /\ stored' = Written(d)
      /\ ai' = [ai EXCEPT ![w].answer = stored'] /\ behind' = [x \in Windows |-> TRUE]
      /\ UNCHANGED <<row, shown, dirty, saveState, offered, save, request, refetch, typed>>
  BY DEF ApplyReaches
<1>2. ComposerTyped /\ ai[w] \in AiCalls /\ stored \in CampaignRows
  BY <1>1, WindowTyped DEF ComposerInv, ComposerTyped
<1>3. d \in Drafts
  BY <1>2 DEF CampaignRows, Drafts
<1> HIDE DEF d
<1>4. stored' \in CampaignRows
  BY <1>1, <1>2, <1>3, WrittenTyped
<1>5. y \in AiCalls
  BY <1>2, <1>4 DEF AiCalls
<1>6. ai' = [ai EXCEPT ![w] = y]
  BY <1>1, <1>2 DEF ComposerTyped
<1> HIDE DEF y
<1>7. ComposerTyped'
  BY <1>1, <1>2, <1>4, <1>5, <1>6 DEF ComposerTyped
<1> QED BY <1>1, <1>7, FieldsStay

LEMMA TextsTakenOver ==
  ASSUME ComposerInv, NEW w \in Windows, Applied(w)
  PROVE  ComposerInv'
<1> DEFINE text == ai[w].answer.draft.text
           d == [shown[w] EXCEPT !.text = text]
           b == shown'[w] # stored.draft
<1>1. /\ ai[w] # Nothing /\ ai[w].answer # Nothing
      /\ row' = [row EXCEPT ![w] = ai[w].answer]
      /\ shown' = [shown EXCEPT ![w].text = text]
      /\ dirty' = [dirty EXCEPT ![w] = FALSE] /\ offered' = [offered EXCEPT ![w] = TRUE]
      /\ behind' = [behind EXCEPT ![w] = b]
      /\ ai' = [ai EXCEPT ![w] = Nothing]
      /\ UNCHANGED <<stored, saveState, save, request, refetch, typed>>
  BY DEF Applied
<1>2. /\ ComposerTyped /\ ai[w] \in AiCalls /\ shown[w] \in Drafts
      /\ save[w] \in {Nothing} \cup SaveCalls
  BY <1>1, WindowTyped DEF ComposerInv
<1>3. ai[w].answer \in CampaignRows
  BY <1>1, <1>2 DEF AiCalls
<1>4. text \in Texts
  BY <1>3 DEF CampaignRows, Drafts
<1> HIDE DEF text
<1>5. d \in Drafts /\ shown' = [shown EXCEPT ![w] = d]
  BY <1>1, <1>2, <1>4 DEF Drafts, ComposerTyped
<1>6. b \in BOOLEAN /\ (~b => shown'[w] = stored.draft)
  BY Zenon
<1> HIDE DEF d, b
<1>7. ComposerTyped'
  BY <1>1, <1>2, <1>3, <1>5, <1>6 DEF ComposerTyped
<1>8. ASSUME NEW x \in Windows PROVE SavedOf(x)'
  <2>0. SavedOf(x)
    BY DEF ComposerInv
  <2>1. CASE x = w
    <3>1. dirty'[x] = FALSE /\ behind'[x] = b /\ (~b => shown'[x] = stored'.draft)
      BY <1>1, <1>2, <1>6, <2>1 DEF ComposerTyped
    <3> QED BY <1>1, <1>6, <2>0, <3>1 DEF SavedOf
  <2>2. CASE x # w
    BY <1>1, <1>2, <1>5, <2>0, <2>2, WindowKept DEF ComposerTyped
  <2> QED BY <2>1, <2>2
<1> QED BY <1>7, <1>8 DEF ComposerInv

LEMMA Demanding ==
  ASSUME ComposerInv, NEW w \in Windows,
         \/ \E kind \in {"recipients", "test", "publish"} : Ask(w, kind)
         \/ RequestReaches(w) \/ RequestAnswered(w) \/ RequestFails(w)
  PROVE  ComposerInv'
<1>1. /\ ComposerTyped /\ request[w] \in {Nothing} \cup Demands /\ row[w] \in CampaignRows
      /\ stored \in CampaignRows
  BY WindowTyped DEF ComposerInv, ComposerTyped
<1>2. ASSUME NEW y \in {Nothing} \cup Demands, request' = [request EXCEPT ![w] = y],
             stored' \in CampaignRows, stored'.draft = stored.draft,
             row' \in [Windows -> CampaignRows], refetch' \in [Windows -> {Nothing} \cup CampaignRows],
             UNCHANGED <<shown, dirty, saveState, offered, behind, save, ai, typed>>
      PROVE  ComposerInv'
  <2>1. ComposerTyped'
    BY <1>1, <1>2 DEF ComposerTyped
  <2> QED BY <1>2, <2>1, FieldsStay
<1>3. ASSUME NEW kind \in {"recipients", "test", "publish"}, Ask(w, kind) PROVE ComposerInv'
  <2> DEFINE y == [kind |-> kind, version |-> row[w].version, answer |-> Nothing]
  <2>1. request' = [request EXCEPT ![w] = y] /\ RequestOnly
    BY <1>3 DEF Ask
  <2>2. y \in Demands
    BY <1>1 DEF Demands, CampaignRows
  <2> HIDE DEF y
  <2> QED BY <1>1, <1>2, <2>1, <2>2 DEF RequestOnly, windowVars, ComposerTyped
<1>4. CASE RequestFails(w)
  BY <1>1, <1>2, <1>4 DEF RequestFails, RequestOnly, windowVars, ComposerTyped
<1>5. CASE RequestReaches(w)
  <2> DEFINE y == [request[w] EXCEPT !.answer = stored']
  <2>1. /\ request[w] # Nothing
        /\ request[w].kind = "recipients" => stored.version < MaxRevision
        /\ stored' = Served(request[w].kind)
        /\ request' = [request EXCEPT ![w].answer = stored']
        /\ UNCHANGED <<windowVars, save, ai, refetch, typed>>
    BY <1>5 DEF RequestReaches
  <2>2. request[w] \in Demands /\ request[w].kind \in {"recipients", "test", "publish"}
    BY <1>1, <2>1 DEF Demands
  <2>3. stored' \in CampaignRows /\ stored'.draft = stored.draft
    BY <1>1, <2>1, <2>2, ServedTyped
  <2>4. y \in Demands
    BY <2>2, <2>3 DEF Demands
  <2>5. request' = [request EXCEPT ![w] = y]
    BY <1>1, <2>1 DEF ComposerTyped
  <2> HIDE DEF y
  <2> QED BY <1>1, <1>2, <2>1, <2>3, <2>4, <2>5 DEF windowVars, ComposerTyped
<1>6. CASE RequestAnswered(w)
  <2>1. /\ request[w] # Nothing /\ request[w].answer # Nothing
        /\ row' = IF request[w].kind = "test" THEN row ELSE [row EXCEPT ![w] = request[w].answer]
        /\ refetch' = IF request[w].kind = "test" THEN [refetch EXCEPT ![w] = stored] ELSE refetch
        /\ request' = [request EXCEPT ![w] = Nothing]
        /\ UNCHANGED <<stored, shown, dirty, saveState, offered, behind, save, ai, typed>>
    BY <1>6 DEF RequestAnswered
  <2>2. request[w].answer \in CampaignRows
    BY <1>1, <2>1 DEF Demands
  <2>3. row' \in [Windows -> CampaignRows]
    BY <1>1, <2>1, <2>2 DEF ComposerTyped
  <2>4. refetch' \in [Windows -> {Nothing} \cup CampaignRows]
    BY <1>1, <2>1 DEF ComposerTyped
  <2> QED BY <1>1, <1>2, <2>1, <2>3, <2>4
<1> QED BY <1>3, <1>4, <1>5, <1>6

LEMMA EditedElsewhere ==
  ASSUME ComposerInv, NEW d \in Drafts, EditElsewhere(d)
  PROVE  ComposerInv'
<1>1. /\ stored.version < MaxRevision /\ stored' = Written(d) /\ behind' = [x \in Windows |-> TRUE]
      /\ UNCHANGED <<row, shown, dirty, saveState, offered, callVars, typed>>
  BY DEF EditElsewhere
<1>2. ComposerTyped /\ stored' \in CampaignRows
  BY <1>1, WrittenTyped DEF ComposerInv, ComposerTyped
<1>3. ComposerTyped'
  BY <1>1, <1>2 DEF ComposerTyped, callVars
<1> QED BY <1>1, <1>3, FieldsStay DEF callVars

LEMMA ComposerStep == ComposerInv /\ [ComposerNext]_composerVars => ComposerInv'
<1> SUFFICES ASSUME ComposerInv, [ComposerNext]_composerVars PROVE ComposerInv'
  OBVIOUS
<1>1. CASE UNCHANGED composerVars
  <2>1. ComposerTyped'
    BY <1>1 DEF composerVars, windowVars, callVars, ComposerInv, ComposerTyped
  <2> QED BY <1>1, <2>1, FieldsStay DEF composerVars, windowVars, callVars
<1>2. CASE ComposerNext
  BY <1>2, Types, Refetches, Reloads, Saves, SaveGetsThrough, SaveSettles, AiWrites, AiApplies,
     TextsTakenOver, Demanding, EditedElsewhere DEF ComposerNext
<1> QED BY <1>1, <1>2

LEMMA ComposerStarts == ComposerInit => ComposerInv
<1> SUFFICES ASSUME ComposerInit PROVE ComposerInv
  OBVIOUS
<1>1. PICK d \in Drafts : stored = [version |-> 1, draft |-> d, status |-> "DRAFT", lastTestedVersion |-> 0]
  BY DEF ComposerInit
<1>2. 1 \in 1 .. MaxRevision /\ 0 \in 0 .. MaxRevision /\ 0 \in 0 .. MaxTyped
  BY ComposerAssumption
<1>3. stored \in CampaignRows /\ stored.draft \in Drafts
  BY <1>1, <1>2 DEF CampaignRows
<1>4. ComposerTyped
  BY <1>2, <1>3 DEF ComposerInit, ComposerTyped
<1>5. \A w \in Windows : SavedOf(w)
  BY DEF ComposerInit, SavedOf
<1> QED BY <1>4, <1>5 DEF ComposerInv

\* The rows, the fields and what each window waits for are of their types,
\* the version within its bound (the editor's state, If-Match).
THEOREM ComposerTypeCorrect == ComposerSpec => []ComposerTypeOK
<1>1. ComposerInv => ComposerTypeOK
  BY TypedAlike DEF ComposerInv
<1> QED BY <1>1, ComposerStarts, ComposerStep, PTL DEF ComposerSpec

\* A window that says "Saved" shows what is stored, whatever of its own answers
\* were late, stale or lost, unless another window or an applied AI text wrote
\* behind its fields since it last saved them (useCampaignComposer.ts: there the
\* code says "Saved" over a row that differs): for any number of windows,
\* drafts and edits.
THEOREM SavedIsStored == ComposerSpec => []SavedMeansStored
<1>1. ComposerInv => SavedMeansStored
  BY DEF ComposerInv, SavedOf, SavedMeansStored
<1> QED BY <1>1, ComposerStarts, ComposerStep, PTL DEF ComposerSpec

-----------------------------------------------------------------------------
(* CampaignStats: a fact that is not counted yet has a count coming that    *)
(* does not depend on the event that brought it.                           *)

IsReduction(x) ==
  x = Resting \/ (x = Reduction(x.at, x.kind, x.bucket, x.seen) /\ x.at # "rest" /\ x.bucket \in Buckets)
IsRecomputation(x) ==
  x = Resting \/ (x = [at |-> x.at, bucket |-> x.bucket, seen |-> x.seen] /\ x.at # "rest" /\ x.bucket \in Buckets)
StatsTyped ==
  /\ reducing = [w \in Reducers |-> reducing[w]] /\ \A w \in Reducers : IsReduction(reducing[w])
  /\ recomputing = [w \in Recomputers |-> recomputing[w]]
  /\ \A w \in Recomputers : IsRecomputation(recomputing[w])
  /\ recompute \in [Buckets -> {"absent", "waiting", "running", "completed"}]
  /\ bucketNow \in Buckets

\* The counts that nothing but a later count stands behind are a batch's.
Counts(x) == x.at = "read" \/ (x.at = "write" /\ x.seen = facts)
WillCount ==
  \/ \E w \in Reducers : Counts(reducing[w]) /\ reducing[w].kind = "accepted"
  \/ \E w \in Recomputers : Counts(recomputing[w])
  \/ \E b \in Buckets : recompute[b] = "waiting"
JobsHeld ==
  /\ \A w \in Recomputers : recomputing[w] # Resting => recompute[recomputing[w].bucket] = "running"
  /\ \A v, w \in Recomputers : v # w /\ recomputing[v] # Resting /\ recomputing[w] # Resting =>
       recomputing[v].bucket # recomputing[w].bucket
Counting ==
  ~uncovered => WillCount \/ ((overtaken \/ counted = facts) /\ (Exceeded(facts) => guarded))
StatsInv == StatsTyped /\ JobsHeld /\ Counting

\* A step that brings no fact and writes no count, and takes no count away.
LEMMA CountStays ==
  ASSUME StatsInv, StatsTyped', JobsHeld', UNCHANGED <<facts, counted, overtaken, guarded>>,
         ~uncovered' => ~uncovered /\ (WillCount => WillCount')
  PROVE  StatsInv'
BY DEF StatsInv, Counting, Exceeded

\* A count that saw everything settles the numbers and the guard; one that did
\* not leaves them to the count that is coming.
LEMMA CountWritten ==
  ASSUME StatsInv, StatsTyped', JobsHeld', NEW seen, WriteSeen(seen),
         seen # facts /\ WillCount => WillCount'
  PROVE  StatsInv'
<1> DEFINE u == uncovered /\ seen # facts
           o == seen # facts /\ (overtaken \/ counted = facts)
<1>1. /\ counted' = seen /\ uncovered' = u /\ overtaken' = o /\ facts' = facts
      /\ Exceeded(seen) => guarded' = TRUE
      /\ ~Exceeded(seen) => guarded' = guarded
  BY DEF WriteSeen
<1>2. u \in BOOLEAN /\ o \in BOOLEAN
  BY Zenon
<1>3. seen # facts /\ ~u => ~uncovered
  OBVIOUS
<1>4. seen # facts => (o <=> overtaken \/ counted = facts)
  OBVIOUS
<1>5. Exceeded(facts)' <=> Exceeded(facts)
  BY <1>1 DEF Exceeded
<1> HIDE DEF u, o
<1>6. ASSUME ~uncovered'
      PROVE  WillCount' \/ ((overtaken' \/ counted' = facts') /\ (Exceeded(facts)' => guarded'))
  <2>1. CASE seen = facts
    BY <1>1, <1>5, <2>1
  <2>2. CASE seen # facts
    <3>1. ~uncovered
      BY <1>1, <1>3, <1>6, <2>2
    <3>2. CASE WillCount
      BY <2>2, <3>2
    <3>3. CASE (overtaken \/ counted = facts) /\ (Exceeded(facts) => guarded)
      BY <1>1, <1>4, <1>5, <2>2, <3>3
    <3> QED BY <3>1, <3>2, <3>3 DEF StatsInv, Counting
  <2> QED BY <2>1, <2>2
<1> QED BY <1>6 DEF StatsInv, Counting

\* What is coming stays when one reducer, whose count nobody relies on, moves.
LEMMA OthersCount ==
  ASSUME StatsInv, NEW w \in Reducers, UNCHANGED <<facts, recompute, recomputing>>,
         \A v \in Reducers : v # w => reducing'[v] = reducing[v],
         Counts(reducing[w]) /\ reducing[w].kind = "accepted" =>
           Counts(reducing[w])' /\ reducing'[w].kind = "accepted",
         WillCount
  PROVE  WillCount'
BY DEF WillCount, Counts

LEMMA ReducerMoves ==
  ASSUME StatsInv, NEW w \in Reducers, NEW y, IsReduction(y), reducing' = [reducing EXCEPT ![w] = y],
         UNCHANGED <<recompute, recomputing, bucketNow>>
  PROVE  /\ StatsTyped' /\ JobsHeld' /\ reducing'[w] = y
         /\ \A v \in Reducers : v # w => reducing'[v] = reducing[v]
<1>1. reducing'[w] = y /\ \A v \in Reducers : v # w => reducing'[v] = reducing[v]
  BY DEF StatsInv, StatsTyped
<1>2. reducing' = [v \in Reducers |-> reducing'[v]]
  <2>1. reducing = [v \in Reducers |-> reducing[v]]
    BY DEF StatsInv, StatsTyped
  <2> QED BY <2>1
<1>3. \A v \in Reducers : IsReduction(reducing'[v])
  BY <1>1 DEF StatsInv, StatsTyped
<1>4. StatsTyped'
  BY <1>2, <1>3 DEF StatsInv, StatsTyped
<1>5. JobsHeld'
  BY DEF StatsInv, JobsHeld
<1> QED BY <1>1, <1>4, <1>5

LEMMA RestingIs == IsReduction(Resting) /\ IsRecomputation(Resting) /\ Resting.at = "rest"
BY DEF IsReduction, IsRecomputation, Resting

LEMMA ReductionIs ==
  ASSUME NEW x, IsReduction(x), x.at # "rest"
  PROVE  /\ x.bucket \in Buckets /\ x = Reduction(x.at, x.kind, x.bucket, x.seen)
         /\ \A at, seen : at # "rest" => IsReduction(Reduction(at, x.kind, x.bucket, seen))
<1>1. x.bucket \in Buckets /\ x = Reduction(x.at, x.kind, x.bucket, x.seen)
  BY RestingIs DEF IsReduction
<1>2. ASSUME NEW at, NEW seen, at # "rest" PROVE IsReduction(Reduction(at, x.kind, x.bucket, seen))
  BY <1>1, <1>2 DEF IsReduction, Reduction
<1> QED BY <1>1, <1>2

LEMMA Snapshot ==
  ASSUME StatsInv, NEW w \in Reducers, reducing[w].at # "rest",
         reducing' = [reducing EXCEPT ![w].at = "write", ![w].seen = facts]
  PROVE  \E y : /\ reducing' = [reducing EXCEPT ![w] = y] /\ IsReduction(y)
                /\ y.at = "write" /\ y.seen = facts /\ y.kind = reducing[w].kind
<1>1. IsReduction(reducing[w]) /\ reducing = [v \in Reducers |-> reducing[v]]
  BY DEF StatsInv, StatsTyped
<1>2. PICK a, k, b, s : reducing[w] = Reduction(a, k, b, s) /\ b \in Buckets
  BY <1>1, ReductionIs
<1> DEFINE y == Reduction("write", k, b, facts)
<1>3. reducing' = [reducing EXCEPT ![w] = y]
  <2>1. [reducing[w] EXCEPT !.at = "write"] = Reduction("write", k, b, s)
    BY <1>2 DEF Reduction
  <2>2. [Reduction("write", k, b, s) EXCEPT !.seen = facts] = y
    BY DEF Reduction
  <2> DEFINE f == [reducing EXCEPT ![w].at = "write"]
  <2>3. f = [reducing EXCEPT ![w] = Reduction("write", k, b, s)]
    BY <1>1, <2>1
  <2>4. reducing' = [f EXCEPT ![w].seen = facts]
    OBVIOUS
  <2> HIDE DEF f
  <2>5. f[w] = Reduction("write", k, b, s)
    BY <1>1, <2>3
  <2>6. reducing' = [f EXCEPT ![w] = y]
    BY <2>2, <2>4, <2>5
  <2> QED BY <1>1, <2>3, <2>6
<1>4. IsReduction(y) /\ y.at = "write" /\ y.seen = facts /\ y.kind = reducing[w].kind
  BY <1>2 DEF Reduction, IsReduction
<1> QED BY <1>3, <1>4

LEMMA EventSteps ==
  ASSUME StatsInv, NEW w \in Reducers,
         (\E kind \in {"bounced", "clicked"} : OpenEvent(w, kind)) \/ AbortEvent(w)
           \/ ReadNow(w) \/ WriteNow(w) \/ CountFails(w)
  PROVE  StatsInv'
<1>1. IsReduction(reducing[w]) /\ bucketNow \in Buckets /\ reducing = [v \in Reducers |-> reducing[v]]
  BY DEF StatsInv, StatsTyped
<1>2. ASSUME NEW kind \in {"bounced", "clicked"}, OpenEvent(w, kind) PROVE StatsInv'
  <2> DEFINE y == Reduction("open", kind, bucketNow, NoSnapshot)
  <2>1. /\ reducing[w] = Resting /\ reducing' = [reducing EXCEPT ![w] = y]
        /\ UNCHANGED <<facts, counted, recompute, bucketNow, recomputing, uncovered, overtaken, guarded>>
    BY <1>2 DEF OpenEvent
  <2>2. IsReduction(y)
    BY <1>1 DEF IsReduction, Reduction
  <2> HIDE DEF y
  <2>3. /\ StatsTyped' /\ JobsHeld' /\ reducing'[w] = y
        /\ \A v \in Reducers : v # w => reducing'[v] = reducing[v]
    BY <2>1, <2>2, ReducerMoves
  <2>4. WillCount => WillCount'
    BY <2>1, <2>3, OthersCount, RestingIs DEF Counts
  <2> QED BY <2>1, <2>3, <2>4, CountStays
<1>3. CASE AbortEvent(w) \/ CountFails(w)
  <2>1. /\ reducing' = [reducing EXCEPT ![w] = Resting]
        /\ UNCHANGED <<facts, counted, recompute, bucketNow, recomputing, overtaken, guarded>>
        /\ ~uncovered' => ~uncovered /\ (reducing[w].at = "open" \/ reducing[w].kind # "accepted")
    <3>1. CASE AbortEvent(w)
      BY <3>1 DEF AbortEvent
    <3>2. CASE CountFails(w)
      <4>1. ~uncovered' => ~uncovered /\ reducing[w].kind # "accepted"
        BY <3>2, Zenon DEF CountFails
      <4> QED BY <3>2, <4>1 DEF CountFails
    <3> QED BY <1>3, <3>1, <3>2
  <2>3. /\ StatsTyped' /\ JobsHeld' /\ reducing'[w] = Resting
        /\ \A v \in Reducers : v # w => reducing'[v] = reducing[v]
    BY <2>1, ReducerMoves, RestingIs
  <2>4. ASSUME ~uncovered' PROVE WillCount => WillCount'
    BY <2>1, <2>3, <2>4, OthersCount DEF Counts
  <2> QED BY <2>1, <2>3, <2>4, CountStays
<1>4. CASE ReadNow(w)
  <2>1. /\ reducing[w].at = "read" /\ reducing[w].at # "rest"
        /\ reducing' = [reducing EXCEPT ![w].at = "write", ![w].seen = facts]
        /\ UNCHANGED <<facts, counted, recompute, bucketNow, recomputing, uncovered, overtaken, guarded>>
    BY <1>4 DEF ReadNow
  <2>2. PICK y : /\ reducing' = [reducing EXCEPT ![w] = y] /\ IsReduction(y)
                 /\ y.at = "write" /\ y.seen = facts /\ y.kind = reducing[w].kind
    BY <2>1, Snapshot, Zenon
  <2>6. /\ StatsTyped' /\ JobsHeld' /\ reducing'[w] = y
        /\ \A v \in Reducers : v # w => reducing'[v] = reducing[v]
    BY <2>1, <2>2, ReducerMoves
  <2>7. WillCount => WillCount'
    BY <2>1, <2>2, <2>6, OthersCount DEF Counts
  <2> QED BY <2>1, <2>6, <2>7, CountStays
<1>5. CASE WriteNow(w)
  <2>1. /\ reducing[w].at = "write" /\ WriteSeen(reducing[w].seen)
        /\ reducing' = [reducing EXCEPT ![w] = Resting] /\ UNCHANGED <<recompute, recomputing, facts, bucketNow>>
    BY <1>5 DEF WriteNow, WriteSeen
  <2>2. /\ StatsTyped' /\ JobsHeld' /\ reducing'[w] = Resting
        /\ \A v \in Reducers : v # w => reducing'[v] = reducing[v]
    BY <2>1, ReducerMoves, RestingIs
  <2>3. reducing[w].seen # facts /\ WillCount => WillCount'
    BY <2>1, <2>2, OthersCount DEF Counts
  <2> QED BY <2>1, <2>2, <2>3, CountWritten
<1> QED BY <1>2, <1>3, <1>4, <1>5

\* A fact arrives with its count.
LEMMA FactArrives ==
  ASSUME StatsInv, StatsTyped', JobsHeld', ~uncovered' => WillCount'
  PROVE  StatsInv'
BY DEF StatsInv, Counting

LEMMA FactSteps ==
  ASSUME StatsInv, NEW w \in Reducers, CommitEvent(w) \/ BatchAccepted(w)
  PROVE  StatsInv'
<1>1. /\ IsReduction(reducing[w]) /\ bucketNow \in Buckets /\ reducing = [v \in Reducers |-> reducing[v]]
      /\ recompute \in [Buckets -> {"absent", "waiting", "running", "completed"}]
  BY DEF StatsInv, StatsTyped
<1>2. CASE BatchAccepted(w)
  <2> DEFINE y == Reduction("read", "accepted", bucketNow, NoSnapshot)
  <2>1. reducing' = [reducing EXCEPT ![w] = y] /\ UNCHANGED <<recompute, recomputing, bucketNow>>
    BY <1>2 DEF BatchAccepted
  <2>2. IsReduction(y) /\ y.at = "read" /\ y.kind = "accepted"
    BY <1>1 DEF IsReduction, Reduction
  <2> HIDE DEF y
  <2>3. StatsTyped' /\ JobsHeld' /\ reducing'[w] = y
    BY <2>1, <2>2, ReducerMoves
  <2>4. WillCount'
    BY <2>2, <2>3 DEF WillCount, Counts
  <2> QED BY <2>3, <2>4, FactArrives
<1>3. CASE CommitEvent(w)
  <2> DEFINE x == reducing[w]
             b == x.bucket
             y == IF Immediate(x.kind) THEN [x EXCEPT !.at = "read"] ELSE Resting
             s == IF recompute[b] = "absent" THEN "waiting" ELSE recompute[b]
  <2>1. /\ x.at = "open" /\ Armed(b) /\ ThenRecompute(w)
        /\ uncovered' = (uncovered \/ recompute[b] \in {"running", "completed"})
        /\ UNCHANGED <<recomputing, bucketNow>>
    BY <1>3 DEF CommitEvent
  <2>2. b \in Buckets /\ x = Reduction(x.at, x.kind, x.bucket, x.seen)
    BY <1>1, <2>1, ReductionIs
  <2>3. reducing' = [reducing EXCEPT ![w] = y]
    BY <1>1, <2>1 DEF ThenRecompute
  <2>4. IsReduction(y)
    <3>1. [x EXCEPT !.at = "read"] = Reduction("read", x.kind, x.bucket, x.seen)
      BY <2>2 DEF Reduction
    <3>2. IsReduction(Reduction("read", x.kind, x.bucket, x.seen))
      BY <1>1, <2>1, ReductionIs
    <3> QED BY <3>1, <3>2, RestingIs
  <2>5. recompute' = [recompute EXCEPT ![b] = s] /\ s \in {"waiting", "running", "completed"}
    BY <1>1, <2>1, <2>2 DEF Armed
  <2>6. s = "running" \/ s = "completed" => uncovered'
    BY <2>1
  <2>7. recompute[b] = "running" => s = "running"
    OBVIOUS
  <2> HIDE DEF x, b, y, s
  <2>8. StatsTyped'
    <3>1. reducing' = [v \in Reducers |-> reducing'[v]] /\ \A v \in Reducers : IsReduction(reducing'[v])
      <4>1. \A v \in Reducers : reducing'[v] = IF v = w THEN y ELSE reducing[v]
        BY <1>1, <2>3
      <4>2. \A v \in Reducers : IsReduction(reducing'[v])
        BY <2>4, <4>1 DEF StatsInv, StatsTyped
      <4>3. reducing' = [v \in Reducers |-> reducing'[v]]
        BY <1>1, <2>3
      <4> QED BY <4>2, <4>3
    <3>2. recompute' \in [Buckets -> {"absent", "waiting", "running", "completed"}]
      BY <1>1, <2>5
    <3> QED BY <2>1, <3>1, <3>2 DEF StatsInv, StatsTyped
  <2>9. JobsHeld'
    <3>1. \A c \in Buckets : recompute[c] = "running" => recompute'[c] = "running"
      BY <1>1, <2>5, <2>7
    <3>2. \A v \in Recomputers : recomputing[v] # Resting => recomputing[v].bucket \in Buckets
      BY DEF StatsInv, StatsTyped, IsRecomputation
    <3> QED BY <2>1, <3>1, <3>2 DEF StatsInv, JobsHeld
  <2>10. ASSUME ~uncovered' PROVE WillCount'
    <3>1. recompute'[b] = "waiting"
      BY <1>1, <2>2, <2>5, <2>6, <2>10
    <3> QED BY <2>2, <3>1 DEF WillCount
  <2> QED BY <2>8, <2>9, <2>10, FactArrives
<1> QED BY <1>2, <1>3

-----------------------------------------------------------------------------
(* The recomputers: each holds the running job of a bucket of its own.     *)

JobStates == {"absent", "waiting", "running", "completed"}

LEMMA RecomputerMoves ==
  ASSUME StatsInv, NEW w \in Recomputers, NEW y, IsRecomputation(y),
         recomputing' = [recomputing EXCEPT ![w] = y], UNCHANGED <<reducing, bucketNow>>,
         recompute' \in [Buckets -> JobStates],
         \A b \in Buckets : recompute[b] = "running" /\ (recomputing[w] = Resting \/ b # recomputing[w].bucket) =>
           recompute'[b] = "running",
         y # Resting =>
           /\ recompute'[y.bucket] = "running"
           /\ \A v \in Recomputers : v # w /\ recomputing[v] # Resting => recomputing[v].bucket # y.bucket
  PROVE  /\ StatsTyped' /\ JobsHeld' /\ recomputing'[w] = y
         /\ \A v \in Recomputers : v # w => recomputing'[v] = recomputing[v]
<1>1. recomputing = [v \in Recomputers |-> recomputing[v]]
  BY DEF StatsInv, StatsTyped
<1>2. recomputing'[w] = y /\ \A v \in Recomputers : v # w => recomputing'[v] = recomputing[v]
  BY <1>1
<1>3. recomputing' = [v \in Recomputers |-> recomputing'[v]]
  BY <1>1
<1>4. \A v \in Recomputers : IsRecomputation(recomputing'[v])
  BY <1>2 DEF StatsInv, StatsTyped
<1>5. StatsTyped'
  BY <1>3, <1>4 DEF StatsInv, StatsTyped, JobStates
<1>6. \A v \in Recomputers : recomputing[v] # Resting => recomputing[v].bucket \in Buckets
  BY DEF StatsInv, StatsTyped, IsRecomputation
<1>7. \A v \in Recomputers : recomputing'[v] # Resting => recompute'[recomputing'[v].bucket] = "running"
  <2>1. ASSUME NEW v \in Recomputers, v # w, recomputing[v] # Resting
        PROVE  recompute'[recomputing[v].bucket] = "running"
    BY <1>6, <2>1 DEF StatsInv, JobsHeld
  <2> QED BY <1>2, <2>1
<1>8. \A u, v \in Recomputers : u # v /\ recomputing'[u] # Resting /\ recomputing'[v] # Resting =>
        recomputing'[u].bucket # recomputing'[v].bucket
  BY <1>2 DEF StatsInv, JobsHeld
<1>9. JobsHeld'
  BY <1>7, <1>8 DEF JobsHeld
<1> QED BY <1>2, <1>5, <1>9

LEMMA RecomputationIs ==
  ASSUME NEW x, IsRecomputation(x), x.at # "rest"
  PROVE  \E a, b, s : x = [at |-> a, bucket |-> b, seen |-> s] /\ b \in Buckets
BY RestingIs DEF IsRecomputation

LEMMA RunRecomputeCounts ==
  ASSUME StatsInv, NEW w \in Recomputers, NEW b \in Buckets, RunRecompute(w, b)
  PROVE  StatsInv'
<1> DEFINE y == [at |-> "read", bucket |-> b, seen |-> NoSnapshot]
<1>1. /\ recomputing[w] = Resting /\ recompute[b] = "waiting"
      /\ recompute' = [recompute EXCEPT ![b] = "running"] /\ recomputing' = [recomputing EXCEPT ![w] = y]
      /\ UNCHANGED <<facts, counted, bucketNow, reducing, uncovered, overtaken, guarded>>
  BY DEF RunRecompute
<1>2. recompute \in [Buckets -> JobStates]
  BY DEF StatsInv, StatsTyped, JobStates
<1>3. recompute' \in [Buckets -> JobStates] /\ \A c \in Buckets : recompute[c] = "running" => recompute'[c] = "running"
  BY <1>1, <1>2 DEF JobStates
<1>4. recompute'[b] = "running"
  BY <1>1, <1>2
<1>5. y.at = "read" /\ y.bucket = b /\ IsRecomputation(y)
  BY DEF IsRecomputation
<1>6. \A v \in Recomputers : v # w /\ recomputing[v] # Resting => recomputing[v].bucket # b
  BY <1>1 DEF StatsInv, JobsHeld
<1> HIDE DEF y
<1>7. StatsTyped' /\ JobsHeld' /\ recomputing'[w] = y
  <2>1. y # Resting =>
          /\ recompute'[y.bucket] = "running"
          /\ \A v \in Recomputers : v # w /\ recomputing[v] # Resting => recomputing[v].bucket # y.bucket
    BY <1>4, <1>5, <1>6
  <2>2. \A c \in Buckets : recompute[c] = "running" /\ (recomputing[w] = Resting \/ c # recomputing[w].bucket) =>
          recompute'[c] = "running"
    BY <1>3
  <2>3. UNCHANGED <<reducing, bucketNow>> /\ recompute' \in [Buckets -> JobStates]
        /\ IsRecomputation(y) /\ recomputing' = [recomputing EXCEPT ![w] = y]
    BY <1>1, <1>3, <1>5
  <2> QED BY <2>1, <2>2, <2>3, RecomputerMoves, Zenon
<1>8. WillCount'
  BY <1>5, <1>7 DEF WillCount, Counts
<1> QED BY <1>1, <1>7, <1>8, CountStays

LEMMA ReadFactsCounts ==
  ASSUME StatsInv, NEW w \in Recomputers, ReadFacts(w)
  PROVE  StatsInv'
<1>1. /\ recomputing[w].at = "read" /\ recomputing[w] # Resting
      /\ recomputing' = [recomputing EXCEPT ![w].at = "write", ![w].seen = facts]
      /\ UNCHANGED <<facts, counted, bucketNow, reducing, recompute, uncovered, overtaken, guarded>>
  BY RestingIs DEF ReadFacts
<1>2. IsRecomputation(recomputing[w]) /\ recomputing = [v \in Recomputers |-> recomputing[v]]
  BY DEF StatsInv, StatsTyped
<1>3. PICK a, b, s : recomputing[w] = [at |-> a, bucket |-> b, seen |-> s] /\ b \in Buckets
  BY <1>1, <1>2, RecomputationIs
<1> DEFINE y == [at |-> "write", bucket |-> b, seen |-> facts]
<1>4. recomputing' = [recomputing EXCEPT ![w] = y]
  <2> DEFINE z == [at |-> "write", bucket |-> b, seen |-> s]
             f == [recomputing EXCEPT ![w].at = "write"]
  <2>1. [recomputing[w] EXCEPT !.at = "write"] = z
    BY <1>3
  <2>2. [z EXCEPT !.seen = facts] = y
    OBVIOUS
  <2>3. f = [recomputing EXCEPT ![w] = z]
    BY <1>2, <2>1
  <2>4. recomputing' = [f EXCEPT ![w].seen = facts]
    BY <1>1
  <2> HIDE DEF f, z
  <2>5. f[w] = z
    BY <1>2, <2>3
  <2>6. recomputing' = [f EXCEPT ![w] = y]
    BY <2>2, <2>4, <2>5
  <2> QED BY <1>2, <2>3, <2>6
<1>5. y.at = "write" /\ y.bucket = b /\ y.seen = facts /\ IsRecomputation(y)
  BY <1>3 DEF IsRecomputation
<1>6. recomputing[w].bucket = b
  BY <1>3
<1> HIDE DEF y
<1>7. /\ recompute[b] = "running"
      /\ \A v \in Recomputers : v # w /\ recomputing[v] # Resting => recomputing[v].bucket # b
  BY <1>1, <1>6 DEF StatsInv, JobsHeld
<1>8. recompute' \in [Buckets -> JobStates]
  BY <1>1 DEF StatsInv, StatsTyped, JobStates
<1>9. StatsTyped' /\ JobsHeld' /\ recomputing'[w] = y
  <2>1. y # Resting =>
          /\ recompute'[y.bucket] = "running"
          /\ \A v \in Recomputers : v # w /\ recomputing[v] # Resting => recomputing[v].bucket # y.bucket
    BY <1>1, <1>5, <1>7
  <2>2. \A c \in Buckets : recompute[c] = "running" /\ (recomputing[w] = Resting \/ c # recomputing[w].bucket) =>
          recompute'[c] = "running"
    BY <1>1
  <2>3. UNCHANGED <<reducing, bucketNow>>
        /\ IsRecomputation(y) /\ recomputing' = [recomputing EXCEPT ![w] = y]
    BY <1>1, <1>4, <1>5
  <2> QED BY <1>8, <2>1, <2>2, <2>3, RecomputerMoves, Zenon
<1>10. WillCount'
  BY <1>1, <1>5, <1>9 DEF WillCount, Counts
<1> QED BY <1>1, <1>9, <1>10, CountStays

LEMMA WriteStatsCounts ==
  ASSUME StatsInv, NEW w \in Recomputers, WriteStats(w)
  PROVE  StatsInv'
<1>1. /\ recomputing[w].at = "write" /\ recomputing[w] # Resting /\ WriteSeen(recomputing[w].seen)
      /\ recomputing' = [recomputing EXCEPT ![w].at = "settle"]
      /\ UNCHANGED <<facts, bucketNow, reducing, recompute>>
  BY RestingIs DEF WriteStats, WriteSeen
<1>2. IsRecomputation(recomputing[w]) /\ recomputing = [v \in Recomputers |-> recomputing[v]]
  BY DEF StatsInv, StatsTyped
<1>3. PICK a, b, s : recomputing[w] = [at |-> a, bucket |-> b, seen |-> s] /\ b \in Buckets
  BY <1>1, <1>2, RecomputationIs
<1> DEFINE y == [at |-> "settle", bucket |-> b, seen |-> s]
<1>4. recomputing' = [recomputing EXCEPT ![w] = y]
  <2>1. [recomputing[w] EXCEPT !.at = "settle"] = y
    BY <1>3
  <2> QED BY <1>1, <1>2, <2>1
<1>5. y.bucket = b /\ IsRecomputation(y)
  BY <1>3 DEF IsRecomputation
<1>6. recomputing[w].bucket = b
  BY <1>3
<1> HIDE DEF y
<1>7. /\ recompute[b] = "running"
      /\ \A v \in Recomputers : v # w /\ recomputing[v] # Resting => recomputing[v].bucket # b
  BY <1>1, <1>6 DEF StatsInv, JobsHeld
<1>8. recompute' \in [Buckets -> JobStates]
  BY <1>1 DEF StatsInv, StatsTyped, JobStates
<1>9. /\ StatsTyped' /\ JobsHeld'
      /\ \A v \in Recomputers : v # w => recomputing'[v] = recomputing[v]
  BY <1>1, <1>4, <1>5, <1>7, <1>8, RecomputerMoves, ZenonT(60)
<1>10. recomputing[w].seen # facts /\ WillCount => WillCount'
  BY <1>1, <1>9 DEF WillCount, Counts
<1> QED BY <1>1, <1>9, <1>10, CountWritten

LEMMA JobLeft ==
  ASSUME StatsInv, NEW w \in Recomputers, recomputing[w] # Resting, NEW s \in {"completed", "waiting"},
         recompute' = [recompute EXCEPT ![recomputing[w].bucket] = s],
         recomputing' = [recomputing EXCEPT ![w] = Resting], UNCHANGED <<reducing, bucketNow>>
  PROVE  /\ StatsTyped' /\ JobsHeld'
         /\ recomputing[w].bucket \in Buckets /\ recompute'[recomputing[w].bucket] = s
         /\ \A v \in Recomputers : v # w => recomputing'[v] = recomputing[v]
         /\ \A b \in Buckets : recompute[b] = "waiting" => recompute'[b] = "waiting"
<1>1. recomputing[w].bucket \in Buckets /\ recompute[recomputing[w].bucket] = "running"
  BY DEF StatsInv, StatsTyped, IsRecomputation, JobsHeld
<1>2. recompute \in [Buckets -> JobStates]
  BY DEF StatsInv, StatsTyped, JobStates
<1> DEFINE k == recomputing[w].bucket
<1>3. /\ recompute' \in [Buckets -> JobStates] /\ recompute'[k] = s
      /\ \A b \in Buckets : b # k => recompute'[b] = recompute[b]
  BY <1>1, <1>2 DEF JobStates
<1>4. \A b \in Buckets : recompute[b] = "waiting" => recompute'[b] = "waiting"
  BY <1>1, <1>3
<1>5. StatsTyped' /\ JobsHeld' /\ \A v \in Recomputers : v # w => recomputing'[v] = recomputing[v]
  BY <1>1, <1>3, RestingIs, RecomputerMoves
<1> QED BY <1>1, <1>3, <1>4, <1>5

LEMMA SettleKeepsCounting ==
  ASSUME StatsInv, NEW w \in Recomputers, SettleRecompute(w)
  PROVE  StatsInv'
<1>1. /\ recomputing[w].at = "settle" /\ recomputing[w] # Resting
      /\ recompute' = [recompute EXCEPT ![recomputing[w].bucket] = "completed"]
      /\ recomputing' = [recomputing EXCEPT ![w] = Resting]
      /\ UNCHANGED <<facts, counted, bucketNow, reducing, uncovered, overtaken, guarded>>
  BY RestingIs DEF SettleRecompute
<1>2. /\ StatsTyped' /\ JobsHeld'
      /\ \A v \in Recomputers : v # w => recomputing'[v] = recomputing[v]
      /\ \A b \in Buckets : recompute[b] = "waiting" => recompute'[b] = "waiting"
  BY <1>1, JobLeft
<1>3. WillCount => WillCount'
  BY <1>1, <1>2 DEF WillCount, Counts
<1> QED BY <1>1, <1>2, <1>3, CountStays

LEMMA FailureKeepsCounting ==
  ASSUME StatsInv, NEW w \in Recomputers, RecomputeFails(w)
  PROVE  StatsInv'
<1>1. /\ recomputing[w] # Resting
      /\ recompute' = [recompute EXCEPT ![recomputing[w].bucket] = "waiting"]
      /\ recomputing' = [recomputing EXCEPT ![w] = Resting]
      /\ UNCHANGED <<facts, counted, bucketNow, reducing, uncovered, overtaken, guarded>>
  BY DEF RecomputeFails
<1>2. /\ StatsTyped' /\ JobsHeld' /\ recomputing[w].bucket \in Buckets
      /\ recompute'[recomputing[w].bucket] = "waiting"
  BY <1>1, JobLeft
<1>3. WillCount'
  BY <1>2 DEF WillCount
<1> QED BY <1>1, <1>2, <1>3, CountStays

\* The clock, an operator's reactivation, or nothing.
LEMMA CountsElsewhere ==
  ASSUME StatsInv, bucketNow' \in Buckets,
         UNCHANGED <<facts, counted, recompute, reducing, recomputing, uncovered, overtaken, guarded>>
  PROVE  StatsInv'
<1>1. StatsTyped' /\ JobsHeld'
  BY DEF StatsInv, StatsTyped, JobsHeld
<1>2. WillCount => WillCount'
  BY DEF WillCount, Counts
<1> QED BY <1>1, <1>2, CountStays

LEMMA StatsStep == StatsInv /\ [StatsNext]_statsVars => StatsInv'
<1> SUFFICES ASSUME StatsInv, [StatsNext]_statsVars PROVE StatsInv'
  OBVIOUS
<1>1. bucketNow \in Buckets
  BY DEF StatsInv, StatsTyped
<1>2. CASE UNCHANGED statsVars
  BY <1>1, <1>2, CountsElsewhere DEF statsVars
<1>3. CASE BucketEnds
  <2>1. bucketNow' \in Buckets
    BY <1>1, <1>3, StatsAssumption DEF BucketEnds, Buckets
  <2> QED BY <1>3, <2>1, CountsElsewhere DEF BucketEnds
<1>4. CASE Reactivate
  BY <1>1, <1>4, CountsElsewhere DEF Reactivate
<1> QED
  BY <1>2, <1>3, <1>4, EventSteps, FactSteps, RunRecomputeCounts, ReadFactsCounts, WriteStatsCounts,
     SettleKeepsCounting, FailureKeepsCounting DEF StatsNext

LEMMA StatsStarts == StatsInit => StatsInv
<1> SUFFICES ASSUME StatsInit PROVE StatsInv
  OBVIOUS
<1>1. 0 \in Buckets
  BY StatsAssumption DEF Buckets
<1>2. StatsTyped
  BY <1>1, RestingIs DEF StatsInit, StatsTyped
<1>3. JobsHeld
  BY DEF StatsInit, JobsHeld
<1>4. ~Exceeded(NoFacts)
  BY StatsAssumption DEF Exceeded, NoFacts
<1>5. Counting
  BY <1>4 DEF StatsInit, Counting
<1> QED BY <1>2, <1>3, <1>5 DEF StatsInv

\* When no count is left to run, every fact is counted and the guard has acted
\* on it (recomputeCampaignStats, called by the reducer, by a batch and by the
\* recompute job), with two exceptions that the code does not make up for: a
\* fact that committed after the job of its bucket had begun, or whose batch
\* alone was to count it and failed; and, for the numbers, a slow count written
\* over a newer one.  For any number of workers, buckets and facts.
THEOREM StatsComplete == StatsSpec => []StatsCatchUp
<1>1. AllCounted /\ StatsInv => ~WillCount
  BY RestingIs DEF AllCounted, WillCount, Counts
<1>2. StatsInv => StatsCatchUp
  BY <1>1 DEF StatsInv, Counting, StatsCatchUp
<1> QED BY <1>2, StatsStarts, StatsStep, PTL DEF StatsSpec

-----------------------------------------------------------------------------
(* The numbers: never more bounces than messages, in the rows, in what any   *)
(* count has read and so in the campaign's row.                             *)

Tallies == {f \in StatFacts : f.bounced <= f.accepted}
SeenHonest(x) == x.at \in {"write", "settle"} => x.seen \in Tallies
ReductionRows ==
  [at : {"open", "read", "write"}, kind : {"bounced", "clicked", "accepted"},
   bucket : Buckets, seen : StatFacts \cup {NoSnapshot}]
RecomputationRows == [at : {"read", "write", "settle"}, bucket : Buckets, seen : StatFacts \cup {NoSnapshot}]

StatsFlags ==
  /\ live \in BOOLEAN /\ suspended \in BOOLEAN
  /\ uncovered \in BOOLEAN /\ overtaken \in BOOLEAN /\ guarded \in BOOLEAN
  /\ faults \in 0 .. MaxFaults
StatsRead ==
  /\ reducing \in [Reducers -> Reductions] /\ \A w \in Reducers : SeenHonest(reducing[w])
  /\ recomputing \in [Recomputers -> Recomputations] /\ \A w \in Recomputers : SeenHonest(recomputing[w])
StatsNumbers == facts \in Tallies /\ counted \in Tallies
StatsBounds == StatsFlags /\ StatsRead /\ StatsNumbers

LEMMA UnderWay ==
  /\ \A x \in Reductions : x.at # "rest" => x \in ReductionRows
  /\ \A x \in Recomputations : x # Resting => x \in RecomputationRows
  /\ \A x \in Recomputations : x.at # "rest" => x # Resting
  /\ ReductionRows \subseteq Reductions /\ RecomputationRows \subseteq Recomputations
  /\ Resting \in Reductions /\ Resting \in Recomputations /\ SeenHonest(Resting)
BY DEF Reductions, ReductionRows, Recomputations, RecomputationRows, Resting, SeenHonest

LEMMA FactsGrow ==
  ASSUME facts \in Tallies, NEW k \in {"accepted", "bounced", "clicked"},
         facts[k] < (IF k = "bounced" THEN facts.accepted ELSE MaxFacts)
  PROVE  [facts EXCEPT ![k] = @ + 1] \in Tallies
<1>1. /\ facts.accepted \in 0 .. MaxFacts /\ facts.bounced \in 0 .. MaxFacts /\ facts.clicked \in 0 .. MaxFacts
      /\ facts.bounced <= facts.accepted
      /\ facts = [accepted |-> facts.accepted, bounced |-> facts.bounced, clicked |-> facts.clicked]
  BY DEF Tallies, StatFacts
<1>2. PICK p, q, r \in 0 .. MaxFacts : facts = [accepted |-> p, bounced |-> q, clicked |-> r] /\ q <= p
  BY <1>1
<1>3. CASE k = "accepted"
  <2>1. [facts EXCEPT ![k] = @ + 1] = [accepted |-> p + 1, bounced |-> q, clicked |-> r] /\ p < MaxFacts
    BY <1>2, <1>3
  <2>2. p + 1 \in 0 .. MaxFacts /\ q <= p + 1
    BY <1>2, <2>1, StatsAssumption
  <2> QED BY <1>2, <2>1, <2>2 DEF Tallies, StatFacts
<1>4. CASE k = "bounced"
  <2>1. [facts EXCEPT ![k] = @ + 1] = [accepted |-> p, bounced |-> q + 1, clicked |-> r] /\ q < p
    BY <1>2, <1>4
  <2>2. q + 1 \in 0 .. MaxFacts /\ q + 1 <= p
    BY <1>2, <2>1, StatsAssumption
  <2> QED BY <1>2, <2>1, <2>2 DEF Tallies, StatFacts
<1>5. CASE k = "clicked"
  <2>1. [facts EXCEPT ![k] = @ + 1] = [accepted |-> p, bounced |-> q, clicked |-> r + 1] /\ r < MaxFacts
    BY <1>2, <1>5
  <2>2. r + 1 \in 0 .. MaxFacts
    BY <1>2, <2>1, StatsAssumption
  <2> QED BY <1>2, <2>1, <2>2 DEF Tallies, StatFacts
<1> QED BY <1>3, <1>4, <1>5

LEMMA FlagsTyped ==
  ASSUME StatsFlags, StatsNext
  PROVE  StatsFlags'
<1> USE StatsAssumption
<1>0. \A p \in BOOLEAN : \A q : (p \/ q) \in BOOLEAN /\ (p /\ q) \in BOOLEAN /\ (q /\ p) \in BOOLEAN
  BY Zenon
<1>1. ASSUME NEW seen, WriteSeen(seen) PROVE StatsFlags'
  <2>1. faults' = faults /\ uncovered' \in BOOLEAN /\ overtaken' \in BOOLEAN
    BY <1>1, Zenon DEF WriteSeen, StatsFlags
  <2>2. live' \in BOOLEAN /\ suspended' \in BOOLEAN /\ guarded' \in BOOLEAN
    BY <1>1 DEF WriteSeen, StatsFlags
  <2> QED BY <2>1, <2>2 DEF StatsFlags
<1>2. ASSUME NEW w \in Reducers, CommitEvent(w) PROVE StatsFlags'
  <2>1. uncovered' \in BOOLEAN /\ UNCHANGED <<live, suspended, overtaken, faults>> /\ guarded' = FALSE
    BY <1>2, Zenon DEF CommitEvent
  <2> QED BY <2>1 DEF StatsFlags
<1>3. ASSUME NEW w \in Reducers, CountFails(w) PROVE StatsFlags'
  <2>1. uncovered' \in BOOLEAN /\ UNCHANGED <<live, suspended, overtaken, guarded>>
    BY <1>3, Zenon DEF CountFails
  <2>2. faults' \in 0 .. MaxFaults
    BY <1>3 DEF CountFails, StatsFlags
  <2> QED BY <2>1, <2>2 DEF StatsFlags
<1>4. ASSUME NEW w \in Reducers,
             (\E kind \in {"bounced", "clicked"} : OpenEvent(w, kind)) \/ AbortEvent(w) \/ BatchAccepted(w) \/ ReadNow(w)
      PROVE  StatsFlags'
  BY <1>4 DEF OpenEvent, AbortEvent, BatchAccepted, ReadNow, StatsFlags
<1>5. ASSUME NEW w \in Recomputers,
             (\E b \in Buckets : RunRecompute(w, b)) \/ ReadFacts(w) \/ SettleRecompute(w) \/ RecomputeFails(w)
      PROVE  StatsFlags'
  BY <1>5 DEF RunRecompute, ReadFacts, SettleRecompute, RecomputeFails, StatsFlags
<1>6. ASSUME BucketEnds PROVE StatsFlags'
  BY <1>6 DEF BucketEnds, StatsFlags
<1>7. ASSUME Reactivate PROVE StatsFlags'
  <2>1. live' \in BOOLEAN /\ suspended' \in BOOLEAN /\ UNCHANGED <<uncovered, overtaken, guarded>>
    BY <1>7, Zenon DEF Reactivate
  <2>2. faults' \in 0 .. MaxFaults
    BY <1>7 DEF Reactivate, StatsFlags
  <2> QED BY <2>1, <2>2 DEF StatsFlags
<1> QED BY <1>1, <1>2, <1>3, <1>4, <1>5, <1>6, <1>7 DEF StatsNext, WriteNow, WriteStats

LEMMA ReadingTyped ==
  ASSUME StatsInv, StatsBounds, StatsNext
  PROVE  StatsRead'
<1>1. /\ reducing \in [Reducers -> Reductions] /\ recomputing \in [Recomputers -> Recomputations]
      /\ bucketNow \in Buckets /\ facts \in StatFacts /\ facts \in Tallies
  BY DEF StatsBounds, StatsRead, StatsNumbers, Tallies, StatsInv, StatsTyped
<1>2. ASSUME NEW w \in Reducers, NEW y \in Reductions, SeenHonest(y), reducing' = [reducing EXCEPT ![w] = y],
             recomputing' = recomputing
      PROVE  StatsRead'
  BY <1>1, <1>2 DEF StatsBounds, StatsRead
<1>3. ASSUME NEW w \in Recomputers, NEW y \in Recomputations, SeenHonest(y), recomputing' = [recomputing EXCEPT ![w] = y],
             reducing' = reducing
      PROVE  StatsRead'
  BY <1>1, <1>3 DEF StatsBounds, StatsRead
<1>4. ASSUME NEW w \in Reducers, AbortEvent(w) \/ WriteNow(w) \/ CountFails(w) PROVE StatsRead'
  BY <1>2, <1>4, UnderWay DEF AbortEvent, WriteNow, CountFails
<1>5. ASSUME NEW w \in Recomputers, SettleRecompute(w) \/ RecomputeFails(w) PROVE StatsRead'
  BY <1>3, <1>5, UnderWay DEF SettleRecompute, RecomputeFails
<1>6. ASSUME NEW w \in Reducers, NEW kind \in {"bounced", "clicked"}, OpenEvent(w, kind) PROVE StatsRead'
  <2>1. Reduction("open", kind, bucketNow, NoSnapshot) \in ReductionRows
        /\ SeenHonest(Reduction("open", kind, bucketNow, NoSnapshot))
    BY <1>1 DEF Reduction, ReductionRows, SeenHonest
  <2> QED BY <1>2, <1>6, <2>1, UnderWay DEF OpenEvent
<1>7. ASSUME NEW w \in Reducers, BatchAccepted(w) PROVE StatsRead'
  <2>1. Reduction("read", "accepted", bucketNow, NoSnapshot) \in ReductionRows
        /\ SeenHonest(Reduction("read", "accepted", bucketNow, NoSnapshot))
    BY <1>1 DEF Reduction, ReductionRows, SeenHonest
  <2> QED BY <1>2, <1>7, <2>1, UnderWay DEF BatchAccepted
<1>8. ASSUME NEW w \in Reducers, CommitEvent(w) PROVE StatsRead'
  <2> DEFINE x == reducing[w]
             y == IF Immediate(x.kind) THEN [x EXCEPT !.at = "read"] ELSE Resting
  <2>1. x \in ReductionRows
    BY <1>1, <1>8, UnderWay DEF CommitEvent
  <2>2. [x EXCEPT !.at = "read"] \in ReductionRows /\ SeenHonest([x EXCEPT !.at = "read"])
    BY <2>1 DEF ReductionRows, SeenHonest
  <2>3. reducing' = [reducing EXCEPT ![w] = y] /\ recomputing' = recomputing
    BY <1>8 DEF CommitEvent, ThenRecompute
  <2>4. y \in Reductions /\ SeenHonest(y)
    BY <2>2, UnderWay
  <2> HIDE DEF x, y
  <2> QED BY <1>2, <2>3, <2>4
<1>9. ASSUME NEW w \in Reducers, ReadNow(w) PROVE StatsRead'
  <2> DEFINE x == reducing[w]
             y == [x EXCEPT !.at = "write", !.seen = facts]
  <2>1. x \in ReductionRows
    BY <1>1, <1>9, UnderWay DEF ReadNow
  <2>2. y \in ReductionRows /\ SeenHonest(y)
    BY <1>1, <2>1 DEF ReductionRows, SeenHonest
  <2>3. reducing' = [reducing EXCEPT ![w] = y] /\ recomputing' = recomputing
    BY <1>1, <1>9, <2>1 DEF ReadNow
  <2> HIDE DEF x, y
  <2> QED BY <1>2, <2>2, <2>3, UnderWay
<1>10. ASSUME NEW w \in Recomputers, ReadFacts(w) PROVE StatsRead'
  <2> DEFINE x == recomputing[w]
             y == [x EXCEPT !.at = "write", !.seen = facts]
  <2>1. x \in RecomputationRows
    BY <1>1, <1>10, UnderWay DEF ReadFacts
  <2>2. y \in RecomputationRows /\ SeenHonest(y)
    BY <1>1, <2>1 DEF RecomputationRows, SeenHonest
  <2>3. recomputing' = [recomputing EXCEPT ![w] = y] /\ reducing' = reducing
    BY <1>1, <1>10, <2>1 DEF ReadFacts
  <2> HIDE DEF x, y
  <2> QED BY <1>3, <2>2, <2>3, UnderWay
<1>11. ASSUME NEW w \in Recomputers, WriteStats(w) PROVE StatsRead'
  <2> DEFINE x == recomputing[w]
             y == [x EXCEPT !.at = "settle"]
  <2>1. x \in RecomputationRows /\ x.seen \in Tallies
    BY <1>1, <1>11, UnderWay DEF WriteStats, StatsBounds, StatsRead, SeenHonest
  <2>2. y \in RecomputationRows /\ SeenHonest(y)
    BY <2>1 DEF RecomputationRows, SeenHonest
  <2>3. recomputing' = [recomputing EXCEPT ![w] = y] /\ reducing' = reducing
    BY <1>11 DEF WriteStats
  <2> HIDE DEF x, y
  <2> QED BY <1>3, <2>2, <2>3, UnderWay
<1>12. ASSUME NEW w \in Recomputers, NEW b \in Buckets, RunRecompute(w, b) PROVE StatsRead'
  <2> DEFINE y == [at |-> "read", bucket |-> b, seen |-> NoSnapshot]
  <2>1. y \in RecomputationRows /\ SeenHonest(y)
    BY DEF RecomputationRows, SeenHonest
  <2>2. recomputing' = [recomputing EXCEPT ![w] = y] /\ reducing' = reducing
    BY <1>12 DEF RunRecompute
  <2> HIDE DEF y
  <2> QED BY <1>3, <2>1, <2>2, UnderWay
<1>13. ASSUME BucketEnds \/ Reactivate PROVE StatsRead'
  BY <1>13 DEF BucketEnds, Reactivate, StatsBounds, StatsRead
<1> QED BY <1>4, <1>5, <1>6, <1>7, <1>8, <1>9, <1>10, <1>11, <1>12, <1>13 DEF StatsNext

LEMMA NumbersTyped ==
  ASSUME StatsBounds, StatsNext
  PROVE  StatsNumbers'
<1>0. /\ facts \in Tallies /\ counted \in Tallies
      /\ reducing \in [Reducers -> Reductions] /\ \A w \in Reducers : SeenHonest(reducing[w])
      /\ recomputing \in [Recomputers -> Recomputations] /\ \A w \in Recomputers : SeenHonest(recomputing[w])
  BY DEF StatsBounds, StatsNumbers, StatsRead
<1>1. ASSUME NEW w \in Reducers, CommitEvent(w) PROVE StatsNumbers'
  <2>1. reducing[w] \in ReductionRows
    BY <1>0, <1>1, UnderWay DEF CommitEvent
  <2>2. reducing[w].kind \in {"accepted", "bounced", "clicked"}
    BY <2>1 DEF ReductionRows
  <2>3. facts' = [facts EXCEPT ![reducing[w].kind] = @ + 1] /\ counted' = counted
        /\ facts[reducing[w].kind] < (IF reducing[w].kind = "bounced" THEN facts.accepted ELSE MaxFacts)
    BY <1>1 DEF CommitEvent
  <2>4. facts' \in Tallies
    BY <1>0, <2>2, <2>3, FactsGrow
  <2> QED BY <1>0, <2>3, <2>4 DEF StatsNumbers
<1>2. ASSUME NEW w \in Reducers, BatchAccepted(w) PROVE StatsNumbers'
  <2>1. facts' = [facts EXCEPT !["accepted"] = @ + 1] /\ counted' = counted /\ facts["accepted"] < MaxFacts
    BY <1>2 DEF BatchAccepted
  <2>2. facts' \in Tallies
    BY <1>0, <2>1, FactsGrow
  <2> QED BY <1>0, <2>1, <2>2 DEF StatsNumbers
<1>3. ASSUME NEW seen \in Tallies, WriteSeen(seen) PROVE StatsNumbers'
  BY <1>0, <1>3 DEF WriteSeen, StatsNumbers
<1>4. ASSUME NEW w \in Reducers, WriteNow(w) PROVE StatsNumbers'
  BY <1>0, <1>3, <1>4 DEF WriteNow, SeenHonest
<1>5. ASSUME NEW w \in Recomputers, WriteStats(w) PROVE StatsNumbers'
  BY <1>0, <1>3, <1>5 DEF WriteStats, SeenHonest
<1>6. ASSUME UNCHANGED <<facts, counted>> PROVE StatsNumbers'
  BY <1>0, <1>6 DEF StatsNumbers
<1>7. StatsNext => \/ UNCHANGED <<facts, counted>>
                   \/ \E w \in Reducers : CommitEvent(w) \/ BatchAccepted(w) \/ WriteNow(w)
                   \/ \E w \in Recomputers : WriteStats(w)
  BY DEF StatsNext, OpenEvent, AbortEvent, ReadNow, CountFails, RunRecompute, ReadFacts, SettleRecompute,
     RecomputeFails, BucketEnds, Reactivate
<1> QED BY <1>1, <1>2, <1>4, <1>5, <1>6, <1>7

LEMMA BoundsStep == StatsInv /\ StatsBounds /\ [StatsNext]_statsVars => StatsBounds'
<1> SUFFICES ASSUME StatsInv, StatsBounds, [StatsNext]_statsVars PROVE StatsBounds'
  OBVIOUS
<1>1. CASE UNCHANGED statsVars
  BY <1>1 DEF statsVars, StatsBounds, StatsFlags, StatsRead, StatsNumbers
<1>2. CASE StatsNext
  BY <1>2, FlagsTyped, ReadingTyped, NumbersTyped DEF StatsBounds
<1> QED BY <1>1, <1>2

LEMMA BoundsStart == StatsInit => StatsBounds
<1> SUFFICES ASSUME StatsInit PROVE StatsBounds
  OBVIOUS
<1>1. NoFacts \in Tallies
  BY StatsAssumption DEF NoFacts, Tallies, StatFacts
<1>2. StatsFlags
  <2>1. /\ live \in BOOLEAN /\ suspended \in BOOLEAN
        /\ uncovered \in BOOLEAN /\ overtaken \in BOOLEAN /\ guarded \in BOOLEAN
    BY Zenon DEF StatsInit
  <2>2. faults \in 0 .. MaxFaults
    BY StatsAssumption DEF StatsInit
  <2> QED BY <2>1, <2>2 DEF StatsFlags
<1>3. StatsRead
  BY UnderWay DEF StatsInit, StatsRead
<1> QED BY <1>1, <1>2, <1>3 DEF StatsInit, StatsBounds, StatsNumbers

\* What the campaign's row counts was read in one piece: it never says that
\* more messages bounced than were accepted, which the guard's percentage
\* divides by, whichever counts overlap, fail or land late.
THEOREM StatsTypeCorrect == StatsSpec => []StatsTypeOK
<1>1. StatsInv /\ StatsBounds => StatsTypeOK
  BY DEF StatsInv, StatsTyped, StatsBounds, StatsFlags, StatsRead, StatsNumbers, Tallies, StatsTypeOK
<1> QED BY <1>1, BoundsStart, BoundsStep, StatsStarts, StatsStep, PTL DEF StatsSpec

-----------------------------------------------------------------------------
(* ContactImport: rows are done in order, by executions that agree on the   *)
(* mapping, and an address that was upserted is one every execution past    *)
(* its row has seen.                                                       *)

IsDone(i) == rowsDone[i].outcome # "NONE"
Upserted(i) == rowsDone[i].outcome \in {"CREATED", "UPDATED"}
IsItem(x) ==
  /\ x = [status |-> x.status, map |-> x.map, unknown |-> x.unknown, confirmed |-> x.confirmed, counts |-> x.counts]
  /\ x.confirmed \in BOOLEAN /\ (x.status # "UPLOADED" => x.map \in Mappings)
IsJob(x) == x = [status |-> x.status, attempts |-> x.attempts, holder |-> x.holder]
Execution(pc, map, at, done, seen, cache, counts) ==
  [pc |-> pc, map |-> map, at |-> at, done |-> done, seen |-> seen, cache |-> cache, counts |-> counts]
IsExecution(x) ==
  /\ x = Execution(x.pc, x.map, x.at, x.done, x.seen, x.cache, x.counts)
  /\ x.at \in 0 .. RowCount /\ (x.pc = "rows" => x.map \in Mappings)
ImportTyped ==
  /\ IsItem(item) /\ IsJob(itemJob)
  /\ rowsDone = [i \in Rows |-> rowsDone[i]]
  /\ execution = [w \in ImportWorkers |-> execution[w]] /\ \A w \in ImportWorkers : IsExecution(execution[w])
  /\ applied \in [ImportAddresses -> SUBSET Rows]

Uploaded ==
  item.status = "UPLOADED" => itemJob.status = "NONE" /\ \A w \in ImportWorkers : execution[w].pc = "idle"
InOrder == \A i \in Rows : IsDone(i) => \A j \in 1 .. i - 1 : IsDone(j)
Stands(x) ==
  /\ x.pc = "rows" => \A j \in 1 .. x.at : IsDone(j)
  /\ \A i \in x.done : i \in Rows /\ IsDone(i)
  /\ x.pc = "completing" => x.counts = Tally /\ \A i \in Rows : IsDone(i)
  /\ x.cache \subseteq tagRows
Passed == \A w \in ImportWorkers : Stands(execution[w])
Completed == item.status = "COMPLETED" => item.counts = Tally /\ \A i \in Rows : IsDone(i)
AppliedOnce ==
  /\ \A e \in ImportAddresses : \A i \in applied[e] : Upserted(i) /\ rowsDone[i].email = e
  /\ \A i \in Rows : Upserted(i) => rowsDone[i].email # BadEmail

Agrees(x) ==
  x.pc = "rows" =>
    /\ x.map = item.map
    /\ \A i \in Rows \ x.done : IsDone(i) => rowsDone[i].email = EmailAt[item.map][i]
    /\ \A j \in 1 .. x.at : Upserted(j) => rowsDone[j].email \in x.seen
OneMapping == \A w \in ImportWorkers : Agrees(execution[w])
Distinct ==
  \A i, j \in Rows : Upserted(i) /\ Upserted(j) /\ rowsDone[i].email = rowsDone[j].email => i = j
JobOpen == itemJob.status \in {"PENDING", "PROCESSING"} \/ Running # {}
Asked ==
  /\ unasked = {}
  /\ JobOpen => item.unknown = {} \/ item.confirmed
  /\ item.map \in Mappings => \A i \in Rows : TagAt[item.map][i] \in tagRows \cup item.unknown
ImportInv ==
  /\ ImportTyped /\ Uploaded /\ InOrder /\ Passed /\ Completed /\ AppliedOnce
  /\ ~remapped => OneMapping /\ Distinct /\ Asked

LEMMA ExecutionMoves ==
  ASSUME ImportInv, NEW w \in ImportWorkers, NEW y, IsExecution(y), execution' = [execution EXCEPT ![w] = y]
  PROVE  /\ execution'[w] = y /\ \A v \in ImportWorkers : v # w => execution'[v] = execution[v]
         /\ execution' = [v \in ImportWorkers |-> execution'[v]]
         /\ \A v \in ImportWorkers : IsExecution(execution'[v])
<1>1. execution = [v \in ImportWorkers |-> execution[v]] /\ \A v \in ImportWorkers : IsExecution(execution[v])
  BY DEF ImportInv, ImportTyped
<1>2. execution'[w] = y /\ \A v \in ImportWorkers : v # w => execution'[v] = execution[v]
  BY <1>1
<1>3. execution' = [v \in ImportWorkers |-> execution'[v]]
  BY <1>1
<1> QED BY <1>1, <1>2, <1>3

\* An execution moves and no row is written.
LEMMA ExecutionStep ==
  ASSUME ImportInv, NEW w \in ImportWorkers, NEW y, IsExecution(y), execution' = [execution EXCEPT ![w] = y],
         UNCHANGED <<rowsDone, tagRows, applied, unasked, remapped>>, IsJob(itemJob'), IsItem(item'),
         item'.map = item.map, item'.unknown = item.unknown, item'.confirmed = item.confirmed,
         item'.status # "UPLOADED", Completed',
         Stands(y), ~remapped => Agrees(y),
         itemJob'.status \in {"PENDING", "PROCESSING"} => JobOpen, y.pc # "idle" => JobOpen
  PROVE  ImportInv'
<1>1. /\ execution'[w] = y /\ \A v \in ImportWorkers : v # w => execution'[v] = execution[v]
      /\ execution' = [v \in ImportWorkers |-> execution'[v]]
      /\ \A v \in ImportWorkers : IsExecution(execution'[v])
  BY ExecutionMoves
<1>2. ImportTyped' /\ Uploaded' /\ InOrder' /\ AppliedOnce' /\ (Distinct => Distinct')
  BY <1>1, SMTT(30) DEF ImportInv, ImportTyped, Uploaded, InOrder, AppliedOnce, Distinct, IsDone, Upserted
<1>3. Tally' = Tally
  BY DEF Tally
<1>4. \A x : Stands(x) => Stands(x)'
  BY <1>3 DEF Stands, IsDone
<1>5. Passed'
  BY <1>1, <1>4 DEF ImportInv, Passed
<1>6. ASSUME ~remapped PROVE OneMapping' /\ Asked'
  <2>1. \A x : Agrees(x) => Agrees(x)'
    BY DEF Agrees, IsDone, Upserted
  <2>2. OneMapping'
    BY <1>1, <1>6, <2>1 DEF ImportInv, OneMapping
  <2>3. JobOpen' => JobOpen
    BY <1>1 DEF JobOpen, Running
  <2>4. Asked'
    BY <1>6, <2>3 DEF ImportInv, Asked
  <2> QED BY <2>2, <2>4
<1> QED BY <1>2, <1>5, <1>6 DEF ImportInv

LEMMA AdvanceIs ==
  ASSUME ImportInv, NEW w \in ImportWorkers, Reading(w), NEW s, NEW c, Advance(w, s, c)
  PROVE  \E y : /\ execution' = [execution EXCEPT ![w] = y] /\ IsExecution(y)
                /\ y.pc = "rows" /\ y.map = execution[w].map /\ y.at = At(w)
                /\ y.done = execution[w].done /\ y.seen = s /\ y.cache = c
<1>1. IsExecution(execution[w]) /\ execution = [v \in ImportWorkers |-> execution[v]]
  BY DEF ImportInv, ImportTyped
<1>2. PICK p, m, a, d, z, k, n : execution[w] = Execution(p, m, a, d, z, k, n)
  BY <1>1 DEF IsExecution
<1>3. p = "rows" /\ a \in 0 .. RowCount /\ a < RowCount /\ m \in Mappings
  BY <1>1, <1>2 DEF IsExecution, Execution, Reading
<1> DEFINE y == Execution(p, m, a + 1, d, s, c, n)
           f == [execution EXCEPT ![w].at = execution[w].at + 1]
           g == [f EXCEPT ![w].seen = s]
<1>4. execution' = [g EXCEPT ![w].cache = c]
  BY DEF Advance
<1>5. f = [execution EXCEPT ![w] = Execution(p, m, a + 1, d, z, k, n)]
  <2>1. [execution[w] EXCEPT !.at = execution[w].at + 1] = Execution(p, m, a + 1, d, z, k, n)
    BY <1>2 DEF Execution
  <2> QED BY <1>1, <2>1
<1> HIDE DEF f
<1>6. f[w] = Execution(p, m, a + 1, d, z, k, n)
  BY <1>1, <1>5
<1>7. g = [f EXCEPT ![w] = Execution(p, m, a + 1, d, s, k, n)]
  <2>1. [f[w] EXCEPT !.seen = s] = Execution(p, m, a + 1, d, s, k, n)
    BY <1>6 DEF Execution
  <2> QED BY <1>1, <1>5, <2>1
<1> HIDE DEF g
<1>8. g[w] = Execution(p, m, a + 1, d, s, k, n)
  BY <1>1, <1>5, <1>7
<1>9. execution' = [g EXCEPT ![w] = y]
  <2>1. [g[w] EXCEPT !.cache = c] = y
    BY <1>8 DEF Execution
  <2> QED BY <1>1, <1>4, <1>5, <1>7, <2>1
<1>10. execution' = [execution EXCEPT ![w] = y]
  BY <1>1, <1>5, <1>7, <1>9
<1>11. /\ IsExecution(y) /\ y.pc = "rows" /\ y.map = execution[w].map /\ y.at = At(w)
       /\ y.done = execution[w].done /\ y.seen = s /\ y.cache = c
  BY <1>2, <1>3, ImportAssumption DEF IsExecution, Execution, At
<1> QED BY <1>10, <1>11

LEMMA IdleIs ==
  /\ Idle = Execution("idle", NoMapping, 0, {}, {}, {}, NoCounts)
  /\ \A pc, counts : pc # "rows" => IsExecution(Execution(pc, NoMapping, 0, {}, {}, {}, counts))
BY ImportAssumption DEF Idle, Execution, IsExecution

\* What the step lemmas need of an execution at work.
LEMMA AtWork ==
  ASSUME ImportInv, NEW w \in ImportWorkers, execution[w].pc # "idle"
  PROVE  /\ JobOpen /\ item.status # "UPLOADED" /\ IsItem(item) /\ IsJob(itemJob) /\ IsExecution(execution[w])
         /\ Stands(execution[w]) /\ Completed /\ (~remapped => Agrees(execution[w]))
         /\ RowCount \in Nat /\ IsExecution(Idle) /\ Stands(Idle) /\ Agrees(Idle) /\ Idle.pc = "idle"
<1>1. w \in Running
  BY DEF Running
<1>2. IsExecution(Idle) /\ Stands(Idle) /\ Agrees(Idle) /\ Idle.pc = "idle"
  BY IdleIs DEF Execution, Stands, Agrees
<1> QED BY <1>1, <1>2, ImportAssumption
        DEF JobOpen, ImportInv, ImportTyped, Uploaded, Passed, OneMapping

\* The row is done, here or elsewhere: its address has been seen.
LEMMA RowPassed ==
  ASSUME ImportInv, NEW w \in ImportWorkers, Reading(w), IsDone(At(w)), NEW s, NEW c, Advance(w, s, c),
         UNCHANGED <<item, itemJob, rowsDone, tagRows, applied, unasked, remapped>>,
         c = execution[w].cache, execution[w].seen \subseteq s,
         ~remapped /\ Upserted(At(w)) => rowsDone[At(w)].email \in s
  PROVE  ImportInv'
<1>1. PICK y : /\ execution' = [execution EXCEPT ![w] = y] /\ IsExecution(y)
               /\ y.pc = "rows" /\ y.map = execution[w].map /\ y.at = At(w)
               /\ y.done = execution[w].done /\ y.seen = s /\ y.cache = c
  BY AdvanceIs
<1>2. execution[w].pc = "rows" /\ execution[w].pc # "idle" /\ execution[w].at \in 0 .. RowCount
  BY AtWork DEF Reading, IsExecution
<1>3. \A j \in 1 .. At(w) : j = At(w) \/ j \in 1 .. execution[w].at
  BY <1>2, AtWork DEF At
<1>4. Stands(y)
  BY <1>1, <1>2, <1>3, AtWork DEF Stands
<1>5. ~remapped => Agrees(y)
  BY <1>1, <1>2, <1>3, AtWork DEF Agrees
<1>6. IsItem(item') /\ IsJob(itemJob') /\ item'.status # "UPLOADED" /\ Completed'
  <2>1. Tally' = Tally
    BY DEF Tally
  <2> QED BY <1>2, <2>1, AtWork DEF Completed, IsDone
<1> QED BY <1>1, <1>2, <1>4, <1>5, <1>6, AtWork, ExecutionStep

LEMMA RowPasses ==
  ASSUME ImportInv, NEW w \in ImportWorkers, PassRow(w) \/ FindRowDone(w)
  PROVE  ImportInv'
<1>1. Reading(w) /\ execution[w].pc = "rows" /\ execution[w].pc # "idle"
      /\ UNCHANGED <<item, itemJob, rowsDone, tagRows, applied, unasked, remapped>>
  BY DEF PassRow, FindRowDone, FreshRow, Reading
<1>2. At(w) \in Rows
  BY <1>1, AtWork DEF Reading, At, Rows, IsExecution
<1>3. CASE PassRow(w)
  <2>1. IsDone(At(w))
    BY <1>1, <1>3, AtWork DEF PassRow, Stands
  <2>2. PICK s, c : /\ s = execution[w].seen \cup ({rowsDone[At(w)].email} \ {BadEmail}) /\ c = execution[w].cache
                    /\ Advance(w, s, c)
    BY <1>3 DEF PassRow
  <2>3. Upserted(At(w)) => rowsDone[At(w)].email # BadEmail
    BY <1>2 DEF ImportInv, AppliedOnce
  <2> QED BY <1>1, <2>1, <2>2, <2>3, RowPassed
<1>4. CASE FindRowDone(w)
  <2>1. IsDone(At(w)) /\ At(w) \notin execution[w].done
    BY <1>4 DEF FindRowDone, FreshRow, IsDone
  <2>2. PICK s, c : /\ s = execution[w].seen \cup {EmailOf(w)} /\ c = execution[w].cache /\ Advance(w, s, c)
    BY <1>4 DEF FindRowDone
  <2>3. ~remapped => rowsDone[At(w)].email = EmailOf(w)
    BY <1>1, <1>2, <2>1, AtWork DEF Agrees, EmailOf
  <2> QED BY <1>1, <2>1, <2>2, <2>3, RowPassed
<1> QED BY <1>3, <1>4

\* Any other move of an execution that writes no row.
LEMMA ExecutionTurns ==
  ASSUME ImportInv, NEW w \in ImportWorkers, execution[w].pc # "idle", NEW pc, NEW counts, pc # "rows",
         execution' = [execution EXCEPT ![w] = Execution(pc, NoMapping, 0, {}, {}, {}, counts)],
         pc = "completing" => counts = Tally /\ \A i \in Rows : IsDone(i),
         UNCHANGED <<rowsDone, tagRows, applied, unasked, remapped>>, IsJob(itemJob'),
         IsItem(item'), item'.map = item.map, item'.unknown = item.unknown, item'.confirmed = item.confirmed,
         item'.status # "UPLOADED", Completed'
  PROVE  ImportInv'
<1> DEFINE y == Execution(pc, NoMapping, 0, {}, {}, {}, counts)
<1>1. IsExecution(y) /\ Stands(y) /\ Agrees(y)
  BY IdleIs DEF Execution, Stands, Agrees
<1> HIDE DEF y
<1>2. execution' = [execution EXCEPT ![w] = y]
  BY DEF y
<1> QED BY <1>1, <1>2, AtWork, ExecutionStep

LEMMA ThrowIs ==
  ASSUME NEW w, Throws(w)
  PROVE  execution' = [execution EXCEPT ![w] = Execution("failing", NoMapping, 0, {}, {}, {}, NoCounts)]
<1>1. [Idle EXCEPT !.pc = "failing"] = Execution("failing", NoMapping, 0, {}, {}, {}, NoCounts)
  BY IdleIs DEF Execution
<1> QED BY <1>1 DEF Throws

LEMMA ItemStays ==
  ASSUME ImportInv, UNCHANGED <<item, rowsDone>>, item.status # "UPLOADED"
  PROVE  /\ IsItem(item') /\ item'.map = item.map /\ item'.unknown = item.unknown /\ item'.confirmed = item.confirmed
         /\ item'.status # "UPLOADED" /\ Completed'
<1>1. Tally' = Tally
  BY DEF Tally
<1> QED BY <1>1 DEF ImportInv, ImportTyped, Completed, IsDone

LEMMA ExecutionFails ==
  ASSUME ImportInv, NEW w \in ImportWorkers, execution[w].pc # "idle", Throws(w),
         UNCHANGED <<item, itemJob, rowsDone, tagRows, applied, unasked, remapped>>
  PROVE  ImportInv'
<1>1. IsJob(itemJob')
  BY AtWork
<1> QED BY <1>1, AtWork, ThrowIs, ItemStays, ExecutionTurns

LEMMA RowsCounted ==
  ASSUME ImportInv, NEW w \in ImportWorkers, CountRows(w) \/ CountFailure(w)
  PROVE  ImportInv'
<1> PICK t : t = Tally
  OBVIOUS
<1>1. \A pc : [[Idle EXCEPT !.pc = pc] EXCEPT !.counts = t] = Execution(pc, NoMapping, 0, {}, {}, {}, t)
  <2>1. \A pc : [Idle EXCEPT !.pc = pc] = Execution(pc, NoMapping, 0, {}, {}, {}, NoCounts)
    BY IdleIs DEF Execution
  <2>2. \A pc : [Execution(pc, NoMapping, 0, {}, {}, {}, NoCounts) EXCEPT !.counts = t] =
                  Execution(pc, NoMapping, 0, {}, {}, {}, t)
    BY DEF Execution
  <2> QED BY <2>1, <2>2
<1>2. UNCHANGED <<item, itemJob, rowsDone, tagRows, applied, unasked, remapped>> /\ execution[w].pc # "idle"
  BY DEF CountRows, CountFailure
<1>3. CASE CountRows(w)
  <2>1. execution[w].pc = "rows" /\ execution[w].at = RowCount
        /\ execution' = [execution EXCEPT ![w] = [Idle EXCEPT !.pc = "completing", !.counts = t]]
    BY <1>3 DEF CountRows
  <2>2. execution' = [execution EXCEPT ![w] = Execution("completing", NoMapping, 0, {}, {}, {}, t)]
    BY <1>1, <2>1
  <2>3. \A i \in Rows : IsDone(i)
    BY <1>2, <2>1, AtWork DEF Stands, Rows
  <2>4. IsJob(itemJob')
    BY <1>2, AtWork
  <2> QED BY <1>2, <2>2, <2>3, <2>4, AtWork, ItemStays, ExecutionTurns
<1>4. CASE CountFailure(w)
  <2>1. execution' = [execution EXCEPT ![w] = [Idle EXCEPT !.pc = "failed", !.counts = t]]
    BY <1>4 DEF CountFailure
  <2>2. execution' = [execution EXCEPT ![w] = Execution("failed", NoMapping, 0, {}, {}, {}, t)]
    BY <1>1, <2>1
  <2>3. IsJob(itemJob') /\ item.status # "UPLOADED"
    BY <1>2, AtWork
  <2>4. /\ IsItem(item') /\ item'.map = item.map /\ item'.unknown = item.unknown /\ item'.confirmed = item.confirmed
        /\ item'.status # "UPLOADED" /\ Completed'
    BY <1>2, <2>3, ItemStays
  <2>5. "failed" # "rows" /\ "failed" # "completing"
    OBVIOUS
  <2> QED BY <1>2, <2>2, <2>3, <2>4, <2>5, ExecutionTurns, Zenon
<1> QED BY <1>3, <1>4

LEMMA ItemSettles ==
  ASSUME IsItem(item), item.status # "UPLOADED", NEW s, s # "UPLOADED", NEW n,
         item' = [item EXCEPT !.status = s, !.counts = n]
  PROVE  /\ IsItem(item') /\ item'.map = item.map /\ item'.unknown = item.unknown /\ item'.confirmed = item.confirmed
         /\ item'.status = s /\ item'.counts = n
<1>1. PICK a, m, u, c, k : item = [status |-> a, map |-> m, unknown |-> u, confirmed |-> c, counts |-> k]
  BY DEF IsItem
<1>2. c \in BOOLEAN /\ m \in Mappings
  BY <1>1 DEF IsItem
<1>3. [item EXCEPT !.status = s] = [status |-> s, map |-> m, unknown |-> u, confirmed |-> c, counts |-> k]
  BY <1>1
<1>4. item' = [[status |-> s, map |-> m, unknown |-> u, confirmed |-> c, counts |-> k] EXCEPT !.counts = n]
  BY <1>3
<1>5. item' = [status |-> s, map |-> m, unknown |-> u, confirmed |-> c, counts |-> n]
  BY <1>4
<1> QED BY <1>1, <1>2, <1>5 DEF IsItem

LEMMA JobSettles ==
  ASSUME IsJob(itemJob), NEW s, NEW h, itemJob' = itemJob \/ itemJob' = [itemJob EXCEPT !.status = s, !.holder = h]
  PROVE  IsJob(itemJob')
<1>1. PICK a, n, k : itemJob = [status |-> a, attempts |-> n, holder |-> k]
  BY DEF IsJob
<1>2. CASE itemJob' = [itemJob EXCEPT !.status = s, !.holder = h]
  <2>1. [itemJob EXCEPT !.status = s] = [status |-> s, attempts |-> n, holder |-> k]
    BY <1>1
  <2>2. itemJob' = [[status |-> s, attempts |-> n, holder |-> k] EXCEPT !.holder = h]
    BY <1>2, <2>1
  <2> QED BY <2>2 DEF IsJob
<1> QED BY <1>2

LEMMA ImportSettles ==
  ASSUME ImportInv, NEW w \in ImportWorkers, Complete(w) \/ Fail(w)
  PROVE  ImportInv'
<1>1. /\ execution[w].pc # "idle" /\ execution' = [execution EXCEPT ![w] = Execution("idle", NoMapping, 0, {}, {}, {}, NoCounts)]
      /\ UNCHANGED <<rowsDone, tagRows, applied, unasked, remapped>>
  BY IdleIs DEF Complete, Fail
<1>2. \E s, h : itemJob' = itemJob \/ itemJob' = [itemJob EXCEPT !.status = s, !.holder = h]
  <2>1. CASE Complete(w)
    BY <2>1 DEF Complete
  <2>2. CASE Fail(w)
    <3> PICK s : s = IF itemJob.attempts < MaxTries THEN "PENDING" ELSE "FAILED"
      OBVIOUS
    <3>1. itemJob' = itemJob \/ itemJob' = [itemJob EXCEPT !.holder = NoMapping, !.status = s]
      BY <2>2 DEF Fail
    <3>2. [itemJob EXCEPT !.holder = NoMapping, !.status = s] = [itemJob EXCEPT !.status = s, !.holder = NoMapping]
      <4>1. PICK a, n, k : itemJob = [status |-> a, attempts |-> n, holder |-> k]
        BY <1>1, AtWork DEF IsJob
      <4>2. /\ [itemJob EXCEPT !.holder = NoMapping] = [status |-> a, attempts |-> n, holder |-> NoMapping]
            /\ [itemJob EXCEPT !.status = s] = [status |-> s, attempts |-> n, holder |-> k]
        BY <4>1
      <4>3. [[status |-> a, attempts |-> n, holder |-> NoMapping] EXCEPT !.status = s] =
              [status |-> s, attempts |-> n, holder |-> NoMapping]
        OBVIOUS
      <4>4. [[status |-> s, attempts |-> n, holder |-> k] EXCEPT !.holder = NoMapping] =
              [status |-> s, attempts |-> n, holder |-> NoMapping]
        OBVIOUS
      <4> QED BY <4>2, <4>3, <4>4
    <3>3. itemJob' = itemJob \/ itemJob' = [itemJob EXCEPT !.status = s, !.holder = NoMapping]
      BY <3>1, <3>2, Zenon
    <3> QED BY <3>3, Zenon
  <2> QED BY <2>1, <2>2
<1>3. IsJob(itemJob')
  BY <1>1, <1>2, AtWork, JobSettles
<1>4. PICK s, n : /\ s \in {"COMPLETED", "FAILED"} /\ n = execution[w].counts
                  /\ item' = [item EXCEPT !.status = s, !.counts = n] /\ (s = "COMPLETED" => Complete(w))
  <2>1. CASE Complete(w)
    <3>1. item' = [item EXCEPT !.status = "COMPLETED", !.counts = execution[w].counts]
      BY <2>1 DEF Complete
    <3> QED BY <2>1, <3>1
  <2>2. CASE Fail(w)
    <3>1. item' = [item EXCEPT !.status = "FAILED", !.counts = execution[w].counts]
      BY <2>2 DEF Fail
    <3>2. "FAILED" \in {"COMPLETED", "FAILED"} /\ "FAILED" # "COMPLETED"
      OBVIOUS
    <3> QED BY <3>1, <3>2, Zenon
  <2> QED BY <2>1, <2>2
<1>5. /\ IsItem(item') /\ item'.map = item.map /\ item'.unknown = item.unknown /\ item'.confirmed = item.confirmed
      /\ item'.status = s /\ item'.counts = n
  BY <1>1, <1>4, AtWork, ItemSettles
<1>6. Completed'
  <2>1. Tally' = Tally
    BY <1>1 DEF Tally
  <2>2. Complete(w) => n = Tally /\ \A i \in Rows : IsDone(i)
    BY <1>1, <1>4, AtWork DEF Complete, Stands
  <2> QED BY <1>1, <1>4, <1>5, <2>1, <2>2 DEF Completed, IsDone
<1> QED BY <1>1, <1>3, <1>4, <1>5, <1>6, ExecutionTurns, ZenonT(60)

LEMMA ImportCrashes ==
  ASSUME ImportInv, NEW w \in ImportWorkers, CrashImport(w)
  PROVE  ImportInv'
<1>1. /\ execution[w].pc # "idle" /\ execution' = [execution EXCEPT ![w] = Execution("idle", NoMapping, 0, {}, {}, {}, NoCounts)]
      /\ UNCHANGED <<item, rowsDone, tagRows, applied, unasked, remapped>>
      /\ itemJob' = itemJob \/ itemJob' = [itemJob EXCEPT !.status = "PENDING", !.holder = NoMapping]
  BY IdleIs DEF CrashImport
<1>2. IsJob(itemJob')
  BY <1>1, AtWork, JobSettles
<1> QED BY <1>1, <1>2, AtWork, ItemStays, ExecutionTurns

LEMMA ImportClaimed ==
  ASSUME ImportInv, NEW w \in ImportWorkers, Claim(w)
  PROVE  ImportInv'
<1> DEFINE done == {i \in Rows : rowsDone[i].outcome # "NONE"}
<1>1. /\ itemJob.status = "PENDING" /\ itemJob' = [status |-> "PROCESSING", attempts |-> itemJob.attempts + 1, holder |-> w]
      /\ execution' = [execution EXCEPT ![w] = [Idle EXCEPT !.pc = "rows", !.map = item.map, !.done = done]]
      /\ UNCHANGED <<item, rowsDone, tagRows, applied, unasked, remapped>>
  BY DEF Claim
<1> PICK m, d : m = item.map /\ d = done
  OBVIOUS
<1> DEFINE y == Execution("rows", m, 0, d, {}, {}, NoCounts)
<1>2. execution' = [execution EXCEPT ![w] = y]
  <2>1. [Idle EXCEPT !.pc = "rows"] = Execution("rows", NoMapping, 0, {}, {}, {}, NoCounts)
    BY IdleIs DEF Execution
  <2>2. [Execution("rows", NoMapping, 0, {}, {}, {}, NoCounts) EXCEPT !.map = m] = Execution("rows", m, 0, {}, {}, {}, NoCounts)
    BY DEF Execution
  <2>3. [Execution("rows", m, 0, {}, {}, {}, NoCounts) EXCEPT !.done = d] = y
    BY DEF Execution
  <2>4. [Idle EXCEPT !.pc = "rows", !.map = m, !.done = d] = y
    BY <2>1, <2>2, <2>3
  <2> QED BY <1>1, <2>4
<1>3. item.status # "UPLOADED" /\ JobOpen
  BY <1>1 DEF ImportInv, Uploaded, JobOpen
<1>4. y.pc = "rows" /\ y.map = m /\ y.at = 0 /\ y.done = d /\ y.cache = {} /\ y = Execution(y.pc, y.map, y.at, y.done, y.seen, y.cache, y.counts)
  BY DEF Execution
<1>5. IsExecution(y)
  <2>1. m \in Mappings
    BY <1>3 DEF ImportInv, ImportTyped, IsItem
  <2>2. 0 \in 0 .. RowCount
    BY ImportAssumption
  <2> HIDE DEF y
  <2> QED BY <1>4, <2>1, <2>2 DEF IsExecution
<1>6. Stands(y) /\ Agrees(y)
  <2>1. 1 .. 0 = {}
    OBVIOUS
  <2>2. d = {i \in Rows : IsDone(i)}
    BY DEF IsDone
  <2> HIDE DEF y
  <2>3. Stands(y)
    BY <1>4, <2>1, <2>2 DEF Stands
  <2>4. Agrees(y)
    BY <1>4, <2>1, <2>2 DEF Agrees
  <2> QED BY <2>3, <2>4
<1> HIDE DEF y
<1>7. IsJob(itemJob')
  BY <1>1 DEF IsJob
<1> QED BY <1>1, <1>2, <1>3, <1>5, <1>6, <1>7, ItemStays, ExecutionStep

RowPut(n, z) ==
  /\ n \in Rows /\ InOrder'
  /\ rowsDone' = [i \in Rows |-> rowsDone'[i]] /\ rowsDone'[n] = z
  /\ \A i \in Rows : i # n => rowsDone'[i] = rowsDone[i]
  /\ \A i \in Rows : IsDone(i) <=> i < n
  /\ item.status # "COMPLETED"
  /\ \A v \in ImportWorkers : execution[v].pc # "completing"

\* A row is done: what stays true of everything else.
LEMMA RowWritten ==
  ASSUME ImportInv, NEW w \in ImportWorkers, Reading(w), NEW n, n = At(w), ~IsDone(n),
         NEW z, z.outcome \in Outcomes, rowsDone' = [rowsDone EXCEPT ![n] = z]
  PROVE  RowPut(n, z)
<1>1. execution[w].pc = "rows" /\ execution[w].at < RowCount /\ execution[w].at \in 0 .. RowCount
  BY AtWork DEF Reading, IsExecution
<1>2. n \in Rows /\ n = execution[w].at + 1 /\ RowCount \in Nat
  BY <1>1, ImportAssumption DEF At, Rows
<1>3. \A j \in 1 .. n - 1 : IsDone(j)
  BY <1>1, <1>2, AtWork DEF Stands
<1>4. \A i \in Rows : IsDone(i) <=> i < n
  <2>1. ASSUME NEW i \in Rows, IsDone(i), ~(i < n) PROVE FALSE
    <3>1. i # n
      BY <2>1
    <3>2. n \in 1 .. i - 1
      BY <1>2, <2>1, <3>1 DEF Rows
    <3> QED BY <2>1, <3>2 DEF ImportInv, InOrder
  <2>2. \A i \in Rows : i < n => i \in 1 .. n - 1
    BY <1>2 DEF Rows
  <2> QED BY <1>3, <2>1, <2>2
<1>5. z.outcome # "NONE"
  BY DEF Outcomes
<1>6. rowsDone = [i \in Rows |-> rowsDone[i]]
  BY DEF ImportInv, ImportTyped
<1>7. /\ rowsDone'[n] = z /\ \A i \in Rows : i # n => rowsDone'[i] = rowsDone[i]
      /\ rowsDone' = [i \in Rows |-> rowsDone'[i]]
  BY <1>2, <1>6
<1>8. InOrder'
  <2>1. \A i \in Rows : IsDone(i)' <=> i <= n
    BY <1>2, <1>4, <1>5, <1>7 DEF IsDone, Rows
  <2>2. \A i \in Rows : \A j \in 1 .. i - 1 : j \in Rows /\ j < i
    BY <1>2 DEF Rows
  <2> QED BY <1>2, <2>1, <2>2 DEF InOrder, Rows
<1>9. item.status # "COMPLETED" /\ \A v \in ImportWorkers : execution[v].pc # "completing"
  <2>1. n \in Rows /\ ~IsDone(n)
    BY <1>2, <1>4
  <2>2. item.status # "COMPLETED"
    BY <2>1 DEF ImportInv, Completed
  <2>3. \A v \in ImportWorkers : execution[v].pc # "completing"
    BY <2>1 DEF ImportInv, Passed, Stands
  <2> QED BY <2>2, <2>3
<1> QED BY <1>2, <1>4, <1>7, <1>8, <1>9 DEF RowPut

LEMMA WrittenStep ==
  ASSUME ImportInv, NEW w \in ImportWorkers, Reading(w), NEW n, n = At(w), ~IsDone(n), n \notin execution[w].done,
         NEW z, z.outcome \in Outcomes, z.email = EmailOf(w), rowsDone' = [rowsDone EXCEPT ![n] = z],
         NEW y, IsExecution(y), execution' = [execution EXCEPT ![w] = y],
         y.pc = "rows", y.map = execution[w].map, y.at = n, y.done = execution[w].done,
         execution[w].seen \subseteq y.seen, z.outcome \in {"CREATED", "UPDATED"} => z.email \in y.seen,
         UNCHANGED <<item, itemJob, remapped>>, tagRows \subseteq tagRows', y.cache \subseteq tagRows',
         applied' \in [ImportAddresses -> SUBSET Rows], AppliedOnce',
         ~remapped => Distinct' /\ unasked' = {}
  PROVE  ImportInv'
<1>1. /\ n \in Rows /\ InOrder' /\ IsDone(n)'
      /\ rowsDone' = [i \in Rows |-> rowsDone'[i]]
      /\ rowsDone'[n] = z
      /\ \A i \in Rows : i # n => rowsDone'[i] = rowsDone[i]
      /\ \A i \in Rows : IsDone(i) <=> i < n
      /\ item.status # "COMPLETED"
      /\ \A v \in ImportWorkers : execution[v].pc # "completing"
  <2>0. RowPut(n, z)
    BY RowWritten
  <2>1. IsDone(n)' <=> rowsDone'[n].outcome # "NONE"
    BY DEF IsDone
  <2>2. z.outcome # "NONE"
    BY DEF Outcomes
  <2>3. /\ n \in Rows /\ InOrder'
        /\ rowsDone' = [i \in Rows |-> rowsDone'[i]] /\ rowsDone'[n] = z
        /\ \A i \in Rows : i # n => rowsDone'[i] = rowsDone[i]
        /\ \A i \in Rows : IsDone(i) <=> i < n
    BY <2>0 DEF RowPut
  <2>4. /\ item.status # "COMPLETED"
        /\ \A v \in ImportWorkers : execution[v].pc # "completing"
    BY <2>0 DEF RowPut
  <2>5. IsDone(n)'
    BY <2>1, <2>2, <2>3
  <2> QED BY <2>3, <2>4, <2>5
<1>2. /\ execution'[w] = y /\ \A v \in ImportWorkers : v # w => execution'[v] = execution[v]
      /\ execution' = [v \in ImportWorkers |-> execution'[v]]
      /\ \A v \in ImportWorkers : IsExecution(execution'[v])
  BY ExecutionMoves
<1>3. /\ RowCount \in Nat /\ execution[w].pc = "rows" /\ item.status # "UPLOADED"
      /\ n = execution[w].at + 1 /\ execution[w].at \in 0 .. RowCount /\ execution[w].at < RowCount
      /\ Stands(execution[w]) /\ (~remapped => Agrees(execution[w]))
  BY AtWork DEF Reading, IsExecution, At
<1>4. \A v \in ImportWorkers : \A j \in 1 .. execution[v].at : j \in Rows
  BY <1>3 DEF ImportInv, ImportTyped, IsExecution, Rows
<1>5. \A i \in Rows : IsDone(i)' <=> IsDone(i) \/ i = n
  BY <1>1 DEF IsDone
<1>6. \A i \in Rows : i # n => (Upserted(i)' <=> Upserted(i))
  BY <1>1 DEF Upserted
<1>7. ImportTyped'
  BY <1>1, <1>2 DEF ImportInv, ImportTyped
<1>8. Uploaded' /\ Completed'
  BY <1>1, <1>3 DEF Uploaded, Completed
<1>9. \A j \in 1 .. n : j \in Rows /\ (j = n \/ j \in 1 .. execution[w].at)
  BY <1>1, <1>3 DEF Rows
<1>10. Passed'
  <2>1. Stands(y)'
    BY <1>1, <1>3, <1>5, <1>9 DEF Stands
  <2>2. ASSUME NEW v \in ImportWorkers, v # w PROVE Stands(execution[v])'
    <3>1. Stands(execution[v])
      BY DEF ImportInv, Passed
    <3>2. execution'[v] = execution[v] /\ execution[v].pc # "completing"
      BY <1>1, <1>2, <2>2
    <3> PICK x : x = execution[v]
      OBVIOUS
    <3>3. Stands(x)'
      BY <1>4, <1>5, <3>1, <3>2 DEF Stands
    <3> QED BY <3>2, <3>3
  <2> QED BY <1>2, <2>1, <2>2 DEF Passed
<1>11. ASSUME ~remapped PROVE OneMapping' /\ Asked'
  <2>1. z.email = EmailAt[item.map][n] /\ execution[w].map = item.map
    BY <1>3, <1>11 DEF Agrees, EmailOf, At
  <2>2. Agrees(y)'
    <3>1. y.map = item'.map
      BY <2>1
    <3>2. ASSUME NEW i \in Rows \ y.done, IsDone(i)' PROVE rowsDone'[i].email = EmailAt[item'.map][i]
      <4>1. CASE i = n
        BY <1>1, <2>1, <4>1
      <4>2. CASE i # n
        BY <1>1, <1>3, <1>5, <1>11, <3>2, <4>2 DEF Agrees
      <4> QED BY <4>1, <4>2
    <3>3. ASSUME NEW j \in 1 .. y.at, Upserted(j)' PROVE rowsDone'[j].email \in y.seen
      <4>1. CASE j = n
        BY <1>1, <3>3, <4>1 DEF Upserted
      <4>2. CASE j # n
        BY <1>1, <1>3, <1>6, <1>9, <1>11, <3>3, <4>2 DEF Agrees
      <4> QED BY <4>1, <4>2
    <3> QED BY <3>1, <3>2, <3>3 DEF Agrees
  <2>3. ASSUME NEW v \in ImportWorkers, v # w PROVE Agrees(execution[v])'
    <3> PICK x : x = execution[v]
      OBVIOUS
    <3>1. Agrees(x) /\ Stands(x) /\ execution'[v] = x /\ \A j \in 1 .. x.at : j \in Rows
      BY <1>2, <1>4, <1>11, <2>3 DEF ImportInv, OneMapping, Passed
    <3>2. ASSUME x.pc = "rows", NEW i \in Rows \ x.done, IsDone(i)' PROVE rowsDone'[i].email = EmailAt[item'.map][i]
      BY <1>1, <1>5, <2>1, <3>1, <3>2 DEF Agrees
    <3>3. ASSUME x.pc = "rows", NEW j \in 1 .. x.at, Upserted(j)' PROVE rowsDone'[j].email \in x.seen
      <4>1. IsDone(j) /\ j \in Rows
        BY <3>1, <3>3 DEF Stands
      <4>2. j # n
        BY <1>1, <1>3, <4>1 DEF Rows
      <4> QED BY <1>1, <1>6, <3>1, <3>3, <4>1, <4>2 DEF Agrees
    <3>4. Agrees(x)'
      BY <3>1, <3>2, <3>3 DEF Agrees
    <3> QED BY <3>1, <3>4
  <2>4. OneMapping'
    BY <1>2, <2>2, <2>3 DEF OneMapping
  <2>5. JobOpen
    BY <1>3, AtWork
  <2>6. Asked'
    BY <1>11, <2>5 DEF ImportInv, Asked
  <2> QED BY <2>4, <2>6
<1> QED BY <1>1, <1>7, <1>8, <1>10, <1>11 DEF ImportInv

LEMMA RowRejected ==
  ASSUME ImportInv, NEW w \in ImportWorkers, NEW outcome \in {"INVALID", "SKIPPED"}, RejectRow(w, outcome)
  PROVE  ImportInv'
<1> PICK n, z : n = At(w) /\ z = [outcome |-> outcome, email |-> EmailOf(w)]
  OBVIOUS
<1>1. /\ Reading(w) /\ n \notin execution[w].done /\ execution[w].pc # "idle"
      /\ UNCHANGED <<item, itemJob, tagRows, applied, unasked, remapped>>
  BY DEF RejectRow, Reading
<1>2. CASE IsDone(n)
  <2>1. Throws(w) /\ UNCHANGED rowsDone
    BY <1>2 DEF RejectRow, IsDone
  <2> QED BY <1>1, <2>1, ExecutionFails
<1>3. CASE ~IsDone(n)
  <2> PICK s, c : s = execution[w].seen /\ c = execution[w].cache
    OBVIOUS
  <2>1. rowsDone' = [rowsDone EXCEPT ![n] = z] /\ Advance(w, s, c)
    BY <1>3 DEF RejectRow, IsDone
  <2>2. PICK y : /\ execution' = [execution EXCEPT ![w] = y] /\ IsExecution(y)
                 /\ y.pc = "rows" /\ y.map = execution[w].map /\ y.at = n
                 /\ y.done = execution[w].done /\ y.seen = s /\ y.cache = c
    BY <1>1, <2>1, AdvanceIs
  <2>3. z.outcome \in Outcomes /\ z.outcome \notin {"CREATED", "UPDATED"} /\ z.email = EmailOf(w)
    BY DEF Outcomes
  <2>4. /\ n \in Rows /\ rowsDone'[n] = z /\ \A i \in Rows : i # n => rowsDone'[i] = rowsDone[i]
    <3>1. Reading(w) /\ n = At(w) /\ ~IsDone(n) /\ z.outcome \in Outcomes
      BY <1>1, <1>3, <2>3
    <3>2. rowsDone' = [rowsDone EXCEPT ![n] = z]
      BY <2>1
    <3>3. RowPut(n, z)
      BY <3>1, <3>2, RowWritten
    <3> QED BY <3>3 DEF RowPut
  <2>5. \A i \in Rows : Upserted(i)' => Upserted(i) /\ i # n
    BY <2>3, <2>4 DEF Upserted
  <2>6. ~Upserted(n)
    BY <1>3 DEF Upserted, IsDone
  <2>7. AppliedOnce'
    <3>1. applied \in [ImportAddresses -> SUBSET Rows]
      BY DEF ImportInv, ImportTyped
    <3>2. \A i \in Rows : Upserted(i) => i # n /\ Upserted(i)' /\ rowsDone'[i] = rowsDone[i]
      BY <2>4, <2>6 DEF Upserted
    <3>3. \A e \in ImportAddresses : \A i \in applied'[e] : Upserted(i)' /\ rowsDone'[i].email = e
      BY <1>1, <3>1, <3>2 DEF ImportInv, AppliedOnce
    <3>4. \A i \in Rows : Upserted(i)' => rowsDone'[i].email # BadEmail
      BY <2>4, <2>5 DEF ImportInv, AppliedOnce
    <3> QED BY <3>3, <3>4 DEF AppliedOnce
  <2>8. ~remapped => Distinct' /\ unasked' = {}
    BY <1>1, <2>4, <2>5 DEF ImportInv, Distinct, Asked
  <2>9. y.cache \subseteq tagRows' /\ applied' \in [ImportAddresses -> SUBSET Rows] /\ tagRows \subseteq tagRows'
    BY <1>1, <2>2, AtWork DEF Stands, ImportInv, ImportTyped
  <2> QED BY <1>1, <1>3, <2>1, <2>2, <2>3, <2>7, <2>8, <2>9, WrittenStep
<1> QED BY <1>2, <1>3

LEMMA RowUpserted ==
  ASSUME ImportInv, NEW w \in ImportWorkers, UpsertRow(w)
  PROVE  ImportInv'
<1> PICK n, m, t, s, c : /\ n = At(w) /\ m = EmailOf(w) /\ t = TagOf(w)
                         /\ s = execution[w].seen \cup {m} /\ c = execution[w].cache \cup {t}
  OBVIOUS
<1> PICK o : o = IF m \in people THEN "UPDATED" ELSE "CREATED"
  OBVIOUS
<1> PICK z : z = [outcome |-> o, email |-> m]
  OBVIOUS
<1>1. /\ Reading(w) /\ n \notin execution[w].done /\ execution[w].pc = "rows" /\ execution[w].pc # "idle"
      /\ UNCHANGED <<item, itemJob, remapped>> /\ ~IsDone(n)
      /\ m \notin execution[w].seen \cup {BadEmail}
      /\ tagRows' = IF t \in execution[w].cache THEN tagRows ELSE tagRows \cup {t}
      /\ unasked' = IF item.confirmed THEN unasked ELSE unasked \cup (tagRows' \ tagRows)
      /\ rowsDone' = [rowsDone EXCEPT ![n] = z]
      /\ applied' = [applied EXCEPT ![m] = applied[m] \cup {n}]
      /\ Advance(w, s, c)
  BY DEF UpsertRow, FreshRow, Reading, IsDone
<1>2. PICK y : /\ execution' = [execution EXCEPT ![w] = y] /\ IsExecution(y)
               /\ y.pc = "rows" /\ y.map = execution[w].map /\ y.at = n
               /\ y.done = execution[w].done /\ y.seen = s /\ y.cache = c
  BY <1>1, AdvanceIs
<1>3. z.outcome \in Outcomes /\ z.outcome \in {"CREATED", "UPDATED"} /\ z.email = m
  BY DEF Outcomes
<1>4. /\ n \in Rows /\ rowsDone'[n] = z /\ \A i \in Rows : i # n => rowsDone'[i] = rowsDone[i]
      /\ \A i \in Rows : IsDone(i) <=> i < n
  <2>1. RowPut(n, z)
    BY <1>1, <1>3, RowWritten
  <2> QED BY <2>1 DEF RowPut
<1>5. /\ Upserted(n)' /\ ~Upserted(n) /\ \A i \in Rows : i # n => (Upserted(i)' <=> Upserted(i))
      /\ \A i \in Rows : Upserted(i) => IsDone(i)
  BY <1>1, <1>3, <1>4 DEF Upserted, IsDone
<1>6. execution[w].map \in Mappings /\ m \in ImportAddresses
  <2>1. execution[w].map \in Mappings
    BY <1>1, AtWork DEF IsExecution
  <2> QED BY <1>4, <2>1 DEF EmailOf, ImportAddresses
<1>7. /\ applied \in [ImportAddresses -> SUBSET Rows] /\ applied' \in [ImportAddresses -> SUBSET Rows]
      /\ \A e \in ImportAddresses : applied'[e] = IF e = m THEN applied[m] \cup {n} ELSE applied[e]
  BY <1>1, <1>4, <1>6 DEF ImportInv, ImportTyped
<1>8. AppliedOnce'
  <2>1. ASSUME NEW e \in ImportAddresses, NEW i \in applied'[e] PROVE Upserted(i)' /\ rowsDone'[i].email = e
    <3>1. CASE i = n /\ e = m
      BY <1>3, <1>4, <1>5, <3>1
    <3>2. CASE i \in applied[e]
      <4>1. Upserted(i) /\ rowsDone[i].email = e /\ i \in Rows
        BY <1>7, <3>2 DEF ImportInv, AppliedOnce
      <4> QED BY <1>4, <1>5, <4>1
    <3> QED BY <1>7, <2>1, <3>1, <3>2
  <2>2. ASSUME NEW i \in Rows, Upserted(i)' PROVE rowsDone'[i].email # BadEmail
    <3>1. CASE i = n
      BY <1>1, <1>3, <1>4, <3>1
    <3>2. CASE i # n
      BY <1>4, <1>5, <2>2, <3>2 DEF ImportInv, AppliedOnce
    <3> QED BY <3>1, <3>2
  <2> QED BY <2>1, <2>2 DEF AppliedOnce
<1>9. ASSUME ~remapped PROVE Distinct'
  <2>1. \A i \in Rows : i # n /\ Upserted(i) => rowsDone[i].email # m
    <3>1. \A i \in Rows : i < n => i \in 1 .. execution[w].at
      BY <1>1, <1>4, AtWork DEF At, Rows, IsExecution
    <3> QED BY <1>1, <1>4, <1>5, <1>9, <3>1, AtWork DEF Agrees
  <2>2. \A i \in Rows : i # n /\ Upserted(i)' => rowsDone'[i].email # m
    BY <1>4, <1>5, <2>1
  <2>3. \A i, j \in Rows : i # n /\ j # n /\ Upserted(i)' /\ Upserted(j)' /\ rowsDone'[i].email = rowsDone'[j].email => i = j
    BY <1>4, <1>5, <1>9 DEF ImportInv, Distinct
  <2>4. rowsDone'[n].email = m
    BY <1>3, <1>4
  <2> QED BY <2>2, <2>3, <2>4 DEF Distinct
<1>10. ASSUME ~remapped PROVE unasked' = {}
  <2>1. Asked /\ JobOpen /\ execution[w].map = item.map
    BY <1>1, <1>10, AtWork DEF ImportInv, Agrees
  <2>2. CASE item.confirmed
    BY <1>1, <2>1, <2>2 DEF Asked
  <2>3. CASE ~item.confirmed
    <3>1. t \in tagRows
      BY <1>4, <1>6, <2>1, <2>3 DEF Asked, TagOf
    <3> QED BY <1>1, <2>1, <3>1 DEF Asked
  <2> QED BY <2>2, <2>3
<1>11. tagRows \subseteq tagRows' /\ y.cache \subseteq tagRows'
  BY <1>1, <1>2, AtWork DEF Stands
<1>12. /\ Reading(w) /\ ~IsDone(n) /\ n \notin execution[w].done /\ n = At(w)
       /\ rowsDone' = [rowsDone EXCEPT ![n] = z] /\ z.email = EmailOf(w) /\ z.outcome \in Outcomes
       /\ UNCHANGED <<item, itemJob, remapped>>
  BY <1>1, <1>3
<1>13. /\ execution' = [execution EXCEPT ![w] = y] /\ IsExecution(y)
       /\ y.pc = "rows" /\ y.map = execution[w].map /\ y.at = n /\ y.done = execution[w].done
       /\ execution[w].seen \subseteq y.seen /\ z.email \in y.seen
  BY <1>2, <1>3
<1>14. applied' \in [ImportAddresses -> SUBSET Rows] /\ AppliedOnce' /\ (~remapped => Distinct' /\ unasked' = {})
  BY <1>7, <1>8, <1>9, <1>10
<1> QED BY <1>11, <1>12, <1>13, <1>14, WrittenStep

\* Requests and the loss of a lock leave the rows and the executions alone.
LEMMA RowsUntouched ==
  ASSUME ImportInv, UNCHANGED <<rowsDone, tagRows, execution, applied, unasked>>
  PROVE  /\ InOrder' /\ Passed' /\ AppliedOnce' /\ (Distinct => Distinct') /\ Tally' = Tally
         /\ (IsItem(item') /\ IsJob(itemJob') => ImportTyped')
         /\ (item'.map = item.map => (OneMapping => OneMapping'))
<1>1. Tally' = Tally
  BY DEF Tally
<1>2. \A x : Stands(x) => Stands(x)'
  BY <1>1 DEF Stands, IsDone
<1>3. Passed'
  BY <1>2 DEF ImportInv, Passed
<1>4. InOrder' /\ AppliedOnce' /\ (Distinct => Distinct')
  BY DEF ImportInv, InOrder, AppliedOnce, Distinct, IsDone, Upserted
<1>5. IsItem(item') /\ IsJob(itemJob') => ImportTyped'
  BY DEF ImportInv, ImportTyped
<1>6. ASSUME item'.map = item.map, OneMapping PROVE OneMapping'
  <2>1. \A x : Agrees(x) => Agrees(x)'
    BY <1>6 DEF Agrees, IsDone, Upserted
  <2> QED BY <1>6, <2>1 DEF OneMapping
<1> QED BY <1>1, <1>3, <1>4, <1>5, <1>6

ItemOf(status, map, unknown, confirmed, counts) ==
  [status |-> status, map |-> map, unknown |-> unknown, confirmed |-> confirmed, counts |-> counts]

LEMMA ItemValidated ==
  ASSUME IsItem(item), NEW m \in Mappings, Validate(m)
  PROVE  /\ IsItem(item') /\ item'.status = "READY" /\ item'.map = m
         /\ item'.unknown = {TagAt[m][i] : i \in Rows} \ tagRows
<1> PICK u, a, b : /\ u = {TagAt[m][i] : i \in Rows} \ tagRows /\ a = Cardinality(InvalidUnder(m))
                   /\ b = Cardinality(RepeatedUnder(m))
  OBVIOUS
<1>1. PICK s, n, v, c, k : item = ItemOf(s, n, v, c, k)
  BY DEF IsItem, ItemOf
<1>0. FALSE \in BOOLEAN
  BY Zenon
<1> PICK f : f = FALSE /\ f \in BOOLEAN
  BY <1>0, Zenon
<1>2. item' = [item EXCEPT !.status = "READY", !.map = m, !.confirmed = f, !.unknown = u,
                          !.counts["INVALID"] = a, !.counts["SKIPPED"] = b]
  BY Zenon DEF Validate
<1>3. [item EXCEPT !.status = "READY"] = ItemOf("READY", n, v, c, k)
  BY <1>1 DEF ItemOf
<1>4. [ItemOf("READY", n, v, c, k) EXCEPT !.map = m] = ItemOf("READY", m, v, c, k)
  BY DEF ItemOf
<1>5. [ItemOf("READY", m, v, c, k) EXCEPT !.confirmed = f] = ItemOf("READY", m, v, f, k)
  BY DEF ItemOf
<1>6. [ItemOf("READY", m, v, f, k) EXCEPT !.unknown = u] = ItemOf("READY", m, u, f, k)
  BY DEF ItemOf
<1>7. ASSUME NEW r, NEW o, NEW z, NEW l, r = ItemOf("READY", m, u, f, l)
      PROVE  [r EXCEPT !.counts[o] = z] = ItemOf("READY", m, u, f, [l EXCEPT ![o] = z])
  <2>1. r.counts = l
    BY <1>7 DEF ItemOf
  <2>2. [r EXCEPT !.counts[o] = z] = [r EXCEPT !.counts = [l EXCEPT ![o] = z]]
    BY <2>1
  <2> PICK x : x = [l EXCEPT ![o] = z]
    OBVIOUS
  <2>3. [r EXCEPT !.counts = x] = ItemOf("READY", m, u, f, x)
    BY <1>7 DEF ItemOf
  <2> QED BY <2>2, <2>3
<1>8. \E l : item' = ItemOf("READY", m, u, f, l)
  <2>1. [item EXCEPT !.status = "READY", !.map = m, !.confirmed = f, !.unknown = u] = ItemOf("READY", m, u, f, k)
    <3> PICK r1 : r1 = [item EXCEPT !.status = "READY"]
      OBVIOUS
    <3> PICK r2 : r2 = [r1 EXCEPT !.map = m]
      OBVIOUS
    <3> PICK r3 : r3 = [r2 EXCEPT !.confirmed = f]
      OBVIOUS
    <3> PICK r4 : r4 = [r3 EXCEPT !.unknown = u]
      OBVIOUS
    <3>1. [item EXCEPT !.status = "READY", !.map = m, !.confirmed = f, !.unknown = u] = r4
      BY Zenon
    <3>2. r1 = ItemOf("READY", n, v, c, k)
      BY <1>3
    <3>3. r2 = ItemOf("READY", m, v, c, k)
      BY <1>4, <3>2
    <3>4. r3 = ItemOf("READY", m, v, f, k)
      BY <1>5, <3>3
    <3>5. r4 = ItemOf("READY", m, u, f, k)
      BY <1>6, <3>4
    <3> QED BY <3>1, <3>5
  <2> DEFINE r == [item EXCEPT !.status = "READY", !.map = m, !.confirmed = f, !.unknown = u]
             q == [r EXCEPT !.counts["INVALID"] = a]
  <2>2. item' = [q EXCEPT !.counts["SKIPPED"] = b]
    BY <1>2
  <2>3. r = ItemOf("READY", m, u, f, k)
    BY <2>1
  <2> HIDE DEF r
  <2>4. q = ItemOf("READY", m, u, f, [k EXCEPT !["INVALID"] = a])
    BY <1>7, <2>3
  <2> HIDE DEF q
  <2>5. PICK p : q = ItemOf("READY", m, u, f, p)
    BY <2>4
  <2>6. [q EXCEPT !.counts["SKIPPED"] = b] = ItemOf("READY", m, u, f, [p EXCEPT !["SKIPPED"] = b])
    <3>1. ASSUME NEW t, t = ItemOf("READY", m, u, f, p)
          PROVE  [t EXCEPT !.counts["SKIPPED"] = b] = ItemOf("READY", m, u, f, [p EXCEPT !["SKIPPED"] = b])
      <4>1. t.counts = p
        BY <3>1 DEF ItemOf
      <4> QED BY <4>1, <3>1 DEF ItemOf
    <3>2. \A t : t = q => [t EXCEPT !.counts["SKIPPED"] = b] = ItemOf("READY", m, u, f, [p EXCEPT !["SKIPPED"] = b])
      BY <2>5, <3>1
    <3> QED BY <3>2
  <2> QED BY <2>2, <2>6
<1>9. \A l : /\ IsItem(ItemOf("READY", m, u, f, l)) /\ ItemOf("READY", m, u, f, l).status = "READY"
             /\ ItemOf("READY", m, u, f, l).map = m /\ ItemOf("READY", m, u, f, l).unknown = u
  BY DEF IsItem, ItemOf
<1> QED BY <1>8, <1>9

LEMMA ImportValidated ==
  ASSUME ImportInv, NEW m \in Mappings, Validate(m)
  PROVE  ImportInv'
<1>1. UNCHANGED <<itemJob, rowsDone, tagRows, execution, applied, unasked>>
      /\ remapped' = (remapped \/ itemJob.status \in {"PENDING", "PROCESSING"} \/ Running # {})
  BY DEF Validate
<1>2. /\ IsItem(item') /\ item'.status = "READY" /\ item'.map = m
      /\ item'.unknown = {TagAt[m][i] : i \in Rows} \ tagRows
  BY ItemValidated DEF ImportInv, ImportTyped
<1>3. InOrder' /\ Passed' /\ AppliedOnce' /\ (Distinct => Distinct') /\ ImportTyped'
  BY <1>1, <1>2, RowsUntouched DEF ImportInv, ImportTyped
<1>4. Uploaded' /\ Completed'
  BY <1>2 DEF Uploaded, Completed
<1>5. ASSUME ~remapped' PROVE OneMapping' /\ Distinct' /\ Asked'
  <2>1. ~remapped /\ Running = {} /\ itemJob.status \notin {"PENDING", "PROCESSING"}
    BY <1>1, <1>5
  <2>2. OneMapping'
    BY <1>1, <2>1 DEF OneMapping, Agrees, Running
  <2>3. ~JobOpen'
    BY <1>1, <2>1 DEF JobOpen, Running
  <2>4. Asked'
    BY <1>1, <1>2, <2>1, <2>3 DEF ImportInv, Asked
  <2> QED BY <1>3, <2>1, <2>2, <2>4 DEF ImportInv
<1> QED BY <1>3, <1>4, <1>5 DEF ImportInv

LEMMA ImportApplied ==
  ASSUME ImportInv, NEW confirm \in BOOLEAN, Apply(confirm)
  PROVE  ImportInv'
<1>1. /\ item.status \in {"READY", "FAILED"} /\ (item.unknown = {} \/ confirm)
      /\ item' = [item EXCEPT !.status = "PROCESSING", !.confirmed = confirm]
      /\ itemJob' = [status |-> "PENDING", attempts |-> 0, holder |-> NoMapping]
      /\ UNCHANGED <<rowsDone, tagRows, execution, applied, unasked, remapped>>
  BY DEF Apply
<1>2. PICK s, n, v, c, k : item = ItemOf(s, n, v, c, k)
  BY DEF ImportInv, ImportTyped, IsItem, ItemOf
<1>3. [item EXCEPT !.status = "PROCESSING"] = ItemOf("PROCESSING", n, v, c, k)
  BY <1>2 DEF ItemOf
<1>4. [ItemOf("PROCESSING", n, v, c, k) EXCEPT !.confirmed = confirm] = ItemOf("PROCESSING", n, v, confirm, k)
  BY DEF ItemOf
<1>5. item' = ItemOf("PROCESSING", n, v, confirm, k)
  BY <1>1, <1>3, <1>4
<1>6. n \in Mappings /\ item.map = n /\ item.unknown = v
  <2>1. item.status # "UPLOADED"
    BY <1>1
  <2> QED BY <1>2, <2>1 DEF ImportInv, ImportTyped, IsItem, ItemOf
<1>7. IsItem(item') /\ item'.map = n /\ item'.unknown = v /\ item'.confirmed = confirm /\ item'.status = "PROCESSING"
  BY <1>5, <1>6 DEF IsItem, ItemOf
<1>8. IsJob(itemJob')
  BY <1>1 DEF IsJob
<1>9. /\ InOrder' /\ Passed' /\ AppliedOnce' /\ (Distinct => Distinct') /\ ImportTyped' /\ (OneMapping => OneMapping')
  BY <1>1, <1>6, <1>7, <1>8, RowsUntouched
<1>10. Uploaded' /\ Completed'
  BY <1>7 DEF Uploaded, Completed
<1>11. ASSUME ~remapped PROVE Asked'
  BY <1>1, <1>6, <1>7, <1>11 DEF ImportInv, Asked
<1> QED BY <1>1, <1>9, <1>10, <1>11 DEF ImportInv

LEMMA JobLost ==
  ASSUME ImportInv, NEW w \in ImportWorkers, LoseJob(w)
  PROVE  ImportInv'
<1>1. /\ itemJob.status = "PROCESSING" /\ itemJob' = [itemJob EXCEPT !.status = "PENDING", !.holder = NoMapping]
      /\ UNCHANGED <<item, rowsDone, tagRows, execution, applied, unasked, remapped>>
  BY DEF LoseJob
<1>2. IsJob(itemJob') /\ IsItem(item')
  BY <1>1, JobSettles DEF ImportInv, ImportTyped
<1>3. InOrder' /\ Passed' /\ AppliedOnce' /\ (Distinct => Distinct') /\ ImportTyped' /\ (OneMapping => OneMapping')
      /\ Tally' = Tally
  BY <1>1, <1>2, RowsUntouched
<1>4. Uploaded' /\ Completed'
  BY <1>1, <1>3 DEF ImportInv, Uploaded, Completed, IsDone
<1>5. JobOpen
  BY <1>1 DEF JobOpen
<1>6. ASSUME ~remapped PROVE Asked'
  BY <1>1, <1>5, <1>6 DEF ImportInv, Asked
<1> QED BY <1>1, <1>3, <1>4, <1>6 DEF ImportInv

LEMMA ImportStays ==
  ASSUME ImportInv, UNCHANGED <<item, itemJob, rowsDone, tagRows, execution, applied, unasked, remapped>>
  PROVE  ImportInv'
<1>1. IsJob(itemJob') /\ IsItem(item')
  BY DEF ImportInv, ImportTyped
<1>2. InOrder' /\ Passed' /\ AppliedOnce' /\ (Distinct => Distinct') /\ ImportTyped' /\ (OneMapping => OneMapping')
      /\ Tally' = Tally
  BY <1>1, RowsUntouched
<1>3. Uploaded' /\ Completed'
  BY <1>2 DEF ImportInv, Uploaded, Completed, IsDone
<1>4. ASSUME ~remapped PROVE Asked'
  BY <1>4 DEF ImportInv, Asked, JobOpen, Running
<1> QED BY <1>2, <1>3, <1>4 DEF ImportInv

LEMMA ImportBegins ==
  ASSUME ImportInit
  PROVE  ImportInv
<1>1. item.status = "UPLOADED" /\ item.map = NoMapping /\ itemJob.status = "NONE" /\ unasked = {}
      /\ rowsDone = [i \in Rows |-> NoRowYet] /\ execution = [w \in ImportWorkers |-> Idle]
      /\ applied = [e \in ImportAddresses |-> {}]
  BY DEF ImportInit
<1>2. IsItem(item) /\ IsJob(itemJob)
  BY DEF ImportInit, IsItem, IsJob
<1>3. IsExecution(Idle) /\ Stands(Idle) /\ Agrees(Idle) /\ Idle.pc = "idle"
  BY IdleIs DEF Execution, Stands, Agrees
<1>4. \A i \in Rows : ~IsDone(i) /\ ~Upserted(i)
  BY <1>1 DEF IsDone, Upserted, NoRowYet
<1>5. ImportTyped
  BY <1>1, <1>2, <1>3 DEF ImportTyped
<1>6. Uploaded /\ InOrder /\ Completed /\ AppliedOnce /\ Distinct
  BY <1>1, <1>3, <1>4 DEF Uploaded, InOrder, Completed, AppliedOnce, Distinct
<1>7. Passed /\ OneMapping
  BY <1>1, <1>3 DEF Passed, OneMapping
<1>8. Asked
  BY <1>1, <1>3, ImportAssumption DEF Asked, JobOpen, Running
<1> QED BY <1>5, <1>6, <1>7, <1>8 DEF ImportInv

LEMMA ImportStep ==
  ASSUME ImportInv, [ImportNext]_importVars
  PROVE  ImportInv'
<1>1. CASE \E m \in Mappings : Validate(m)
  BY <1>1, ImportValidated
<1>2. CASE \E confirm \in BOOLEAN : Apply(confirm)
  BY <1>2, ImportApplied
<1>3. CASE \E e \in ImportAddresses : ContactAppears(e)
  BY <1>3, ImportStays DEF ContactAppears
<1>4. ASSUME NEW w \in ImportWorkers, Claim(w) \/ LoseJob(w) \/ CrashImport(w)
      PROVE  ImportInv'
  BY <1>4, ImportClaimed, JobLost, ImportCrashes
<1>5. ASSUME NEW w \in ImportWorkers, PassRow(w) \/ FindRowDone(w) \/ UpsertRow(w)
      PROVE  ImportInv'
  BY <1>5, RowPasses, RowUpserted
<1>6. ASSUME NEW w \in ImportWorkers, RejectRow(w, "INVALID") \/ RejectRow(w, "SKIPPED")
      PROVE  ImportInv'
  BY <1>6, RowRejected
<1>7. ASSUME NEW w \in ImportWorkers, RollBack(w) \/ FileError(w)
      PROVE  ImportInv'
  <2>1. execution[w].pc = "rows"
    BY <1>7 DEF RollBack, FileError, FreshRow, Reading
  <2> QED BY <1>7, <2>1, ExecutionFails DEF RollBack, FileError
<1>8. ASSUME NEW w \in ImportWorkers, CountRows(w) \/ CountFailure(w) \/ Complete(w) \/ Fail(w)
      PROVE  ImportInv'
  BY <1>8, RowsCounted, ImportSettles
<1>9. CASE UNCHANGED importVars
  BY <1>9, ImportStays DEF importVars
<1> QED BY <1>1, <1>2, <1>3, <1>4, <1>5, <1>6, <1>7, <1>8, <1>9 DEF ImportNext

\* The invariant is what the project promises of an import: an address stands
\* in one upserted row at most, and that row is the only one it was applied by.
LEMMA ImportIsAccounted ==
  ASSUME ImportInv
  PROVE  ImportAccounted
<1>1. ASSUME ~remapped, NEW e \in ImportAddresses PROVE Cardinality(applied[e]) <= 1
  <2>1. \A i, j \in applied[e] : i = j
    <3>1. applied[e] \subseteq Rows
      BY DEF ImportInv, ImportTyped
    <3> QED BY <1>1, <3>1 DEF ImportInv, AppliedOnce, Distinct
  <2>2. CASE applied[e] = {}
    BY <2>2, FS_EmptySet
  <2>3. CASE applied[e] # {}
    <3>1. PICK i : applied[e] = {i}
      BY <2>1, <2>3
    <3> QED BY <3>1, FS_Singleton
  <2> QED BY <2>2, <2>3
<1>2. ~remapped => unasked = {}
  BY DEF ImportInv, Asked
<1>3. item.status = "COMPLETED" => item.counts = Tally /\ \A i \in Rows : rowsDone[i].outcome # "NONE"
  BY DEF ImportInv, Completed, IsDone
<1>4. \A w \in ImportWorkers : execution[w].cache \subseteq tagRows
  BY DEF ImportInv, Passed, Stands
<1> QED BY <1>1, <1>2, <1>3, <1>4 DEF ImportAccounted

\* Whatever crashes, retries, second executions and validations an import
\* meets, and for a file of any length: one contact upsert per address, a
\* COMPLETED import whose counts are the tally of its rows, no unknown tag
\* created unasked, unless a validation was saved while its job could run.
THEOREM ImportCorrect == ImportSpec => []ImportAccounted
<1>1. ImportInit => ImportInv
  BY ImportBegins
<1>2. ImportInv /\ [ImportNext]_importVars => ImportInv'
  BY ImportStep
<1>3. ImportInv => ImportAccounted
  BY ImportIsAccounted
<1> QED BY <1>1, <1>2, <1>3, PTL DEF ImportSpec

-----------------------------------------------------------------------------
(* The import's rows and counts stay within the file. *)

ImportCounts == [Outcomes -> 0 .. RowCount]
ItemRows ==
  [status : {"UPLOADED", "READY", "PROCESSING", "COMPLETED", "FAILED"},
   map : Mappings \cup {NoMapping}, unknown : SUBSET Tags, confirmed : BOOLEAN, counts : ImportCounts]
JobRows ==
  [status : {"NONE", "PENDING", "PROCESSING", "COMPLETED", "FAILED"},
   attempts : 0 .. MaxTries, holder : ImportWorkers \cup {NoMapping}]
DoneRows == [outcome : Outcomes \cup {"NONE"}, email : ImportAddresses \cup {BadEmail}]
Executions ==
  [pc : {"idle", "rows", "failing", "completing", "failed"}, map : Mappings \cup {NoMapping}, at : 0 .. RowCount,
   done : SUBSET Rows, seen : SUBSET ImportAddresses, cache : SUBSET Tags, counts : ImportCounts]
ImportBounds ==
  /\ item \in ItemRows /\ itemJob \in JobRows
  /\ rowsDone \in [Rows -> DoneRows]
  /\ people \subseteq ImportAddresses \cup KnownContacts /\ tagRows \subseteq Tags /\ unasked \subseteq Tags
  /\ execution \in [ImportWorkers -> Executions]
  /\ validated \in 0 .. MaxValidations /\ remapped \in BOOLEAN

\* A set of rows is no larger than the file.
LEMMA RowsBounded == \A S \in SUBSET Rows : Cardinality(S) \in 0 .. RowCount
<1> TAKE S \in SUBSET Rows
<1>1. IsFiniteSet(Rows) /\ Cardinality(Rows) = RowCount
  BY FS_Interval, ImportAssumption DEF Rows
<1>2. IsFiniteSet(S) /\ Cardinality(S) <= Cardinality(Rows)
  BY <1>1, FS_Subset
<1>3. Cardinality(S) \in Nat
  BY <1>2, FS_CardinalityType
<1> QED BY <1>1, <1>2, <1>3, ImportAssumption

LEMMA CountsTyped ==
  /\ NoCounts \in ImportCounts /\ Tally \in ImportCounts
  /\ \A m \in Mappings : Cardinality(InvalidUnder(m)) \in 0 .. RowCount /\ Cardinality(RepeatedUnder(m)) \in 0 .. RowCount
<1>1. NoCounts \in ImportCounts
  BY ImportAssumption DEF NoCounts, ImportCounts
<1>2. Tally \in ImportCounts
  <2>1. \A o \in Outcomes : Cardinality({i \in Rows : rowsDone[i].outcome = o}) \in 0 .. RowCount
    BY RowsBounded
  <2> QED BY <2>1 DEF Tally, ImportCounts
<1>3. \A m \in Mappings : InvalidUnder(m) \in SUBSET Rows /\ RepeatedUnder(m) \in SUBSET Rows
  BY DEF InvalidUnder, RepeatedUnder
<1> QED BY <1>1, <1>2, <1>3, RowsBounded

LEMMA IdleTyped ==
  /\ Idle \in Executions
  /\ \A pc \in {"rows", "failing", "completing", "failed"}, n \in ImportCounts :
       /\ [Idle EXCEPT !.pc = pc] \in Executions /\ [Idle EXCEPT !.pc = pc, !.counts = n] \in Executions
  /\ \A m \in Mappings \cup {NoMapping}, d \in SUBSET Rows :
       [Idle EXCEPT !.pc = "rows", !.map = m, !.done = d] \in Executions
<1>1. Idle \in Executions
  BY CountsTyped, ImportAssumption DEF Idle, Executions
<1>2. ASSUME NEW pc \in {"rows", "failing", "completing", "failed"}, NEW n \in ImportCounts
      PROVE  /\ [Idle EXCEPT !.pc = pc] \in Executions /\ [Idle EXCEPT !.pc = pc, !.counts = n] \in Executions
  BY <1>1 DEF Executions
<1>3. ASSUME NEW m \in Mappings \cup {NoMapping}, NEW d \in SUBSET Rows
      PROVE  [Idle EXCEPT !.pc = "rows", !.map = m, !.done = d] \in Executions
  BY <1>1 DEF Executions
<1> QED BY <1>1, <1>2, <1>3

\* The row an execution is at, under its mapping.
LEMMA RowAtHand ==
  ASSUME ImportInv, ImportBounds, NEW w \in ImportWorkers, Reading(w)
  PROVE  /\ At(w) \in Rows /\ EmailOf(w) \in ImportAddresses /\ TagOf(w) \in Tags
         /\ execution[w] \in Executions
         /\ \A s \in SUBSET ImportAddresses, c \in SUBSET Tags :
              Advance(w, s, c) => execution' \in [ImportWorkers -> Executions]
<1>1. execution[w] \in Executions /\ IsExecution(execution[w]) /\ execution[w].pc = "rows" /\ execution[w].at < RowCount
  BY DEF ImportBounds, Reading, ImportInv, ImportTyped
<1>2. execution[w].map \in Mappings /\ execution[w].at \in 0 .. RowCount
  BY <1>1 DEF IsExecution
<1>3. At(w) \in Rows
  BY <1>1, <1>2, ImportAssumption DEF At, Rows
<1>4. EmailOf(w) \in ImportAddresses /\ TagOf(w) \in Tags
  BY <1>2, <1>3 DEF EmailOf, TagOf, ImportAddresses, Tags
<1>5. ASSUME NEW s \in SUBSET ImportAddresses, NEW c \in SUBSET Tags, Advance(w, s, c)
      PROVE  execution' \in [ImportWorkers -> Executions]
  <2> DEFINE a == execution[w].at + 1
             y == [execution[w] EXCEPT !.at = a, !.seen = s, !.cache = c]
  <2>1. a \in 0 .. RowCount
    BY <1>1, <1>2, ImportAssumption
  <2>2. execution \in [ImportWorkers -> Executions]
    BY DEF ImportBounds
  <2> HIDE DEF a
  <2>3. y \in Executions
    BY <1>1, <2>1 DEF Executions
  <2>4. execution' = [execution EXCEPT ![w] = y]
    BY <1>1, <1>5, <2>2 DEF Advance, a
  <2> HIDE DEF y
  <2> QED BY <2>2, <2>3, <2>4
<1> QED BY <1>1, <1>3, <1>4, <1>5

\* What is written of a row.
LEMMA RowTypedAfter ==
  ASSUME ImportBounds, NEW i \in Rows, NEW o \in Outcomes, NEW e \in ImportAddresses,
         rowsDone' = [rowsDone EXCEPT ![i] = [outcome |-> o, email |-> e]]
  PROVE  rowsDone' \in [Rows -> DoneRows]
<1>1. [outcome |-> o, email |-> e] \in DoneRows
  BY DEF DoneRows
<1> QED BY <1>1 DEF ImportBounds

LEMMA ThrowTyped ==
  ASSUME ImportBounds, NEW w \in ImportWorkers, Throws(w)
  PROVE  execution' \in [ImportWorkers -> Executions]
<1>1. [Idle EXCEPT !.pc = "failing"] \in Executions
  BY IdleTyped, CountsTyped
<1> QED BY <1>1 DEF ImportBounds, Throws

LEMMA RequestsBounded ==
  ASSUME ImportBounds,
         \/ \E m \in Mappings : Validate(m)
         \/ \E confirm \in BOOLEAN : Apply(confirm)
         \/ \E e \in ImportAddresses : ContactAppears(e)
  PROVE  ImportBounds'
<1>0. item \in ItemRows /\ itemJob \in JobRows /\ validated \in 0 .. MaxValidations
  BY DEF ImportBounds
<1>1. ASSUME NEW m \in Mappings, Validate(m) PROVE ImportBounds'
  <2> DEFINE u == {TagAt[m][i] : i \in Rows} \ tagRows
             a == Cardinality(InvalidUnder(m))
             b == Cardinality(RepeatedUnder(m))
  <2>1. u \in SUBSET Tags
    BY DEF Tags
  <2>2. a \in 0 .. RowCount /\ b \in 0 .. RowCount
    BY CountsTyped
  <2>3. item' = [item EXCEPT !.status = "READY", !.map = m, !.confirmed = FALSE, !.unknown = u,
                             !.counts["INVALID"] = a, !.counts["SKIPPED"] = b]
    BY <1>1, Zenon DEF Validate
  <2>4. remapped' \in BOOLEAN
    BY <1>1, Zenon DEF Validate
  <2>5. validated' \in 0 .. MaxValidations
    <3>1. validated < MaxValidations /\ validated' = validated + 1
      BY <1>1, Zenon DEF Validate
    <3> QED BY <1>0, <3>1, ImportAssumption
  <2> HIDE DEF u, a, b
  <2>6. item' \in ItemRows
    <3> DEFINE r == [item EXCEPT !.status = "READY", !.map = m, !.confirmed = FALSE, !.unknown = u]
               p == [r EXCEPT !.counts["INVALID"] = a]
    <3>1. FALSE \in BOOLEAN
      BY Zenon
    <3>2. r \in ItemRows
      <4> PICK f \in BOOLEAN : f = FALSE
        BY <3>1
      <4>1. [item EXCEPT !.status = "READY", !.map = m, !.confirmed = f, !.unknown = u] \in ItemRows
        BY <1>0, <2>1 DEF ItemRows
      <4> QED BY <4>1
    <3>3. item' = [p EXCEPT !.counts["SKIPPED"] = b]
      BY <2>3, Zenon
    <3> HIDE DEF r
    <3>4. \A q \in ItemRows, o \in Outcomes, n \in 0 .. RowCount : [q EXCEPT !.counts[o] = n] \in ItemRows
      <4> TAKE q \in ItemRows, o \in Outcomes, n \in 0 .. RowCount
      <4>1. q.counts \in ImportCounts
        BY DEF ItemRows
      <4> DEFINE k == [q.counts EXCEPT ![o] = n]
      <4>2. k \in ImportCounts
        BY <4>1 DEF ImportCounts
      <4>3. [q EXCEPT !.counts[o] = n] = [q EXCEPT !.counts = k]
        OBVIOUS
      <4> HIDE DEF k
      <4>4. [q EXCEPT !.counts = k] \in ItemRows
        BY <4>2 DEF ItemRows
      <4> QED BY <4>3, <4>4
    <3>5. "INVALID" \in Outcomes /\ "SKIPPED" \in Outcomes
      BY DEF Outcomes
    <3>6. p \in ItemRows
      BY <2>2, <3>2, <3>4, <3>5
    <3> HIDE DEF p
    <3> QED BY <2>2, <3>3, <3>4, <3>5, <3>6
  <2> QED BY <1>1, <2>4, <2>5, <2>6 DEF Validate, ImportBounds
<1>2. ASSUME NEW confirm \in BOOLEAN, Apply(confirm) PROVE ImportBounds'
  <2>1. item' \in ItemRows
    <3>1. item' = [item EXCEPT !.status = "PROCESSING", !.confirmed = confirm]
      BY <1>2 DEF Apply
    <3> QED BY <1>0, <3>1 DEF ItemRows
  <2>2. itemJob' \in JobRows
    <3>1. itemJob' = [status |-> "PENDING", attempts |-> 0, holder |-> NoMapping]
      BY <1>2 DEF Apply
    <3> QED BY <3>1, ImportAssumption DEF JobRows
  <2>3. UNCHANGED <<rowsDone, people, tagRows, execution, validated, applied, unasked, remapped>>
    BY <1>2 DEF Apply
  <2> QED BY <2>1, <2>2, <2>3 DEF ImportBounds
<1>3. ASSUME NEW e \in ImportAddresses, ContactAppears(e) PROVE ImportBounds'
  BY <1>3 DEF ContactAppears, ImportBounds
<1> QED BY <1>1, <1>2, <1>3

LEMMA JobStepsBounded ==
  ASSUME ImportInv, ImportBounds, NEW w \in ImportWorkers,
         Claim(w) \/ LoseJob(w) \/ CrashImport(w) \/ FileError(w) \/ RollBack(w)
           \/ CountRows(w) \/ CountFailure(w) \/ Complete(w) \/ Fail(w)
  PROVE  ImportBounds'
<1>0. /\ item \in ItemRows /\ itemJob \in JobRows /\ execution \in [ImportWorkers -> Executions]
      /\ execution[w] \in Executions /\ execution[w].counts \in ImportCounts
  BY DEF ImportBounds, Executions
<1>1. \A s \in {"NONE", "PENDING", "PROCESSING", "COMPLETED", "FAILED"} :
        /\ [itemJob EXCEPT !.status = s, !.holder = NoMapping] \in JobRows
        /\ [itemJob EXCEPT !.holder = NoMapping, !.status = s] \in JobRows
  BY <1>0 DEF JobRows
<1>2. CASE Claim(w)
  <2> DEFINE d == {i \in Rows : rowsDone[i].outcome # "NONE"}
  <2>1. item.map \in Mappings \cup {NoMapping} /\ d \in SUBSET Rows
    BY <1>0 DEF ItemRows
  <2> HIDE DEF d
  <2>2. [Idle EXCEPT !.pc = "rows", !.map = item.map, !.done = d] \in Executions
    BY <2>1, IdleTyped
  <2>3. execution' \in [ImportWorkers -> Executions]
    BY <1>0, <1>2, <2>2 DEF Claim, d
  <2>4. itemJob' \in JobRows
    BY <1>0, <1>2, ImportAssumption DEF Claim, JobRows
  <2> QED BY <1>2, <2>3, <2>4 DEF Claim, ImportBounds
<1>3. CASE LoseJob(w)
  BY <1>1, <1>3 DEF LoseJob, ImportBounds
<1>4. CASE CrashImport(w)
  <2>1. itemJob' \in JobRows
    BY <1>0, <1>1, <1>4 DEF CrashImport
  <2>2. execution' \in [ImportWorkers -> Executions]
    BY <1>0, <1>4, IdleTyped DEF CrashImport
  <2> QED BY <1>4, <2>1, <2>2 DEF CrashImport, ImportBounds
<1>5. CASE FileError(w) \/ RollBack(w)
  <2>1. Throws(w) /\ UNCHANGED <<item, itemJob, rowsDone, people, tagRows, validated, applied, unasked, remapped>>
    BY <1>5 DEF FileError, RollBack
  <2> QED BY <2>1, ThrowTyped DEF ImportBounds
<1>6. CASE CountRows(w) \/ CountFailure(w)
  <2>1. \A pc \in {"completing", "failed"} : [Idle EXCEPT !.pc = pc, !.counts = Tally] \in Executions
    BY IdleTyped, CountsTyped
  <2>2. execution' \in [ImportWorkers -> Executions]
    BY <1>0, <1>6, <2>1 DEF CountRows, CountFailure
  <2>3. UNCHANGED <<item, itemJob, rowsDone, people, tagRows, validated, applied, unasked, remapped>>
    BY <1>6 DEF CountRows, CountFailure
  <2> QED BY <2>2, <2>3 DEF ImportBounds
<1>7. CASE Complete(w) \/ Fail(w)
  <2>1. \A s \in {"COMPLETED", "FAILED"} : [item EXCEPT !.status = s, !.counts = execution[w].counts] \in ItemRows
    BY <1>0 DEF ItemRows
  <2>2. item' \in ItemRows
    BY <1>7, <2>1 DEF Complete, Fail
  <2>3. itemJob' \in JobRows
    BY <1>0, <1>1, <1>7 DEF Complete, Fail
  <2>4. execution' \in [ImportWorkers -> Executions]
    BY <1>0, <1>7, IdleTyped DEF Complete, Fail
  <2>5. UNCHANGED <<rowsDone, people, tagRows, validated, applied, unasked, remapped>>
    BY <1>7 DEF Complete, Fail
  <2> QED BY <2>2, <2>3, <2>4, <2>5 DEF ImportBounds
<1> QED BY <1>2, <1>3, <1>4, <1>5, <1>6, <1>7

LEMMA RowStepsBounded ==
  ASSUME ImportInv, ImportBounds, NEW w \in ImportWorkers,
         PassRow(w) \/ RejectRow(w, "INVALID") \/ RejectRow(w, "SKIPPED") \/ UpsertRow(w) \/ FindRowDone(w)
  PROVE  ImportBounds'
<1>0. Reading(w)
  BY DEF PassRow, RejectRow, UpsertRow, FindRowDone, FreshRow
<1>1. /\ At(w) \in Rows /\ EmailOf(w) \in ImportAddresses /\ TagOf(w) \in Tags
      /\ execution[w].seen \in SUBSET ImportAddresses /\ execution[w].cache \in SUBSET Tags
      /\ \A s \in SUBSET ImportAddresses, c \in SUBSET Tags :
           Advance(w, s, c) => execution' \in [ImportWorkers -> Executions]
  BY <1>0, RowAtHand DEF Executions
<1>2. rowsDone[At(w)] \in DoneRows
  BY <1>1 DEF ImportBounds
<1>3. CASE PassRow(w)
  <2>1. rowsDone[At(w)].email \in ImportAddresses \cup {BadEmail}
    BY <1>2 DEF DoneRows
  <2> DEFINE s == execution[w].seen \cup ({rowsDone[At(w)].email} \ {BadEmail})
  <2>2. s \in SUBSET ImportAddresses
    BY <1>1, <2>1
  <2>3. Advance(w, s, execution[w].cache)
        /\ UNCHANGED <<item, itemJob, rowsDone, people, tagRows, validated, applied, unasked, remapped>>
    BY <1>3 DEF PassRow
  <2> HIDE DEF s
  <2>4. execution' \in [ImportWorkers -> Executions]
    BY <1>1, <2>2, <2>3
  <2> QED BY <2>3, <2>4 DEF ImportBounds
<1>4. CASE FindRowDone(w)
  <2> DEFINE s == execution[w].seen \cup {EmailOf(w)}
  <2>1. s \in SUBSET ImportAddresses
    BY <1>1
  <2>2. Advance(w, s, execution[w].cache)
        /\ UNCHANGED <<item, itemJob, rowsDone, people, tagRows, validated, applied, unasked, remapped>>
    BY <1>4 DEF FindRowDone
  <2> HIDE DEF s
  <2>3. execution' \in [ImportWorkers -> Executions]
    BY <1>1, <2>1, <2>2
  <2> QED BY <2>2, <2>3 DEF ImportBounds
<1>5. ASSUME NEW o \in {"INVALID", "SKIPPED"}, RejectRow(w, o) PROVE ImportBounds'
  <2>1. UNCHANGED <<item, itemJob, people, tagRows, validated, applied, unasked, remapped>>
    BY <1>5 DEF RejectRow
  <2>2. o \in Outcomes
    BY DEF Outcomes
  <2>3. CASE rowsDone[At(w)].outcome = "NONE"
    <3>1. /\ rowsDone' = [rowsDone EXCEPT ![At(w)] = [outcome |-> o, email |-> EmailOf(w)]]
          /\ Advance(w, execution[w].seen, execution[w].cache)
      BY <1>5, <2>3 DEF RejectRow
    <3>2. rowsDone' \in [Rows -> DoneRows]
      BY <1>1, <2>2, <3>1, RowTypedAfter
    <3>3. execution' \in [ImportWorkers -> Executions]
      BY <1>1, <3>1
    <3> QED BY <2>1, <3>2, <3>3 DEF ImportBounds
  <2>4. CASE rowsDone[At(w)].outcome # "NONE"
    <3>1. Throws(w) /\ UNCHANGED rowsDone
      BY <1>5, <2>4 DEF RejectRow
    <3> QED BY <2>1, <3>1, ThrowTyped DEF ImportBounds
  <2> QED BY <2>3, <2>4
<1>6. CASE UpsertRow(w)
  <2> DEFINE o == IF EmailOf(w) \in people THEN "UPDATED" ELSE "CREATED"
             s == execution[w].seen \cup {EmailOf(w)}
             c == execution[w].cache \cup {TagOf(w)}
  <2>1. /\ rowsDone' = [rowsDone EXCEPT ![At(w)] = [outcome |-> o, email |-> EmailOf(w)]]
        /\ Advance(w, s, c) /\ UNCHANGED <<item, itemJob, validated, remapped>>
        /\ people' = people \cup {EmailOf(w)}
    BY <1>6 DEF UpsertRow
  <2>2. o \in Outcomes /\ s \in SUBSET ImportAddresses /\ c \in SUBSET Tags
    BY <1>1 DEF Outcomes
  <2>3. tagRows' \subseteq Tags
    BY <1>1, <1>6 DEF UpsertRow, ImportBounds
  <2>4. unasked' \subseteq Tags
    BY <1>6, <2>3 DEF UpsertRow, ImportBounds
  <2> HIDE DEF o, s, c
  <2>5. rowsDone' \in [Rows -> DoneRows]
    BY <1>1, <2>1, <2>2, RowTypedAfter
  <2>6. execution' \in [ImportWorkers -> Executions]
    BY <1>1, <2>1, <2>2
  <2> QED BY <1>1, <2>1, <2>3, <2>4, <2>5, <2>6 DEF ImportBounds
<1> QED BY <1>3, <1>4, <1>5, <1>6

LEMMA ImportBoundsStep == ImportInv /\ ImportBounds /\ [ImportNext]_importVars => ImportBounds'
<1> SUFFICES ASSUME ImportInv, ImportBounds, [ImportNext]_importVars PROVE ImportBounds'
  OBVIOUS
<1>1. CASE UNCHANGED importVars
  BY <1>1 DEF importVars, ImportBounds
<1>2. CASE ImportNext
  BY <1>2, RequestsBounded, JobStepsBounded, RowStepsBounded DEF ImportNext
<1> QED BY <1>1, <1>2

LEMMA ImportBoundsStart == ImportInit => ImportBounds
<1> SUFFICES ASSUME ImportInit PROVE ImportBounds
  OBVIOUS
<1>1. item \in ItemRows
  <2>1. item.confirmed \in BOOLEAN
    BY Zenon DEF ImportInit
  <2> QED BY <2>1, CountsTyped DEF ImportInit, ItemRows
<1>2. itemJob \in JobRows
  BY ImportAssumption DEF ImportInit, JobRows
<1>3. rowsDone \in [Rows -> DoneRows]
  BY DEF ImportInit, NoRowYet, DoneRows
<1>4. execution \in [ImportWorkers -> Executions]
  BY IdleTyped DEF ImportInit
<1>5. remapped \in BOOLEAN
  BY Zenon DEF ImportInit
<1>6. validated \in 0 .. MaxValidations
  BY ImportAssumption DEF ImportInit
<1>7. people \subseteq ImportAddresses \cup KnownContacts /\ tagRows \subseteq Tags /\ unasked \subseteq Tags
  BY DEF ImportInit, Tags
<1> QED BY <1>1, <1>2, <1>3, <1>4, <1>5, <1>6, <1>7 DEF ImportBounds

\* Counts, rows, tags and addresses of an import are those of its file, the
\* attempts within their limit, and no row number is recorded twice
\* (contact_imports, contact_import_rows and the job's row).
THEOREM ImportTypeCorrect == ImportSpec => []ImportTypeOK
<1>1. ASSUME ImportInv, ImportBounds PROVE ImportTypeOK
  <2>1. \A w \in ImportWorkers :
          /\ execution[w].pc \in {"idle", "rows", "failing", "completing", "failed"}
          /\ execution[w].at \in 0 .. RowCount /\ execution[w].done \subseteq Rows
          /\ execution[w].seen \subseteq ImportAddresses /\ execution[w].cache \subseteq Tags
    BY <1>1 DEF ImportBounds, Executions
  <2>2. applied \in [ImportAddresses -> SUBSET Rows]
    BY <1>1 DEF ImportInv, ImportTyped
  <2> QED BY <1>1, <2>1, <2>2 DEF ImportTypeOK, ImportBounds, ItemRows, JobRows, DoneRows, ImportCounts
<1> QED BY <1>1, ImportBoundsStart, ImportBoundsStep, ImportBegins, ImportStep, PTL DEF ImportSpec

-----------------------------------------------------------------------------
(* LegacyMigration: whatever the script has passed is there, or is listed   *)
(* as an error; what it has yet to do is still in its list; and nobody       *)
(* takes back what it has done.                                             *)

Script(at, todo, contacts, tags, urls, errors) ==
  [at |-> at, todo |-> todo, contacts |-> contacts, tags |-> tags, urls |-> urls, errors |-> errors]
IsScript(x) == x = Script(x.at, x.todo, x.contacts, x.tags, x.urls, x.errors)
LegacyRows ==
  /\ persons = [e \in Persons |-> persons[e]] /\ barred = [e \in Persons |-> barred[e]]
  /\ archive = [c \in LegacyCampaigns |-> archive[c]]

Known(e) == persons[e] # "absent"
Shielded(e) == barred[e].active \/ e \in released
Archived(c) == archive[c].row
Brought(s) == Known(MailOf[s]) /\ (Suppressing(s) => Shielded(MailOf[s]))
TagsDone(x) ==
  x.at \in {"tags", "contacts", "links"} =>
    \A t \in LegacyTags : t \in x.tags \/ t \in x.errors \/ (x.at = "tags" /\ t \in x.todo)
ContactsDone(x) ==
  x.at \in {"contacts", "links", "campaigns", "done"} =>
    \A s \in Valid : (s \in x.contacts /\ Brought(s)) \/ s \in x.errors \/ (x.at = "contacts" /\ s \in x.todo)
LinksDone(x) ==
  x.at \in {"links", "campaigns", "done"} =>
    \A s \in Valid, t \in LegacyTags :
      t \in TagsOf[s] => \/ <<MailOf[s], t>> \in tagged \/ s \in x.errors \/ t \in x.errors
                         \/ (x.at = "links" /\ <<s, t>> \in x.todo)
CampaignsDone(x) ==
  x.at \in {"campaigns", "done"} =>
    \A c \in LegacyCampaigns : Archived(c) \/ c \in x.errors \/ (x.at = "campaigns" /\ c \in x.todo)
Listed(x) == x.at = "contacts" => x.todo \subseteq Valid
StepsDone(x) == TagsDone(x) /\ ContactsDone(x) /\ LinksDone(x) /\ CampaignsDone(x) /\ Listed(x)
MigrationInv == LegacyRows /\ IsScript(script) /\ StepsDone(script)

\* What no step takes back.
Kept ==
  /\ \A e \in Persons : (Known(e) => Known(e)') /\ (Shielded(e) => Shielded(e)')
  /\ tagged \subseteq tagged'
  /\ \A c \in LegacyCampaigns : Archived(c) => Archived(c)'

LEMMA MailStands ==
  \A s \in Valid : MailOf[s] \in Persons /\ s \in Subscribers
BY DEF Valid, Persons

LEMMA DoneStays ==
  ASSUME Kept, NEW x, StepsDone(x)
  PROVE  StepsDone(x)'
<1>1. \A s \in Valid : Brought(s) => Brought(s)'
  BY MailStands DEF Kept, Brought
<1>2. ContactsDone(x)'
  BY <1>1 DEF StepsDone, ContactsDone
<1>3. LinksDone(x)'
  BY DEF StepsDone, LinksDone, Kept
<1>4. CampaignsDone(x)'
  BY DEF StepsDone, CampaignsDone, Kept
<1> QED BY <1>2, <1>3, <1>4 DEF StepsDone, TagsDone, Listed

\* Somebody else's step.
LEMMA ScriptStays ==
  ASSUME MigrationInv, Kept, LegacyRows', UNCHANGED script
  PROVE  MigrationInv'
<1> PICK x : x = script
  OBVIOUS
<1>1. StepsDone(x)'
  BY DoneStays DEF MigrationInv
<1> QED BY <1>1 DEF MigrationInv

LEMMA ScriptTurns ==
  ASSUME LegacyRows', NEW x, script' = x, IsScript(x), StepsDone(x)'
  PROVE  MigrationInv'
BY DEF MigrationInv

\* A script that is not running, or has just begun, owes nothing.
LEMMA ScriptBegins ==
  /\ IsScript(NotRunning) /\ StepsDone(NotRunning)
  /\ \A urls : /\ IsScript(Script("tags", LegacyTags, {}, {}, urls, {}))
               /\ StepsDone(Script("tags", LegacyTags, {}, {}, urls, {}))
BY DEF IsScript, Script, NotRunning, StepsDone, TagsDone, ContactsDone, LinksDone, CampaignsDone, Listed

LEMMA NothingTaken ==
  ASSUME MigrationInv, UNCHANGED <<persons, barred, released>>, tagged \subseteq tagged', archive' = archive
  PROVE  Kept /\ LegacyRows'
BY DEF Kept, LegacyRows, MigrationInv, Known, Shielded, Archived

\* --dry-run, a file that does not decode, a script that dies.
LEMMA ScriptEnds ==
  ASSUME MigrationInv, script' = NotRunning, UNCHANGED <<persons, barred, tagged, archive, released>>
  PROVE  MigrationInv'
<1> PICK x : x = NotRunning
  OBVIOUS
<1>1. Kept /\ LegacyRows'
  BY NothingTaken
<1>2. StepsDone(x)'
  BY <1>1, ScriptBegins, DoneStays
<1> QED BY <1>1, <1>2, ScriptBegins, ScriptTurns

LEMMA AssetsUploaded ==
  ASSUME MigrationInv, UploadAssets
  PROVE  MigrationInv'
<1>1. UNCHANGED <<persons, barred, tagged, archive, released>>
  BY DEF UploadAssets
<1>2. CASE script' = NotRunning
  BY <1>1, <1>2, ScriptEnds
<1>3. CASE script' = [NotRunning EXCEPT !.at = "tags", !.todo = LegacyTags, !.urls = Migratable]
  <2> PICK u : u = Migratable
    OBVIOUS
  <2>1. [NotRunning EXCEPT !.at = "tags"] = Script("tags", {}, {}, {}, {}, {})
    BY DEF NotRunning, Script
  <2>2. [Script("tags", {}, {}, {}, {}, {}) EXCEPT !.todo = LegacyTags] = Script("tags", LegacyTags, {}, {}, {}, {})
    BY DEF Script
  <2>3. [Script("tags", LegacyTags, {}, {}, {}, {}) EXCEPT !.urls = u] = Script("tags", LegacyTags, {}, {}, u, {})
    BY DEF Script
  <2>4. script' = [NotRunning EXCEPT !.at = "tags", !.todo = LegacyTags, !.urls = u]
    BY <1>3
  <2> PICK x : x = Script("tags", LegacyTags, {}, {}, u, {})
    OBVIOUS
  <2>5. script' = x
    BY <2>1, <2>2, <2>3, <2>4
  <2>6. IsScript(x) /\ StepsDone(x)
    BY ScriptBegins
  <2>7. Kept /\ LegacyRows'
    BY <1>1, NothingTaken
  <2>8. StepsDone(x)'
    BY <2>6, <2>7, DoneStays
  <2> QED BY <2>5, <2>6, <2>7, <2>8, ScriptTurns
<1> QED BY <1>2, <1>3 DEF UploadAssets

\* The next step's list is what the step owes.
LEMMA StepIs ==
  ASSUME MigrationInv, NEW at, NEW todo, NextStep(at, todo)
  PROVE  \E y : /\ script' = y /\ IsScript(y) /\ y.at = at /\ y.todo = todo
                /\ y.contacts = script.contacts /\ y.tags = script.tags /\ y.errors = script.errors
<1>1. PICK a, d, c, t, u, e : script = Script(a, d, c, t, u, e)
  BY DEF MigrationInv, IsScript
<1> PICK y : y = Script(at, todo, c, t, u, e)
  OBVIOUS
<1>2. [script EXCEPT !.at = at] = Script(at, d, c, t, u, e)
  BY <1>1 DEF Script
<1>3. [Script(at, d, c, t, u, e) EXCEPT !.todo = todo] = y
  BY DEF Script
<1>4. script' = y
  BY <1>2, <1>3 DEF NextStep
<1>5. /\ IsScript(y) /\ y.at = at /\ y.todo = todo
      /\ y.contacts = script.contacts /\ y.tags = script.tags /\ y.errors = script.errors
  BY <1>1 DEF Script, IsScript
<1> QED BY <1>4, <1>5

LEMMA StepsOn ==
  ASSUME MigrationInv, ToContacts \/ ToLinks \/ ToCampaigns \/ Finish
  PROVE  MigrationInv'
<1>1. UNCHANGED <<persons, barred, tagged, archive, released>> /\ script.todo = {}
  BY DEF ToContacts, ToLinks, ToCampaigns, Finish
<1>2. Kept /\ LegacyRows'
  BY <1>1, NothingTaken
<1> PICK x : x = script
  OBVIOUS
<1>3. StepsDone(x) /\ x.todo = {}
  BY <1>1 DEF MigrationInv
<1>4. CASE ToContacts
  <2>1. x.at = "tags" /\ NextStep("contacts", Valid)
    BY <1>4 DEF ToContacts
  <2>2. PICK y : /\ script' = y /\ IsScript(y) /\ y.at = "contacts" /\ y.todo = Valid
                 /\ y.contacts = x.contacts /\ y.tags = x.tags /\ y.errors = x.errors
    BY <2>1, StepIs
  <2>3. StepsDone(y)
    BY <1>3, <2>1, <2>2 DEF StepsDone, TagsDone, ContactsDone, LinksDone, CampaignsDone, Listed
  <2>4. StepsDone(y)'
    BY <1>2, <2>3, DoneStays
  <2> QED BY <1>2, <2>2, <2>4, ScriptTurns
<1>5. CASE ToLinks
  <2> PICK T : T = {l \in Subscribers \X LegacyTags : l[2] \in TagsOf[l[1]]}
    OBVIOUS
  <2>1. x.at = "contacts" /\ NextStep("links", T)
    BY <1>5 DEF ToLinks
  <2>2. PICK y : /\ script' = y /\ IsScript(y) /\ y.at = "links" /\ y.todo = T
                 /\ y.contacts = x.contacts /\ y.tags = x.tags /\ y.errors = x.errors
    BY <2>1, StepIs
  <2>3. \A s \in Valid, t \in LegacyTags : t \in TagsOf[s] => <<s, t>> \in T
    BY MailStands
  <2>4. TagsDone(y) /\ ContactsDone(y)
    BY <1>3, <2>1, <2>2 DEF StepsDone, TagsDone, ContactsDone
  <2>5. LinksDone(y) /\ CampaignsDone(y) /\ Listed(y)
    BY <2>2, <2>3 DEF LinksDone, CampaignsDone, Listed
  <2>6. StepsDone(y)'
    BY <1>2, <2>4, <2>5, DoneStays DEF StepsDone
  <2> QED BY <1>2, <2>2, <2>6, ScriptTurns
<1>6. CASE ToCampaigns
  <2>1. x.at = "links" /\ NextStep("campaigns", LegacyCampaigns)
    BY <1>6 DEF ToCampaigns
  <2>2. PICK y : /\ script' = y /\ IsScript(y) /\ y.at = "campaigns" /\ y.todo = LegacyCampaigns
                 /\ y.contacts = x.contacts /\ y.tags = x.tags /\ y.errors = x.errors
    BY <2>1, StepIs
  <2>3. StepsDone(y)
    BY <1>3, <2>1, <2>2 DEF StepsDone, TagsDone, ContactsDone, LinksDone, CampaignsDone, Listed
  <2>4. StepsDone(y)'
    BY <1>2, <2>3, DoneStays
  <2> QED BY <1>2, <2>2, <2>4, ScriptTurns
<1>7. CASE Finish
  <2>1. x.at = "campaigns" /\ NextStep("done", {})
    BY <1>7 DEF Finish
  <2>2. PICK y : /\ script' = y /\ IsScript(y) /\ y.at = "done" /\ y.todo = {}
                 /\ y.contacts = x.contacts /\ y.tags = x.tags /\ y.errors = x.errors
    BY <2>1, StepIs
  <2>3. StepsDone(y)
    BY <1>3, <2>1, <2>2 DEF StepsDone, TagsDone, ContactsDone, LinksDone, CampaignsDone, Listed
  <2>4. StepsDone(y)'
    BY <1>2, <2>3, DoneStays
  <2> QED BY <1>2, <2>2, <2>4, ScriptTurns
<1> QED BY <1>4, <1>5, <1>6, <1>7

\* A row that fails is listed, whichever list it was on.
LEMMA RowFails ==
  ASSUME MigrationInv, NEW r, FailsRow(r), UNCHANGED <<persons, barred, tagged, archive, released>>,
         script.at # "links"
  PROVE  MigrationInv'
<1>1. Kept /\ LegacyRows'
  BY NothingTaken
<1>2. PICK a, d, c, t, u, e : script = Script(a, d, c, t, u, e)
  BY DEF MigrationInv, IsScript
<1> PICK x, y : x = script /\ y = Script(a, d \ {r}, c, t, u, e \cup {r})
  OBVIOUS
<1>3. script' = y
  <2>1. script' = [script EXCEPT !.todo = d \ {r}, !.errors = e \cup {r}]
    BY <1>2 DEF FailsRow, Script
  <2>2. [script EXCEPT !.todo = d \ {r}] = Script(a, d \ {r}, c, t, u, e)
    BY <1>2 DEF Script
  <2>3. [Script(a, d \ {r}, c, t, u, e) EXCEPT !.errors = e \cup {r}] = y
    BY DEF Script
  <2> QED BY <2>1, <2>2, <2>3
<1>4. /\ IsScript(y) /\ y.at = x.at /\ y.todo = x.todo \ {r} /\ y.contacts = x.contacts /\ y.tags = x.tags
      /\ y.errors = x.errors \cup {r}
  BY <1>2 DEF Script, IsScript
<1>5. StepsDone(x)
  BY DEF MigrationInv
<1>6. TagsDone(y) /\ ContactsDone(y) /\ CampaignsDone(y) /\ Listed(y)
  BY <1>4, <1>5 DEF StepsDone, TagsDone, ContactsDone, CampaignsDone, Listed
<1>7. LinksDone(y)
  BY <1>4, <1>5 DEF StepsDone, LinksDone
<1>8. StepsDone(y)'
  BY <1>1, <1>6, <1>7, DoneStays DEF StepsDone
<1> QED BY <1>1, <1>3, <1>4, <1>8, ScriptTurns

LEMMA TagMigrated ==
  ASSUME MigrationInv, NEW t, MigrateTag(t)
  PROVE  MigrationInv'
<1>1. /\ script.at = "tags" /\ UNCHANGED <<persons, barred, tagged, archive, released>>
      /\ script' = [script EXCEPT !.todo = script.todo \ {t}, !.tags = script.tags \cup {t}]
  BY DEF MigrateTag
<1>2. Kept /\ LegacyRows'
  BY <1>1, NothingTaken
<1>3. PICK a, d, c, g, u, e : script = Script(a, d, c, g, u, e)
  BY DEF MigrationInv, IsScript
<1> PICK x, y : x = script /\ y = Script(a, d \ {t}, c, g \cup {t}, u, e)
  OBVIOUS
<1>4. script' = y
  <2>1. script' = [script EXCEPT !.todo = d \ {t}, !.tags = g \cup {t}]
    BY <1>1, <1>3 DEF Script
  <2>2. [script EXCEPT !.todo = d \ {t}] = Script(a, d \ {t}, c, g, u, e)
    BY <1>3 DEF Script
  <2>3. [Script(a, d \ {t}, c, g, u, e) EXCEPT !.tags = g \cup {t}] = y
    BY DEF Script
  <2> QED BY <2>1, <2>2, <2>3
<1>5. /\ IsScript(y) /\ y.at = "tags" /\ x.at = "tags" /\ y.todo = x.todo \ {t} /\ y.tags = x.tags \cup {t}
      /\ y.errors = x.errors
  BY <1>1, <1>3 DEF Script, IsScript
<1>6. StepsDone(x)
  BY DEF MigrationInv
<1>7. StepsDone(y)
  BY <1>5, <1>6 DEF StepsDone, TagsDone, ContactsDone, LinksDone, CampaignsDone, Listed
<1>8. StepsDone(y)'
  BY <1>2, <1>7, DoneStays
<1> QED BY <1>2, <1>4, <1>5, <1>8, ScriptTurns

\* What a contact's transaction leaves of the others, and of its own.
LEMMA ContactBrought ==
  ASSUME MigrationInv, NEW s \in Valid, MigrateContact(s)
  PROVE  Kept /\ LegacyRows' /\ Brought(s)'
<1> PICK m, v : m = MailOf[s] /\ v = [active |-> TRUE, reason |-> ReasonFor[StatusOf[s]]]
  OBVIOUS
<1>1. /\ persons' = [persons EXCEPT ![m] = "legacy"] /\ UNCHANGED <<tagged, archive>>
      /\ barred' = IF Suppressing(s) THEN [barred EXCEPT ![m] = v] ELSE barred
      /\ released' = IF Suppressing(s) THEN released \ {m} ELSE released
  BY DEF MigrateContact, Bar
<1>2. m \in Persons
  BY MailStands
<1>3. v.active
  BY Zenon
<1>4. LegacyRows'
  BY <1>1 DEF MigrationInv, LegacyRows
<1>5. \A e \in Persons : (Known(e) => Known(e)') /\ Known(m)'
  BY <1>1, <1>2 DEF MigrationInv, LegacyRows, Known
<1>6. \A e \in Persons : (Shielded(e) => Shielded(e)') /\ (Suppressing(s) => Shielded(m)')
  <2>1. CASE Suppressing(s)
    <3>1. barred'[m] = v /\ \A e \in Persons : e # m => barred'[e] = barred[e]
      BY <1>1, <1>2, <2>1 DEF MigrationInv, LegacyRows
    <3>2. Shielded(m)'
      BY <1>3, <3>1 DEF Shielded
    <3>3. \A e \in Persons : e # m => (Shielded(e) => Shielded(e)')
      BY <1>1, <2>1, <3>1 DEF Shielded
    <3> QED BY <3>2, <3>3
  <2>2. CASE ~Suppressing(s)
    BY <1>1, <2>2 DEF Shielded
  <2> QED BY <2>1, <2>2
<1>7. Kept
  BY <1>1, <1>5, <1>6 DEF Kept, Archived
<1>8. Brought(s)'
  BY <1>2, <1>5, <1>6 DEF Brought, Suppressing
<1> QED BY <1>4, <1>7, <1>8

LEMMA ContactMigrated ==
  ASSUME MigrationInv, NEW s, MigrateContact(s)
  PROVE  MigrationInv'
<1>1. /\ script.at = "contacts" /\ s \in script.todo
      /\ script' = [script EXCEPT !.todo = script.todo \ {s}, !.contacts = script.contacts \cup {s}]
  BY DEF MigrateContact, Due, Mapped
<1>2. s \in Valid
  BY <1>1 DEF MigrationInv, StepsDone, Listed
<1>3. Kept /\ LegacyRows' /\ Brought(s)'
  BY <1>2, ContactBrought
<1>4. PICK a, d, c, g, u, e : script = Script(a, d, c, g, u, e)
  BY DEF MigrationInv, IsScript
<1> PICK x, y : x = script /\ y = Script(a, d \ {s}, c \cup {s}, g, u, e)
  OBVIOUS
<1>5. script' = y
  <2>1. script' = [script EXCEPT !.todo = d \ {s}, !.contacts = c \cup {s}]
    BY <1>1, <1>4 DEF Script
  <2>2. [script EXCEPT !.todo = d \ {s}] = Script(a, d \ {s}, c, g, u, e)
    BY <1>4 DEF Script
  <2>3. [Script(a, d \ {s}, c, g, u, e) EXCEPT !.contacts = c \cup {s}] = y
    BY DEF Script
  <2> QED BY <2>1, <2>2, <2>3
<1>6. /\ IsScript(y) /\ y.at = "contacts" /\ x.at = "contacts" /\ y.todo = x.todo \ {s} /\ y.tags = x.tags
      /\ y.contacts = x.contacts \cup {s} /\ y.errors = x.errors
  BY <1>1, <1>4 DEF Script, IsScript
<1>7. StepsDone(x)'
  BY <1>3, DoneStays DEF MigrationInv
<1>8. ContactsDone(y)'
  BY <1>3, <1>6, <1>7 DEF StepsDone, ContactsDone
<1>9. TagsDone(y)' /\ LinksDone(y)' /\ CampaignsDone(y)' /\ Listed(y)'
  BY <1>6, <1>7 DEF StepsDone, TagsDone, LinksDone, CampaignsDone, Listed
<1> QED BY <1>3, <1>5, <1>6, <1>8, <1>9, ScriptTurns DEF StepsDone

\* What an entry no longer on the list leaves to show.
LEMMA TodoIs ==
  ASSUME MigrationInv, NEW r, script' = [script EXCEPT !.todo = script.todo \ {r}]
  PROVE  \E y : /\ script' = y /\ IsScript(y) /\ y.at = script.at /\ y.todo = script.todo \ {r}
                /\ y.contacts = script.contacts /\ y.tags = script.tags /\ y.errors = script.errors
<1>1. PICK a, d, c, t, u, e : script = Script(a, d, c, t, u, e)
  BY DEF MigrationInv, IsScript
<1> PICK y : y = Script(a, d \ {r}, c, t, u, e)
  OBVIOUS
<1>2. script' = [script EXCEPT !.todo = d \ {r}]
  BY <1>1 DEF Script
<1>3. [script EXCEPT !.todo = d \ {r}] = y
  BY <1>1 DEF Script
<1>4. /\ IsScript(y) /\ y.at = script.at /\ y.todo = script.todo \ {r}
      /\ y.contacts = script.contacts /\ y.tags = script.tags /\ y.errors = script.errors
  BY <1>1 DEF Script, IsScript
<1> QED BY <1>2, <1>3, <1>4

LEMMA LinkMigrated ==
  ASSUME MigrationInv, NEW l \in Subscribers \X LegacyTags, MigrateLink(l)
  PROVE  MigrationInv'
<1>1. PICK s \in Subscribers, t \in LegacyTags : l = <<s, t>>
  OBVIOUS
<1> PICK x : x = script
  OBVIOUS
<1>2. /\ x.at = "links" /\ UNCHANGED <<persons, barred, archive, released>>
      /\ tagged' = IF s \in x.contacts /\ t \in x.tags THEN tagged \cup {<<MailOf[s], t>>} ELSE tagged
      /\ script' = [script EXCEPT !.todo = script.todo \ {l}]
  BY <1>1 DEF MigrateLink
<1>3. Kept /\ LegacyRows'
  BY <1>2, NothingTaken
<1>4. PICK y : /\ script' = y /\ IsScript(y) /\ y.at = x.at /\ y.todo = x.todo \ {l}
               /\ y.contacts = x.contacts /\ y.tags = x.tags /\ y.errors = x.errors
  BY <1>2, TodoIs
<1>5. StepsDone(x) /\ StepsDone(x)'
  BY <1>3, DoneStays DEF MigrationInv
<1>6. s \in Valid => <<MailOf[s], t>> \in tagged' \/ s \in x.errors \/ t \in x.errors
  BY <1>2, <1>5 DEF StepsDone, TagsDone, ContactsDone
<1>7. LinksDone(y)'
  <2>1. ASSUME NEW r \in Valid, NEW g \in LegacyTags, g \in TagsOf[r]
        PROVE  <<MailOf[r], g>> \in tagged' \/ r \in y.errors \/ g \in y.errors \/ <<r, g>> \in y.todo
    <3>1. CASE <<r, g>> = l
      BY <1>1, <1>4, <1>6, <3>1
    <3>2. CASE <<r, g>> # l
      BY <1>2, <1>4, <1>5, <2>1, <3>2 DEF StepsDone, LinksDone
    <3> QED BY <3>1, <3>2
  <2> QED BY <1>2, <1>4, <2>1 DEF LinksDone
<1>8. TagsDone(y)' /\ ContactsDone(y)' /\ CampaignsDone(y)' /\ Listed(y)'
  BY <1>2, <1>4, <1>5 DEF StepsDone, TagsDone, ContactsDone, CampaignsDone, Listed
<1> QED BY <1>3, <1>4, <1>7, <1>8, ScriptTurns DEF StepsDone

LEMMA CampaignMigrated ==
  ASSUME MigrationInv, NEW c \in LegacyCampaigns, MigrateCampaign(c)
  PROVE  MigrationInv'
<1> PICK x, v : x = script /\ v = [row |-> TRUE, urls |-> AssetsOf[c] \cap script.urls]
  OBVIOUS
<1>1. /\ x.at = "campaigns" /\ UNCHANGED <<persons, barred, tagged, released>>
      /\ archive' = IF archive[c].row THEN archive ELSE [archive EXCEPT ![c] = v]
      /\ script' = [script EXCEPT !.todo = script.todo \ {c}]
  BY DEF MigrateCampaign
<1>2. v.row
  BY Zenon
<1>3. LegacyRows' /\ Archived(c)' /\ \A k \in LegacyCampaigns : Archived(k) => Archived(k)'
  <2>1. CASE archive[c].row
    BY <1>1, <2>1 DEF MigrationInv, LegacyRows, Archived
  <2>2. CASE ~archive[c].row
    <3>1. /\ archive' = [k \in LegacyCampaigns |-> archive'[k]] /\ archive'[c] = v
          /\ \A k \in LegacyCampaigns : k # c => archive'[k] = archive[k]
      BY <1>1, <2>2 DEF MigrationInv, LegacyRows
    <3>2. LegacyRows'
      BY <1>1, <3>1 DEF MigrationInv, LegacyRows
    <3>3. Archived(c)'
      BY <1>2, <3>1 DEF Archived
    <3>4. \A k \in LegacyCampaigns : k # c => (Archived(k) => Archived(k)')
      BY <3>1 DEF Archived
    <3> QED BY <3>2, <3>3, <3>4
  <2> QED BY <2>1, <2>2
<1>4. Kept
  BY <1>1, <1>3 DEF Kept, Known, Shielded
<1>5. PICK y : /\ script' = y /\ IsScript(y) /\ y.at = x.at /\ y.todo = x.todo \ {c}
               /\ y.contacts = x.contacts /\ y.tags = x.tags /\ y.errors = x.errors
  BY <1>1, TodoIs
<1>6. StepsDone(x)'
  BY <1>4, DoneStays DEF MigrationInv
<1>7. StepsDone(y)'
  BY <1>1, <1>3, <1>5, <1>6 DEF StepsDone, TagsDone, ContactsDone, LinksDone, CampaignsDone, Listed
<1> QED BY <1>3, <1>5, <1>7, ScriptTurns

\* The new service mails, bars and releases meanwhile.
LEMMA ServiceGoesOn ==
  ASSUME MigrationInv, NEW e \in Persons, NEW cause \in Causes, SendNow(e) \/ BarNow(e, cause) \/ ReleaseNow(e)
  PROVE  MigrationInv'
<1>1. UNCHANGED <<script, tagged, archive>>
  BY DEF SendNow, BarNow, ReleaseNow
<1>2. LegacyRows' /\ \A p \in Persons : Known(p) => Known(p)'
  BY <1>1 DEF SendNow, BarNow, ReleaseNow, MigrationInv, LegacyRows, Known
<1>3. \A p \in Persons : Shielded(p) => Shielded(p)'
  <2>1. CASE SendNow(e)
    BY <2>1 DEF SendNow, Shielded
  <2>2. CASE BarNow(e, cause)
    <3> PICK v : v = [active |-> TRUE,
                      reason |-> IF Severity[cause] > Severity[barred[e].reason] THEN cause ELSE barred[e].reason]
      OBVIOUS
    <3>1. barred' = [barred EXCEPT ![e] = v] /\ released' = released \ {e}
      BY <2>2 DEF BarNow
    <3>2. barred'[e] = v /\ \A p \in Persons : p # e => barred'[p] = barred[p]
      BY <3>1 DEF MigrationInv, LegacyRows
    <3>3. v.active
      BY Zenon
    <3>4. Shielded(e)'
      BY <3>2, <3>3 DEF Shielded
    <3>5. \A p \in Persons : p # e => (Shielded(p) => Shielded(p)')
      BY <3>1, <3>2 DEF Shielded
    <3> QED BY <3>4, <3>5
  <2>3. CASE ReleaseNow(e)
    <3>1. released' = released \cup {e} /\ \A p \in Persons : p # e => barred'[p] = barred[p]
      BY <2>3 DEF ReleaseNow, MigrationInv, LegacyRows
    <3> QED BY <3>1 DEF Shielded
  <2> QED BY <2>1, <2>2, <2>3
<1>4. Kept
  BY <1>1, <1>2, <1>3 DEF Kept, Archived
<1> QED BY <1>1, <1>2, <1>4, ScriptStays

LEMMA MigrationStep ==
  ASSUME MigrationInv, [MigrationNext]_migrationVars
  PROVE  MigrationInv'
<1>1. CASE DryRun \/ Abort
  BY <1>1, ScriptEnds DEF DryRun, Abort
<1>2. CASE UploadAssets
  BY <1>2, AssetsUploaded
<1>3. CASE ToContacts \/ ToLinks \/ ToCampaigns \/ Finish
  BY <1>3, StepsOn
<1>4. ASSUME NEW t \in LegacyTags, MigrateTag(t) \/ TagFails(t) PROVE MigrationInv'
  BY <1>4, TagMigrated, RowFails DEF TagFails
<1>5. ASSUME NEW s \in Subscribers, MigrateContact(s) \/ ContactFails(s) PROVE MigrationInv'
  BY <1>5, ContactMigrated, RowFails DEF ContactFails, Due
<1>6. ASSUME NEW l \in Subscribers \X LegacyTags, MigrateLink(l) PROVE MigrationInv'
  BY <1>6, LinkMigrated
<1>7. ASSUME NEW c \in LegacyCampaigns, MigrateCampaign(c) \/ CampaignFails(c) PROVE MigrationInv'
  BY <1>7, CampaignMigrated, RowFails DEF CampaignFails
<1>8. ASSUME NEW e \in Persons, NEW cause \in Causes, SendNow(e) \/ BarNow(e, cause) \/ ReleaseNow(e)
      PROVE  MigrationInv'
  BY <1>8, ServiceGoesOn
<1>c. "MANUAL" \in Causes
  BY DEF Causes
<1>9. CASE (\E f \in Files : Repair(f)) \/ UNCHANGED migrationVars
  <2>1. UNCHANGED <<script, persons, barred, tagged, archive, released>>
    BY <1>9 DEF Repair, migrationVars
  <2> QED BY <2>1, NothingTaken, ScriptStays
<1> QED BY <1>1, <1>2, <1>3, <1>4, <1>5, <1>6, <1>7, <1>8, <1>9, <1>c DEF MigrationNext

-----------------------------------------------------------------------------
(* LegacyMigration: what the script maps comes from its lists, and what it  *)
(* writes from the rows it mapped.                                          *)

Kinds == {"good", "corrupt", "missing", "unsafe", "unsupported"}
Reasons == DOMAIN Severity
Barrings == [active : BOOLEAN, reason : Reasons]
Archives == [row : BOOLEAN, urls : SUBSET Files]

ScriptRows(x) ==
  /\ x.at \in {"idle", "tags", "contacts", "links", "campaigns", "done"}
  /\ x.contacts \subseteq Valid /\ x.tags \subseteq LegacyTags /\ x.urls \subseteq Files
  /\ x.at = "tags" => x.todo \subseteq LegacyTags
  /\ x.at = "contacts" => x.todo \subseteq Valid
ServiceRows ==
  /\ files \in [Files -> Kinds]
  /\ persons \in [Persons -> {"absent", "legacy", "current"}]
  /\ barred \in [Persons -> Barrings]
  /\ tagged \subseteq Persons \X LegacyTags
  /\ archive \in [LegacyCampaigns -> Archives]
  /\ runs \in 0 .. MaxRuns /\ changes \in 0 .. MaxChanges /\ released \subseteq Persons
MigrationBounds == ScriptRows(script) /\ ServiceRows

LEMMA NothingMapped == ScriptRows(NotRunning)
BY DEF ScriptRows, NotRunning

\* The reasons are ordered.
LEMMA ReasonsOrdered ==
  /\ Reasons = {"COMPLAINT", "UNSUBSCRIBE", "PROVIDER_SUPPRESSED", "MANUAL", "LEGACY_BOUNCE_REVIEW", "NONE"}
  /\ \A r \in Reasons : Severity[r] \in Nat
  /\ Causes \subseteq Reasons
<1>1. Reasons = {"COMPLAINT", "UNSUBSCRIBE", "PROVIDER_SUPPRESSED", "MANUAL", "LEGACY_BOUNCE_REVIEW", "NONE"}
  BY DEF Reasons, Severity
<1>2. \A r \in Reasons : Severity[r] \in Nat
  BY <1>1 DEF Severity
<1> QED BY <1>1, <1>2 DEF Causes

\* The reasons a legacy status gives are reasons.
LEMMA ReasonKnown ==
  ASSUME NEW s, Suppressing(s)
  PROVE  [active |-> TRUE, reason |-> ReasonFor[StatusOf[s]]] \in Barrings
<1>1. StatusOf[s] \in {"unsubscribed", "bounced", "complained", "suppressed"}
  BY DEF Suppressing, ReasonFor
<1>2. ReasonFor[StatusOf[s]] \in Reasons
  BY <1>1, ReasonsOrdered DEF ReasonFor
<1> QED BY <1>2 DEF Barrings

\* The script's own bookkeeping, step by step.
LEMMA ScriptTyped ==
  ASSUME MigrationInv, MigrationBounds, [MigrationNext]_migrationVars
  PROVE  ScriptRows(script')
<1> PICK a, d, c, t, u, e : script = Script(a, d, c, t, u, e)
  BY DEF MigrationInv, IsScript
<1>0. /\ a \in {"idle", "tags", "contacts", "links", "campaigns", "done"}
      /\ c \subseteq Valid /\ t \subseteq LegacyTags /\ u \subseteq Files
      /\ a = "tags" => d \subseteq LegacyTags
      /\ a = "contacts" => d \subseteq Valid
      /\ script.at = a /\ script.todo = d
  BY DEF MigrationBounds, ScriptRows, Script
<1>1. ASSUME script' = NotRunning PROVE ScriptRows(script')
  BY <1>1, NothingMapped
<1>2. ASSUME UNCHANGED script PROVE ScriptRows(script')
  BY <1>2 DEF MigrationBounds
<1>3. CASE UploadAssets
  <2>1. script' = NotRunning \/ script' = [NotRunning EXCEPT !.at = "tags", !.todo = LegacyTags, !.urls = Migratable]
    BY <1>3 DEF UploadAssets
  <2>2. ASSUME script' = [NotRunning EXCEPT !.at = "tags", !.todo = LegacyTags, !.urls = Migratable]
        PROVE  ScriptRows(script')
    <3>1. script' = Script("tags", LegacyTags, {}, {}, Migratable, {})
      BY <2>2 DEF Script, NotRunning
    <3> QED BY <3>1 DEF ScriptRows, Script, Migratable
  <2> QED BY <1>1, <2>1, <2>2
<1>4. ASSUME NEW at \in {"contacts", "links", "campaigns", "done"}, NEW todo, NextStep(at, todo),
             at = "contacts" => todo \subseteq Valid
      PROVE  ScriptRows(script')
  <2>1. script' = Script(at, todo, c, t, u, e)
    BY <1>4 DEF NextStep, Script
  <2> QED BY <1>0, <1>4, <2>1 DEF ScriptRows, Script
<1>5. CASE ToContacts \/ ToLinks \/ ToCampaigns \/ Finish
  BY <1>4, <1>5 DEF ToContacts, ToLinks, ToCampaigns, Finish
<1>6. ASSUME NEW r, FailsRow(r) PROVE ScriptRows(script')
  <2>1. script' = Script(a, d \ {r}, c, t, u, e \cup {r})
    BY <1>6 DEF FailsRow, Script
  <2> QED BY <1>0, <2>1 DEF ScriptRows, Script
<1>7. ASSUME NEW r \in LegacyTags, MigrateTag(r) PROVE ScriptRows(script')
  <2>1. script' = Script(a, d \ {r}, c, t \cup {r}, u, e)
    BY <1>7 DEF MigrateTag, Script
  <2> QED BY <1>0, <2>1 DEF ScriptRows, Script
<1>8. ASSUME NEW s, MigrateContact(s) PROVE ScriptRows(script')
  <2>1. script' = Script(a, d \ {s}, c \cup {s}, t, u, e)
    BY <1>8 DEF MigrateContact, Mapped, Script
  <2>2. s \in Valid
    BY <1>0, <1>8 DEF MigrateContact, Due
  <2> QED BY <1>0, <2>1, <2>2 DEF ScriptRows, Script
<1>9. ASSUME NEW r, script' = [script EXCEPT !.todo = script.todo \ {r}] PROVE ScriptRows(script')
  <2>1. script' = Script(a, d \ {r}, c, t, u, e)
    BY <1>0, <1>9 DEF Script
  <2> QED BY <1>0, <2>1 DEF ScriptRows, Script
<1>10. CASE \E l \in Subscribers \X LegacyTags : MigrateLink(l)
  BY <1>9, <1>10 DEF MigrateLink
<1>11. CASE \E k \in LegacyCampaigns : MigrateCampaign(k)
  BY <1>9, <1>11 DEF MigrateCampaign
<1>12. [MigrationNext]_migrationVars =>
         \/ UNCHANGED script \/ script' = NotRunning \/ (\E r : FailsRow(r)) \/ UploadAssets
         \/ ToContacts \/ ToLinks \/ ToCampaigns \/ Finish
         \/ (\E r \in LegacyTags : MigrateTag(r)) \/ (\E s : MigrateContact(s))
         \/ (\E l \in Subscribers \X LegacyTags : MigrateLink(l)) \/ (\E k \in LegacyCampaigns : MigrateCampaign(k))
  BY DEF MigrationNext, migrationVars, DryRun, Abort, TagFails, ContactFails, CampaignFails, Repair, SendNow,
     BarNow, ReleaseNow
<1> QED BY <1>1, <1>2, <1>3, <1>5, <1>6, <1>7, <1>8, <1>10, <1>11, <1>12

\* What the script writes, row by row.
LEMMA RowsWritten ==
  ASSUME MigrationInv, MigrationBounds,
         \/ \E s \in Subscribers : MigrateContact(s)
         \/ \E l \in Subscribers \X LegacyTags : MigrateLink(l)
         \/ \E c \in LegacyCampaigns : MigrateCampaign(c)
  PROVE  ServiceRows'
<1>0. /\ persons \in [Persons -> {"absent", "legacy", "current"}] /\ barred \in [Persons -> Barrings]
      /\ tagged \subseteq Persons \X LegacyTags /\ archive \in [LegacyCampaigns -> Archives]
      /\ released \subseteq Persons /\ script.contacts \subseteq Valid /\ script.urls \subseteq Files
      /\ script.at = "contacts" => script.todo \subseteq Valid
  BY DEF MigrationBounds, ServiceRows, ScriptRows
<1>1. ASSUME UNCHANGED <<files, runs, changes>>, persons' \in [Persons -> {"absent", "legacy", "current"}],
             barred' \in [Persons -> Barrings], tagged' \subseteq Persons \X LegacyTags,
             archive' \in [LegacyCampaigns -> Archives], released' \subseteq Persons
      PROVE  ServiceRows'
  BY <1>1 DEF MigrationBounds, ServiceRows
<1>2. ASSUME NEW s \in Subscribers, MigrateContact(s) PROVE ServiceRows'
  <2>1. s \in Valid /\ MailOf[s] \in Persons
    BY <1>0, <1>2, MailStands DEF MigrateContact, Due
  <2>2. persons' \in [Persons -> {"absent", "legacy", "current"}]
    BY <1>0, <1>2, <2>1 DEF MigrateContact
  <2>3. barred' \in [Persons -> Barrings]
    <3> PICK v : v = [active |-> TRUE, reason |-> ReasonFor[StatusOf[s]]]
      OBVIOUS
    <3>1. barred' = IF Suppressing(s) THEN [barred EXCEPT ![MailOf[s]] = v] ELSE barred
      BY <1>2 DEF MigrateContact, Bar
    <3>2. Suppressing(s) => v \in Barrings
      BY ReasonKnown
    <3> QED BY <1>0, <2>1, <3>1, <3>2
  <2> QED BY <1>0, <1>1, <1>2, <2>2, <2>3 DEF MigrateContact
<1>3. ASSUME NEW l \in Subscribers \X LegacyTags, MigrateLink(l) PROVE ServiceRows'
  <2>1. l[1] \in script.contacts => MailOf[l[1]] \in Persons
    BY <1>0, MailStands
  <2>2. tagged' \subseteq Persons \X LegacyTags
    BY <1>0, <1>3, <2>1 DEF MigrateLink
  <2> QED BY <1>0, <1>1, <1>3, <2>2 DEF MigrateLink
<1>4. ASSUME NEW c \in LegacyCampaigns, MigrateCampaign(c) PROVE ServiceRows'
  <2> PICK v : v = [row |-> TRUE, urls |-> AssetsOf[c] \cap script.urls]
    OBVIOUS
  <2>1. v \in Archives
    BY <1>0 DEF Archives
  <2>2. archive' \in [LegacyCampaigns -> Archives]
    BY <1>0, <1>4, <2>1 DEF MigrateCampaign
  <2> QED BY <1>0, <1>1, <1>4, <2>2 DEF MigrateCampaign
<1> QED BY <1>2, <1>3, <1>4

\* What the new service does meanwhile.
LEMMA ServiceTyped ==
  ASSUME MigrationBounds,
         \/ \E f \in Files : Repair(f)
         \/ \E e \in Persons : SendNow(e) \/ ReleaseNow(e)
         \/ \E e \in Persons, cause \in Causes : BarNow(e, cause)
  PROVE  ServiceRows'
<1>0. /\ files \in [Files -> Kinds] /\ persons \in [Persons -> {"absent", "legacy", "current"}]
      /\ barred \in [Persons -> Barrings] /\ released \subseteq Persons
  BY DEF MigrationBounds, ServiceRows
<1>1. changes' \in 0 .. MaxChanges
  <2>1. Change
    BY DEF Repair, SendNow, BarNow, ReleaseNow
  <2> QED BY <2>1, MigrationAssumption DEF Change, MigrationBounds, ServiceRows, MigrationAssumption
<1>2. ASSUME UNCHANGED <<tagged, archive, runs>>, files' \in [Files -> Kinds],
             persons' \in [Persons -> {"absent", "legacy", "current"}],
             barred' \in [Persons -> Barrings], released' \subseteq Persons
      PROVE  ServiceRows'
  BY <1>1, <1>2 DEF MigrationBounds, ServiceRows
<1>3. ASSUME NEW f \in Files, Repair(f) PROVE ServiceRows'
  BY <1>0, <1>2, <1>3 DEF Repair, Kinds
<1>4. ASSUME NEW e \in Persons, SendNow(e) PROVE ServiceRows'
  BY <1>0, <1>2, <1>4 DEF SendNow
<1>5. ASSUME NEW e \in Persons, NEW cause \in Causes, BarNow(e, cause) PROVE ServiceRows'
  <2> PICK r, v : /\ r = IF Severity[cause] > Severity[barred[e].reason] THEN cause ELSE barred[e].reason
                  /\ v = [active |-> TRUE, reason |-> r]
    OBVIOUS
  <2>1. r \in Reasons
    BY <1>0, ReasonsOrdered DEF Barrings
  <2>2. v \in Barrings
    BY <2>1 DEF Barrings
  <2>3. barred' = [barred EXCEPT ![e] = v]
    BY <1>5 DEF BarNow
  <2> QED BY <1>0, <1>2, <1>5, <2>2, <2>3 DEF BarNow
<1>6. ASSUME NEW e \in Persons, ReleaseNow(e) PROVE ServiceRows'
  <2> PICK v : v = [barred[e] EXCEPT !.active = FALSE]
    OBVIOUS
  <2>1. v \in Barrings
    BY <1>0 DEF Barrings
  <2>2. barred' = [barred EXCEPT ![e] = v]
    BY <1>6 DEF ReleaseNow
  <2> QED BY <1>0, <1>2, <1>6, <2>1, <2>2 DEF ReleaseNow
<1> QED BY <1>3, <1>4, <1>5, <1>6

LEMMA MigrationBoundsStep == MigrationInv /\ MigrationBounds /\ [MigrationNext]_migrationVars => MigrationBounds'
<1> SUFFICES ASSUME MigrationInv, MigrationBounds, [MigrationNext]_migrationVars PROVE MigrationBounds'
  OBVIOUS
<1>1. ScriptRows(script')
  BY ScriptTyped
<1>2. ASSUME UNCHANGED <<files, persons, barred, tagged, archive, changes, released>>, runs' \in 0 .. MaxRuns
      PROVE  ServiceRows'
  BY <1>2 DEF MigrationBounds, ServiceRows
<1>3. runs' = runs \/ (runs < MaxRuns /\ runs' = runs + 1) => runs' \in 0 .. MaxRuns
  BY MigrationAssumption DEF MigrationBounds, ServiceRows, MigrationAssumption
<1>4. [MigrationNext]_migrationVars =>
        \/ /\ UNCHANGED <<files, persons, barred, tagged, archive, changes, released>>
           /\ runs' = runs \/ (runs < MaxRuns /\ runs' = runs + 1)
        \/ (\E s \in Subscribers : MigrateContact(s)) \/ (\E l \in Subscribers \X LegacyTags : MigrateLink(l))
        \/ (\E c \in LegacyCampaigns : MigrateCampaign(c)) \/ (\E f \in Files : Repair(f))
        \/ (\E e \in Persons : SendNow(e) \/ ReleaseNow(e)) \/ \E e \in Persons, cause \in Causes : BarNow(e, cause)
  BY DEF MigrationNext, migrationVars, DryRun, UploadAssets, ToContacts, ToLinks, ToCampaigns, Finish, Abort,
     MigrateTag, TagFails, ContactFails, CampaignFails
<1>5. ServiceRows'
  BY <1>2, <1>3, <1>4, RowsWritten, ServiceTyped
<1> QED BY <1>1, <1>5 DEF MigrationBounds, ScriptRows

LEMMA MigrationBoundsStart == MigrationInit => MigrationBounds
<1> SUFFICES ASSUME MigrationInit PROVE MigrationBounds
  OBVIOUS
<1>1. Unbarred \in Barrings /\ NotArchived \in Archives
  <2>1. Unbarred \in Barrings
    BY ReasonsOrdered DEF Unbarred, Barrings
  <2>2. NotArchived \in Archives
    BY DEF NotArchived, Archives
  <2> QED BY <2>1, <2>2
<1>2. ServiceRows
  BY <1>1, MigrationAssumption DEF MigrationInit, ServiceRows, MigrationAssumption, Kinds
<1> QED BY <1>2, NothingMapped DEF MigrationInit, MigrationBounds

\* The script links no tag to an address it did not normalise or to a tag it
\* did not map, and archives no URL of a file it did not upload, whichever
\* rows fail, wherever it dies and whatever is barred or released meanwhile.
THEOREM MigrationTypeCorrect == MigrationSpec => []MigrationTypeOK
<1>1. MigrationInv /\ MigrationBounds => MigrationTypeOK
  BY DEF MigrationBounds, ScriptRows, ServiceRows, MigrationTypeOK, Kinds, Reasons, Barrings, Archives
<1>2. MigrationInv /\ [MigrationNext]_migrationVars => MigrationInv'
  BY MigrationStep
<1>3. MigrationInit => MigrationInv
  BY ScriptBegins DEF MigrationInit, MigrationInv, LegacyRows
<1> QED BY <1>1, <1>2, <1>3, MigrationBoundsStart, MigrationBoundsStep, PTL DEF MigrationSpec

-----------------------------------------------------------------------------
(* LegacyMigration: rows go in order, and the new service's upsert never     *)
(* weakens a reason, so that of the rows of one address the last has its say.*)

RowsAhead(x) ==
  /\ x.at = "tags" => x.contacts = {}
  /\ x.at = "contacts" => \A s \in x.contacts, r \in x.todo : s < r
LastIn(c, s) ==
  s \in c /\ Suppressing(s) /\ \A r \in c : MailOf[r] = MailOf[s] /\ Suppressing(r) => r <= s
AsStrict(s) == Severity[barred[MailOf[s]].reason] >= Severity[ReasonFor[StatusOf[s]]]
LastCounts(c) == \A s \in Valid : LastIn(c, s) => AsStrict(s)
StatusInv == RowsAhead(script) /\ LastCounts(script.contacts)

\* The transaction of one row, given those of its address before it.
LEMMA RowCounts ==
  ASSUME MigrationInv, MigrationBounds, NEW s, MigrateContact(s), NEW c, c \subseteq Valid, LastCounts(c),
         s \in Valid, \A r \in c : r < s
  PROVE  LastCounts(c \cup {s})'
<1> PICK m, v : m = MailOf[s] /\ v = [active |-> TRUE, reason |-> ReasonFor[StatusOf[s]]]
  OBVIOUS
<1>0. m \in Persons /\ s \in Nat /\ c \subseteq Nat
  BY MailStands, MigrationAssumption DEF Valid, MigrationAssumption
<1>1. barred' = IF Suppressing(s) THEN [barred EXCEPT ![m] = v] ELSE barred
  BY DEF MigrateContact, Bar
<1>2. ASSUME NEW r \in Valid, LastIn(c \cup {s}, r) PROVE AsStrict(r)'
  <2>1. CASE r = s
    <3>1. Suppressing(s) /\ barred'[m] = v
      BY <1>0, <1>1, <1>2, <2>1 DEF LastIn, MigrationInv, LegacyRows
    <3>2. v.reason = ReasonFor[StatusOf[s]] /\ v \in Barrings
      BY <3>1, ReasonKnown
    <3>3. Severity[v.reason] \in Nat
      BY <3>2, ReasonsOrdered DEF Barrings
    <3> QED BY <2>1, <3>1, <3>2, <3>3 DEF AsStrict
  <2>2. CASE r # s
    <3>1. r \in c /\ LastIn(c, r)
      BY <1>2, <2>2 DEF LastIn
    <3>2. ~(MailOf[s] = MailOf[r] /\ Suppressing(s))
      BY <1>0, <1>2, <3>1 DEF LastIn
    <3>3. barred'[MailOf[r]] = barred[MailOf[r]]
      BY <1>0, <1>1, <3>2, MailStands DEF MigrationInv, LegacyRows
    <3>4. AsStrict(r)
      BY <3>1 DEF LastCounts
    <3> QED BY <3>3, <3>4 DEF AsStrict
  <2> QED BY <2>1, <2>2
<1> QED BY <1>2 DEF LastCounts

\* No step of the new service weakens a reason.
LEMMA ReasonsStand ==
  ASSUME MigrationBounds, NEW e \in Persons, NEW cause \in Causes, SendNow(e) \/ BarNow(e, cause) \/ ReleaseNow(e),
         NEW c, LastCounts(c)
  PROVE  LastCounts(c)'
<1>0. barred \in [Persons -> Barrings]
  BY DEF MigrationBounds, ServiceRows
<1>1. \A p \in Persons : barred[p].reason \in Reasons /\ Severity[barred[p].reason] \in Nat
  BY <1>0, ReasonsOrdered DEF Barrings
<1>2. \A p \in Persons : barred'[p].reason = barred[p].reason
                         \/ Severity[barred'[p].reason] > Severity[barred[p].reason]
  <2>1. CASE SendNow(e)
    BY <2>1 DEF SendNow
  <2>2. CASE BarNow(e, cause)
    BY <1>0, <2>2 DEF BarNow, Barrings
  <2>3. CASE ReleaseNow(e)
    BY <1>0, <2>3 DEF ReleaseNow, Barrings
  <2> QED BY <2>1, <2>2, <2>3
<1>3. \A p \in Persons : barred'[p].reason \in Reasons
  <2>1. ServiceRows'
    BY ServiceTyped
  <2> QED BY <2>1 DEF ServiceRows, Barrings
<1>4. ASSUME NEW s \in Valid, LastIn(c, s) PROVE AsStrict(s)'
  <2>1. MailOf[s] \in Persons /\ AsStrict(s)
    BY <1>4, MailStands DEF LastCounts
  <2>2. Severity[ReasonFor[StatusOf[s]]] \in Nat
    BY <1>4, ReasonKnown, ReasonsOrdered DEF LastIn, Barrings
  <2>3. Severity[barred[MailOf[s]].reason] \in Nat /\ Severity[barred'[MailOf[s]].reason] \in Nat
    BY <1>1, <1>3, <2>1, ReasonsOrdered
  <2> QED BY <1>2, <2>1, <2>2, <2>3 DEF AsStrict
<1> QED BY <1>4 DEF LastCounts

\* What MigrateContact leaves of the script.
LEMMA ContactMapped ==
  ASSUME IsScript(script), NEW s, MigrateContact(s)
  PROVE  /\ script' = Script(script.at, script.todo \ {s}, script.contacts \cup {s}, script.tags,
                            script.urls, script.errors)
         /\ script.at = "contacts" /\ s \in script.todo /\ \A r \in script.todo : s <= r
<1>1. /\ script.at = "contacts" /\ s \in script.todo /\ \A r \in script.todo : s <= r
      /\ script' = [script EXCEPT !.todo = script.todo \ {s}, !.contacts = script.contacts \cup {s}]
  BY DEF MigrateContact, Due, Mapped
<1>2. script' = Script(script.at, script.todo \ {s}, script.contacts \cup {s}, script.tags,
                       script.urls, script.errors)
  BY <1>1 DEF IsScript, Script
<1> QED BY <1>1, <1>2

LEMMA StatusStep ==
  ASSUME MigrationInv, MigrationBounds, StatusInv, [MigrationNext]_migrationVars
  PROVE  StatusInv'
<1> PICK a, d, c, t, u, e : script = Script(a, d, c, t, u, e)
  BY DEF MigrationInv, IsScript
<1>a. script.at = a /\ script.todo = d /\ script.contacts = c
  BY DEF Script
<1>0. /\ c \subseteq Valid /\ LastCounts(c)
      /\ a = "tags" => c = {}
      /\ a = "contacts" => d \subseteq Valid /\ \A s \in c, r \in d : s < r
  <2>1. c \subseteq Valid /\ (a = "contacts" => d \subseteq Valid)
    BY <1>a DEF MigrationBounds, ScriptRows
  <2>2. RowsAhead(script) /\ LastCounts(c)
    BY <1>a DEF StatusInv
  <2> QED BY <1>a, <2>1, <2>2 DEF RowsAhead
<1>v. Valid \subseteq Nat
  BY MigrationAssumption DEF Valid, MigrationAssumption
<1>1. ASSUME script'.contacts = {} PROVE StatusInv'
  BY <1>1 DEF StatusInv, RowsAhead, LastCounts, LastIn
<1>2. ASSUME UNCHANGED barred, NEW x, script' = x, x.contacts = c, RowsAhead(x) PROVE StatusInv'
  <2>1. LastCounts(c)'
    BY <1>0, <1>2 DEF LastCounts, AsStrict
  <2> QED BY <1>2, <2>1 DEF StatusInv
<1>3. CASE DryRun \/ Abort \/ UploadAssets
  <2>1. script' = NotRunning \/ script' = [NotRunning EXCEPT !.at = "tags", !.todo = LegacyTags, !.urls = Migratable]
    BY <1>3 DEF DryRun, Abort, UploadAssets
  <2>2. NotRunning.contacts = {} /\ [NotRunning EXCEPT !.at = "tags", !.todo = LegacyTags, !.urls = Migratable].contacts = {}
    BY DEF NotRunning
  <2> QED BY <1>1, <2>1, <2>2
<1>4. CASE ToContacts \/ ToLinks \/ ToCampaigns \/ Finish
  <2>1. PICK at, todo : /\ NextStep(at, todo) /\ UNCHANGED barred
                        /\ (at = "contacts" /\ a = "tags") \/ at \in {"links", "campaigns", "done"}
    BY <1>a, <1>4 DEF ToContacts, ToLinks, ToCampaigns, Finish
  <2>2. script' = Script(at, todo, c, t, u, e)
    BY <2>1 DEF NextStep, Script
  <2>3. RowsAhead(Script(at, todo, c, t, u, e))
    BY <1>0, <2>1 DEF RowsAhead, Script
  <2> QED BY <1>2, <2>1, <2>2, <2>3 DEF Script
<1>5. ASSUME NEW r, NEW g, NEW f, UNCHANGED barred, script' = Script(a, d \ {r}, c, g, u, f) PROVE StatusInv'
  <2>1. RowsAhead(Script(a, d \ {r}, c, g, u, f))
    BY <1>0 DEF RowsAhead, Script
  <2> QED BY <1>2, <1>5, <2>1 DEF Script
<1>6. ASSUME NEW r, FailsRow(r), UNCHANGED barred PROVE StatusInv'
  <2>1. script' = Script(a, d \ {r}, c, t, u, e \cup {r})
    BY <1>6 DEF FailsRow, Script
  <2> QED BY <1>5, <1>6, <2>1
<1>7. ASSUME NEW g, MigrateTag(g) PROVE StatusInv'
  <2>1. script' = Script(a, d \ {g}, c, t \cup {g}, u, e) /\ UNCHANGED barred
    BY <1>7 DEF MigrateTag, Script
  <2> QED BY <1>5, <2>1
<1>8. ASSUME NEW r, script' = [script EXCEPT !.todo = @ \ {r}], UNCHANGED barred PROVE StatusInv'
  <2>1. script' = Script(a, d \ {r}, c, t, u, e)
    BY <1>8 DEF Script
  <2> QED BY <1>5, <1>8, <2>1
<1>9. ASSUME NEW s, MigrateContact(s) PROVE StatusInv'
  <2>1. script' = Script(a, d \ {s}, c \cup {s}, t, u, e) /\ a = "contacts" /\ s \in d /\ \A r \in d : s <= r
    <3>1. IsScript(script) /\ MigrateContact(s)
      BY <1>9 DEF MigrationInv
    <3>2. script.at = a /\ script.todo = d /\ script.contacts = c /\ script.tags = t
          /\ script.urls = u /\ script.errors = e
      BY DEF Script
    <3> QED BY <3>1, <3>2, ContactMapped
  <2>2. RowsAhead(Script(a, d \ {s}, c \cup {s}, t, u, e))
    <3>1. c \subseteq Nat /\ d \subseteq Nat /\ \A p \in c, r \in d : p < r
      BY <1>0, <1>v, <2>1
    <3>2. ASSUME NEW p \in c \cup {s}, NEW r \in d \ {s} PROVE p < r
      BY <2>1, <3>1, <3>2
    <3>3. \A p \in Script(a, d \ {s}, c \cup {s}, t, u, e).contacts,
             r \in Script(a, d \ {s}, c \cup {s}, t, u, e).todo : p < r
      BY <3>2 DEF Script
    <3>4. Script(a, d \ {s}, c \cup {s}, t, u, e).at = a
      BY DEF Script
    <3> QED BY <2>1, <3>3, <3>4 DEF RowsAhead
  <2>3. LastCounts(c \cup {s})'
    BY <1>0, <1>9, <2>1, RowCounts
  <2> QED BY <2>1, <2>2, <2>3 DEF StatusInv, Script
<1>10. ASSUME NEW p \in Persons, NEW cause \in Causes, SendNow(p) \/ BarNow(p, cause) \/ ReleaseNow(p)
       PROVE  StatusInv'
  <2>1. UNCHANGED script
    BY <1>10 DEF SendNow, BarNow, ReleaseNow
  <2>2. LastCounts(c)'
    BY <1>0, <1>10, ReasonsStand
  <2>3. RowsAhead(script)
    BY DEF StatusInv
  <2> QED BY <1>a, <2>1, <2>2, <2>3 DEF StatusInv
<1>11. ASSUME UNCHANGED <<script, barred>> PROVE StatusInv'
  BY <1>a, <1>2, <1>11 DEF StatusInv
<1>12. \/ \E r \in LegacyTags : MigrateTag(r)
       \/ \E s \in Subscribers : MigrateContact(s)
       \/ \E r : FailsRow(r) /\ UNCHANGED barred
       \/ \E r : script' = [script EXCEPT !.todo = @ \ {r}] /\ UNCHANGED barred
       \/ DryRun \/ Abort \/ UploadAssets
       \/ ToContacts \/ ToLinks \/ ToCampaigns \/ Finish
       \/ \E p \in Persons : SendNow(p) \/ ReleaseNow(p)
       \/ \E p \in Persons, cause \in Causes : BarNow(p, cause)
       \/ UNCHANGED <<script, barred>>
  BY DEF MigrationNext, migrationVars, TagFails, ContactFails, CampaignFails, MigrateLink, MigrateCampaign, Repair
<1>c. "MANUAL" \in Causes
  BY DEF Causes
<1> QED BY <1>3, <1>4, <1>6, <1>7, <1>8, <1>9, <1>10, <1>11, <1>12, <1>c

\* However often the script died and was run again, and whatever the new
\* service did meanwhile: when a run comes to its end, every contact, tag
\* link, suppression and campaign that its report lists no error for is there,
\* and of the rows of one address the last one's reason or a stricter one.
THEOREM MigrationCovers == MigrationSpec => []LegacyCovered
<1>1. MigrationInit => MigrationInv /\ MigrationBounds /\ StatusInv
  <2>1. MigrationInit => MigrationInv
    BY ScriptBegins DEF MigrationInit, MigrationInv, LegacyRows
  <2>2. MigrationInit => StatusInv
    BY DEF MigrationInit, NotRunning, StatusInv, RowsAhead, LastCounts, LastIn
  <2> QED BY <2>1, <2>2, MigrationBoundsStart
<1>2. MigrationInv /\ MigrationBounds /\ StatusInv /\ [MigrationNext]_migrationVars
        => (MigrationInv /\ MigrationBounds /\ StatusInv)'
  BY MigrationStep, MigrationBoundsStep, StatusStep
<1>3. MigrationInv /\ StatusInv => LegacyCovered
  <2> SUFFICES ASSUME MigrationInv, StatusInv, script.at = "done" PROVE LegacyCovered
    BY DEF LegacyCovered
  <2>1. StepsDone(script)
    BY DEF MigrationInv
  <2>2. \A s \in Valid \ script.errors :
          /\ persons[MailOf[s]] # "absent"
          /\ Suppressing(s) => barred[MailOf[s]].active \/ MailOf[s] \in released
    BY <2>1 DEF StepsDone, ContactsDone, Brought, Known, Shielded
  <2>3. \A s \in Valid \ script.errors : \A t \in TagsOf[s] \ script.errors : <<MailOf[s], t>> \in tagged
    BY <2>1, MailStands, MigrationAssumption DEF StepsDone, LinksDone, MigrationAssumption
  <2>4. \A c \in LegacyCampaigns \ script.errors : archive[c].row
    BY <2>1 DEF StepsDone, CampaignsDone, Archived
  <2>5. \A s \in Valid : SaysLast(s) => Severity[barred[MailOf[s]].reason] >= Severity[ReasonFor[StatusOf[s]]]
    BY DEF StatusInv, LastCounts, LastIn, SaysLast, AsStrict
  <2> QED BY <2>2, <2>3, <2>4, <2>5 DEF LegacyCovered
<1> QED BY <1>1, <1>2, <1>3, PTL DEF MigrationSpec

-----------------------------------------------------------------------------
(* ContactPaging: the order of a list is total, so that a full page holds   *)
(* its least contacts; by cursor, whoever was there all along has been read *)
(* if the cursor is not before it, and only then.                           *)

\* Of two contacts with their keys, which the query returns first.
Before(k, c, l, d) ==
  \/ k # 0 /\ l = 0
  \/ k # 0 /\ l # 0 /\ Beyond(l, k)
  \/ k = l /\ Beyond(d, c)

Underway == walk.at \in {"page", "anchored"}
\* The key under which the cursor's contact was the last of its page.
CursorKey == IF walk.at = "anchored" THEN walk.value ELSE Key(walk.cursor)
Ahead(c) == walk.cursor # 0 => Before(CursorKey, walk.cursor, Key(c), c)

WalkType ==
  [at : {"none", "page", "anchored", "done"}, by : {"cursor", "offset"},
   sort : {"createdAt", "lastSentAt"}, order : {"asc", "desc"},
   cursor : 0 .. ContactCount, value : Nat, offset : Nat]
PagingTyped ==
  /\ standing \in [Numbered -> {"ABSENT", "ACTIVE", "ARCHIVED"}]
  /\ createdAt \in [Numbered -> Nat] /\ lastSentAt \in [Numbered -> Nat]
  /\ instant \in Nat /\ walk \in WalkType
  /\ listed \in [Numbered -> Nat] /\ steady \subseteq Matching
  /\ anchorMoved \in BOOLEAN /\ joined \in BOOLEAN /\ left \in BOOLEAN
PagingPlaced ==
  /\ walk.at = "none" => walk.cursor = 0 /\ walk.offset = 0 /\ \A c \in Numbered : listed[c] = 0
  /\ walk.by = "cursor" => walk.offset = 0
  /\ walk.by = "offset" => walk.cursor = 0
  /\ walk.at = "anchored" => walk.cursor # 0
  /\ walk.cursor # 0 => standing[walk.cursor] # "ABSENT"
CursorKept ==
  Underway /\ walk.by = "cursor" /\ ~anchorMoved =>
    \A c \in steady : listed[c] = IF Ahead(c) THEN 0 ELSE 1
OffsetKept ==
  Underway /\ walk.by = "offset" /\ ~left =>
    \A c \in steady : /\ listed[c] = 0 => Rank(c) >= walk.offset
                      /\ ~joined => listed[c] = IF Rank(c) < walk.offset THEN 1 ELSE 0
PagingInv == PagingTyped /\ PagingPlaced /\ CursorKept /\ OffsetKept /\ PagingComplete

LEMMA BeforeOrders ==
  ASSUME NEW k \in Nat, NEW c \in Nat, NEW l \in Nat, NEW d \in Nat, NEW m \in Nat, NEW e \in Nat
  PROVE  /\ ~Before(k, c, k, c)
         /\ Before(k, c, l, d) /\ Before(l, d, m, e) => Before(k, c, m, e)
         /\ Before(k, c, l, d) \/ Before(l, d, k, c) \/ c = d
BY DEF Before, Beyond

LEMMA KeyTyped ==
  ASSUME PagingTyped
  PROVE  /\ \A c \in Numbered : Key(c) \in Nat /\ c \in Nat /\ c # 0
         /\ walk.cursor \in Nat /\ walk.value \in Nat /\ walk.offset \in Nat
         /\ walk.cursor # 0 => walk.cursor \in Numbered
         /\ steady \subseteq Matching /\ Matching \subseteq Numbered /\ Remaining \subseteq Matching
         /\ ContactCount \in Nat /\ ListLimit \in Nat /\ ListLimit >= 1
<1>1. ContactCount \in Nat /\ ListLimit \in Nat /\ ListLimit >= 1
  BY PagingAssumption DEF PagingAssumption
<1>2. walk.cursor \in 0 .. ContactCount /\ walk.value \in Nat /\ walk.offset \in Nat
  BY DEF PagingTyped, WalkType
<1>3. createdAt \in [Numbered -> Nat] /\ lastSentAt \in [Numbered -> Nat] /\ steady \subseteq Matching
  BY DEF PagingTyped
<1>4. \A c \in Numbered : Key(c) \in Nat
  BY <1>3 DEF Key
<1> QED BY <1>1, <1>2, <1>3, <1>4, SMTT(30) DEF Numbered, Matching, Remaining

LEMMA PrecedesOrders ==
  ASSUME PagingTyped, NEW c \in Numbered, NEW d \in Numbered
  PROVE  /\ Precedes(c, d) <=> Before(Key(c), c, Key(d), d)
         /\ ~Precedes(c, c)
         /\ Precedes(c, d) \/ Precedes(d, c) \/ c = d
         /\ \A e \in Numbered : Precedes(c, d) /\ Precedes(d, e) => Precedes(c, e)
<1>1. \A x, y \in Numbered : Precedes(x, y) <=> Before(Key(x), x, Key(y), y)
  BY DEF Precedes, Before
<1>2. \A x \in Numbered : Key(x) \in Nat /\ x \in Nat
  BY KeyTyped
<1>3. Precedes(c, d) <=> Before(Key(c), c, Key(d), d)
  BY <1>1
<1>4. ~Precedes(c, c) /\ (Precedes(c, d) \/ Precedes(d, c) \/ c = d)
  BY <1>1, <1>2, BeforeOrders
<1>5. ASSUME NEW e \in Numbered, Precedes(c, d), Precedes(d, e) PROVE Precedes(c, e)
  BY <1>1, <1>2, <1>5, BeforeOrders, SMTT(30)
<1> QED BY <1>3, <1>4, <1>5

\* Ranks are numbers that grow along the order.
LEMMA RankRises ==
  ASSUME PagingTyped
  PROVE  /\ IsFiniteSet(Remaining)
         /\ \A c \in Remaining : Rank(c) \in Nat
         /\ \A c, d \in Remaining : Precedes(c, d) => Rank(c) < Rank(d)
<1> DEFINE P(c) == {e \in Remaining : Precedes(e, c)}
<1>0. Remaining \subseteq Numbered /\ ContactCount \in Nat
  BY KeyTyped
<1>1. IsFiniteSet(Remaining)
  <2>1. IsFiniteSet(1 .. ContactCount)
    BY <1>0, FS_Interval
  <2> QED BY <1>0, <2>1, FS_Subset DEF Numbered
<1>2. \A c \in Remaining : IsFiniteSet(P(c)) /\ Cardinality(P(c)) \in Nat /\ Rank(c) = Cardinality(P(c))
  BY <1>1, FS_Subset, FS_CardinalityType DEF Rank
<1>3. ASSUME NEW c \in Remaining, NEW d \in Remaining, Precedes(c, d)
      PROVE  Rank(c) < Rank(d)
  <2>1. P(c) \subseteq P(d) /\ c \in P(d) /\ c \notin P(c)
    BY <1>0, <1>3, PrecedesOrders
  <2> HIDE DEF P
  <2>2. Cardinality(P(c)) <= Cardinality(P(d)) /\ (Cardinality(P(c)) = Cardinality(P(d)) => P(c) = P(d))
    BY <1>2, <2>1, FS_Subset
  <2> QED BY <1>2, <2>1, <2>2
<1> QED BY <1>1, <1>2, <1>3

\* The same, to be used of the next state too.
LEMMA RanksTyped == PagingTyped => IsFiniteSet(Remaining) /\ \A c \in Remaining : Rank(c) \in Nat
BY RankRises
LEMMA RanksTypedThen == (PagingTyped => IsFiniteSet(Remaining) /\ \A c \in Remaining : Rank(c) \in Nat)'
BY RanksTyped, PTL

LEMMA RanksApart ==
  ASSUME PagingTyped, NEW c \in Remaining, NEW d \in Remaining, Rank(c) = Rank(d)
  PROVE  c = d
<1>1. c \in Numbered /\ d \in Numbered /\ Rank(c) \in Nat /\ Rank(d) \in Nat
  BY KeyTyped, RankRises
<1> QED BY <1>1, PrecedesOrders, RankRises

\* A set of naturals that is not empty has a least element.
LEMMA LeastNumber ==
  ASSUME NEW S \in SUBSET Nat, S # {}
  PROVE  \E m \in S : \A n \in S : m <= n
<1> DEFINE R == OpToRel(<, Nat)
<1>1. IsWellFoundedOn(R, Nat)
  BY NatLessThanWellFounded
<1>2. \A x, y \in Nat : y < x => <<y, x>> \in R
  BY DEF OpToRel
<1> HIDE DEF R
<1>3. PICK x \in S : \A y \in S : ~(<<y, x>> \in R)
  BY <1>1, WFMin
<1>4. \A y \in S : x \in Nat /\ y \in Nat /\ ~(y < x)
  BY <1>2, <1>3
<1> QED BY <1>4

\* Contacts whose ranks lie in an interval are no more than it has numbers.
LEMMA RanksFit ==
  ASSUME PagingTyped, NEW a \in Nat, NEW n \in Nat,
         NEW S \in SUBSET Remaining, \A c \in S : Rank(c) \in a .. a + n - 1
  PROVE  IsFiniteSet(S) /\ Cardinality(S) <= n /\ Cardinality(S) \in Nat
<1> DEFINE f == [c \in S |-> Rank(c)]
           I == a .. a + n - 1
<1>1. IsFiniteSet(S) /\ Cardinality(S) \in Nat
  BY RankRises, FS_Subset, FS_CardinalityType
<1>2. f \in Injection(S, I)
  <2>1. \A c, d \in S : Rank(c) = Rank(d) => c = d
    BY RanksApart
  <2>2. f \in [S -> I] /\ \A c, d \in S : f[c] = f[d] => c = d
    BY <2>1
  <2> QED BY <2>2 DEF Injection, IsInjective
<1>3. IsFiniteSet(I) /\ Cardinality(I) = n
  BY FS_Interval
<1> HIDE DEF f, I
<1> QED BY <1>1, <1>2, <1>3, FS_Injection

\* A page that is not full leaves nobody behind it.
LEMMA LastPage ==
  ASSUME PagingTyped, Cardinality(Selected) < ListLimit, NEW c \in Remaining
  PROVE  Rank(c) < walk.offset + ListLimit
<1> DEFINE n == walk.offset + ListLimit
           T == {Rank(d) : d \in {e \in Remaining : Rank(e) >= n}}
<1>0. /\ walk.offset \in Nat /\ ListLimit \in Nat /\ n \in Nat
      /\ \A d \in Remaining : Rank(d) \in Nat /\ d \in Numbered
  BY KeyTyped, RankRises
<1> HIDE DEF n
<1> SUFFICES ASSUME ~(Rank(c) < n) PROVE FALSE
  BY DEF n
<1>1. T \in SUBSET Nat /\ T # {}
  BY <1>0
<1> HIDE DEF T
<1>2. PICK m \in T : \A t \in T : m <= t
  BY <1>1, LeastNumber
<1>3. PICK d \in Remaining : Rank(d) >= n /\ \A e \in Remaining : Rank(e) >= n => Rank(d) <= Rank(e)
  BY <1>2 DEF T
<1> DEFINE P == {e \in Remaining : Precedes(e, d)}
           Low == {e \in Remaining : Rank(e) \in 0 .. 0 + walk.offset - 1}
<1>4. \A e \in P : e \in Low \/ e \in Selected
  <2> SUFFICES ASSUME NEW e \in P, e \notin Low PROVE e \in Selected
    OBVIOUS
  <2>1. Rank(e) < Rank(d) /\ e \in Remaining
    BY RankRises
  <2>2. Rank(e) < n
    BY <1>0, <1>3, <2>1
  <2>3. Rank(e) >= walk.offset
    BY <1>0, <2>1
  <2> QED BY <1>0, <2>1, <2>2, <2>3 DEF Selected, n
<1>5. Low \in SUBSET Remaining /\ \A e \in Low : Rank(e) \in 0 .. 0 + walk.offset - 1
  OBVIOUS
<1>5a. Selected \in SUBSET Remaining /\ \A e \in Selected : Rank(e) \in walk.offset .. walk.offset + ListLimit - 1
  BY DEF Selected
<1>6. Rank(d) = Cardinality(P)
  BY DEF Rank
<1> HIDE DEF P, Low
<1>7. IsFiniteSet(Low) /\ Cardinality(Low) <= walk.offset /\ Cardinality(Low) \in Nat
  BY <1>0, <1>5, RanksFit
<1>8. IsFiniteSet(Selected) /\ Cardinality(Selected) \in Nat
  BY <1>0, <1>5a, RanksFit
<1>9. /\ IsFiniteSet(Low \cup Selected)
      /\ Cardinality(Low \cup Selected) = Cardinality(Low) + Cardinality(Selected) - Cardinality(Low \cap Selected)
      /\ Cardinality(Low \cap Selected) \in Nat
  <2>1. IsFiniteSet(Low \cap Selected)
    BY <1>7, FS_Subset
  <2> QED BY <1>7, <1>8, <2>1, FS_Union, FS_CardinalityType
<1>10. P \in SUBSET (Low \cup Selected)
  BY <1>4
<1>11. Cardinality(P) <= Cardinality(Low \cup Selected)
  BY <1>9, <1>10, FS_Subset
<1>12. Rank(d) < walk.offset + ListLimit
  BY <1>0, <1>6, <1>7, <1>8, <1>9, <1>11
<1> QED BY <1>0, <1>3, <1>12 DEF n

\* A full page has as many contacts as its limit, and a last one.
LEMMA FullPage ==
  ASSUME PagingTyped, ~(Cardinality(Selected) < ListLimit)
  PROVE  /\ Cardinality(Selected) = ListLimit
         /\ LastOf(Selected) \in Selected
         /\ \A d \in Selected : d = LastOf(Selected) \/ Precedes(d, LastOf(Selected))
<1> DEFINE top == walk.offset + ListLimit
           T == {top - Rank(d) : d \in Selected}
<1>0. /\ walk.offset \in Nat /\ ListLimit \in Nat /\ ListLimit >= 1 /\ top \in Nat
      /\ \A d \in Remaining : Rank(d) \in Nat /\ d \in Numbered
  BY KeyTyped, RankRises
<1>1. Selected \in SUBSET Remaining /\ \A e \in Selected : Rank(e) \in walk.offset .. walk.offset + ListLimit - 1
  BY DEF Selected
<1>2. IsFiniteSet(Selected) /\ Cardinality(Selected) <= ListLimit /\ Cardinality(Selected) \in Nat
  BY <1>0, <1>1, RanksFit
<1>3. Cardinality(Selected) = ListLimit
  BY <1>0, <1>2
<1>4. Selected # {}
  BY <1>0, <1>3, FS_EmptySet
<1>5. T \in SUBSET Nat /\ T # {}
  BY <1>0, <1>1, <1>4
<1> HIDE DEF T
<1>6. PICK m \in T : \A t \in T : m <= t
  BY <1>5, LeastNumber
<1>7. PICK c \in Selected : m = top - Rank(c)
  BY DEF T
<1>8. ASSUME NEW d \in Selected \ {c} PROVE Precedes(d, c)
  <2>1. top - Rank(c) <= top - Rank(d)
    BY <1>6, <1>7 DEF T
  <2>2. /\ d \in Numbered /\ c \in Numbered /\ d \in Remaining /\ c \in Remaining
        /\ Rank(d) \in Nat /\ Rank(c) \in Nat /\ Rank(d) <= Rank(c)
    BY <1>0, <1>1, <2>1
  <2> QED BY <2>2, PrecedesOrders, RankRises
<1>9. \E x \in Selected : \A d \in Selected \ {x} : Precedes(d, x)
  BY <1>8
<1>10. LastOf(Selected) \in Selected /\ \A d \in Selected \ {LastOf(Selected)} : Precedes(d, LastOf(Selected))
  BY <1>9 DEF LastOf
<1> QED BY <1>3, <1>10

\* Nobody reads or moves: what is between two pages stays as it is.
LEMMA KeptApart ==
  ASSUME PagingTyped, PagingPlaced, PagingTyped', walk.at = "page" \/ walk.at = "anchored",
         UNCHANGED <<walk, listed>>, \A c \in Numbered : standing[c] # "ABSENT" => standing'[c] # "ABSENT"
  PROVE  PagingPlaced' /\ PagingComplete'
<1>1. walk.cursor # 0 => walk.cursor \in Numbered
  BY KeyTyped
<1> QED BY <1>1 DEF PagingPlaced, PagingComplete

\* The keys of those who matched all along, and of the cursor's contact, stay.
LEMMA CursorStays ==
  ASSUME PagingInv, UNCHANGED <<walk, listed>>, steady' \subseteq steady, anchorMoved' = FALSE => anchorMoved = FALSE,
         \A c \in steady' : Key(c)' = Key(c),
         walk.at = "page" /\ walk.cursor # 0 /\ ~anchorMoved' => Key(walk.cursor)' = Key(walk.cursor)
  PROVE  CursorKept'
<1> SUFFICES ASSUME Underway', walk'.by = "cursor", ~anchorMoved', NEW c \in steady'
             PROVE  listed'[c] = IF Ahead(c)' THEN 0 ELSE 1
  BY DEF CursorKept
<1>1. listed[c] = IF Ahead(c) THEN 0 ELSE 1
  BY DEF PagingInv, PagingTyped, CursorKept, Underway
<1>2. Ahead(c)' <=> Ahead(c)
  BY DEF Ahead, CursorKey, Before, Beyond, Underway
<1> QED BY <1>1, <1>2

\* A reading by offset has no cursor: everybody who matches remains.
LEMMA OffsetStays ==
  ASSUME PagingInv, PagingTyped', UNCHANGED <<walk, listed>>, steady' \subseteq steady,
         joined' = FALSE => joined = FALSE, left' = FALSE => left = FALSE,
         ~left' => /\ Matching \subseteq Matching'
                   /\ \A c \in Matching : Key(c)' = Key(c),
         ~left' /\ ~joined' => Matching' = Matching
  PROVE  OffsetKept'
<1> SUFFICES ASSUME Underway', walk'.by = "offset", ~left', NEW c \in steady'
             PROVE  /\ listed'[c] = 0 => Rank(c)' >= walk'.offset
                    /\ ~joined' => listed'[c] = IF Rank(c)' < walk'.offset THEN 1 ELSE 0
  BY DEF OffsetKept
<1>1. /\ listed[c] = 0 => Rank(c) >= walk.offset
      /\ ~joined => listed[c] = IF Rank(c) < walk.offset THEN 1 ELSE 0
      /\ c \in steady /\ walk.cursor = 0 /\ ~left
  BY DEF PagingInv, PagingTyped, PagingPlaced, OffsetKept, Underway
<1>2. Remaining = Matching /\ Remaining' = Matching' /\ PagingTyped
  BY <1>1 DEF Remaining, PagingInv
<1>3. /\ c \in Remaining /\ Rank(c) \in Nat /\ IsFiniteSet(Remaining)
      /\ c \in Remaining' /\ Rank(c)' \in Nat /\ IsFiniteSet(Remaining') /\ walk.offset \in Nat
  <2>1. c \in Remaining /\ c \in Remaining'
    BY <1>1, <1>2 DEF PagingTyped
  <2>2. /\ IsFiniteSet(Remaining) /\ Rank(c) \in Nat
    BY <1>2, <2>1, RankRises
  <2>3. (PagingTyped => IsFiniteSet(Remaining) /\ \A d \in Remaining : Rank(d) \in Nat)'
    BY RanksTypedThen
  <2> QED BY <1>2, <2>1, <2>2, <2>3, KeyTyped
<1> DEFINE P == {d \in Remaining : Precedes(d, c)}
           Q == {d \in Remaining' : Precedes(d, c)'}
<1>4. \A d \in Remaining : Precedes(d, c)' <=> Precedes(d, c)
  BY <1>1, <1>2, <1>3 DEF Precedes, Beyond
<1>5. P \subseteq Q /\ (~joined' => P = Q)
  BY <1>2, <1>4
<1>6. IsFiniteSet(Q)
  BY <1>3, FS_Subset
<1>7. Rank(c) = Cardinality(P) /\ Rank(c)' = Cardinality(Q)
  BY DEF Rank
<1> HIDE DEF P, Q
<1>8. Rank(c) <= Rank(c)' /\ (~joined' => Rank(c) = Rank(c)')
  BY <1>3, <1>5, <1>6, <1>7, FS_Subset
<1> QED BY <1>1, <1>3, <1>8

LEMMA PagingStarts == PagingInit => PagingInv
<1> SUFFICES ASSUME PagingInit PROVE PagingInv
  OBVIOUS
<1>1. PagingTyped
  <2>1. /\ standing \in [Numbered -> {"ABSENT", "ACTIVE", "ARCHIVED"}]
        /\ listed \in [Numbered -> Nat] /\ steady \subseteq Matching
        /\ anchorMoved \in BOOLEAN /\ joined \in BOOLEAN /\ left \in BOOLEAN /\ instant \in Nat
    BY DEF PagingInit
  <2>2. createdAt \in [Numbered -> Nat]
    BY DEF PagingInit
  <2>3. lastSentAt \in [Numbered -> Nat]
    BY DEF PagingInit
  <2>4. walk \in WalkType
    BY PagingAssumption DEF PagingInit, WalkType, PagingAssumption
  <2> QED BY <2>1, <2>2, <2>3, <2>4 DEF PagingTyped
<1>2. PagingPlaced
  BY DEF PagingInit, PagingPlaced
<1>3. CursorKept /\ OffsetKept /\ PagingComplete
  BY DEF PagingInit, CursorKept, OffsetKept, Underway, PagingComplete
<1> QED BY <1>1, <1>2, <1>3 DEF PagingInv

LEMMA StartKeeps ==
  ASSUME PagingInv, NEW by \in {"cursor", "offset"}, NEW sort \in {"createdAt", "lastSentAt"},
         NEW order \in {"asc", "desc"}, StartWalk(by, sort, order)
  PROVE  PagingInv'
<1>1. /\ walk \in WalkType /\ walk.at = "none" /\ walk.cursor = 0 /\ walk.offset = 0
      /\ \A c \in Numbered : listed[c] = 0
  BY DEF PagingInv, PagingTyped, PagingPlaced, StartWalk
<1>2. /\ walk' \in WalkType /\ walk'.at = "page" /\ walk'.by = by
      /\ walk'.cursor = 0 /\ walk'.offset = 0
  BY <1>1 DEF StartWalk, WalkType
<1>3. /\ steady' = Matching /\ Matching' = Matching /\ Matching \subseteq Numbered
      /\ UNCHANGED <<standing, createdAt, lastSentAt, instant, listed, anchorMoved, joined, left>>
  BY DEF StartWalk, peopleVars, Matching
<1>4. PagingTyped'
  BY <1>2, <1>3 DEF PagingInv, PagingTyped
<1>5. PagingPlaced' /\ PagingComplete'
  BY <1>2 DEF PagingPlaced, PagingComplete
<1>6. CursorKept'
  BY <1>1, <1>2, <1>3 DEF CursorKept, Ahead
<1>7. OffsetKept'
  <2> SUFFICES ASSUME NEW c \in steady'
               PROVE  Rank(c)' >= 0 /\ ~(Rank(c)' < 0)
    BY <1>1, <1>2, <1>3 DEF OffsetKept
  <2>1. (PagingTyped => IsFiniteSet(Remaining) /\ \A d \in Remaining : Rank(d) \in Nat)'
    BY RanksTypedThen
  <2>2. c \in Remaining'
    BY <1>2, <1>3 DEF Remaining
  <2> QED BY <1>4, <2>1, <2>2
<1> QED BY <1>4, <1>5, <1>6, <1>7 DEF PagingInv

LEMMA ReadAnchorKeeps ==
  ASSUME PagingInv, ReadAnchor
  PROVE  PagingInv'
<1>1. /\ walk \in WalkType /\ walk.at = "page" /\ walk.cursor # 0 /\ walk.by = "cursor"
      /\ walk.cursor \in Numbered /\ Key(walk.cursor) \in Nat
  BY KeyTyped DEF PagingInv, PagingTyped, PagingPlaced, ReadAnchor, WalkType
<1>2. /\ walk' \in WalkType /\ walk'.at = "anchored" /\ walk'.value = Key(walk.cursor)
      /\ walk'.by = walk.by /\ walk'.sort = walk.sort /\ walk'.order = walk.order
      /\ walk'.cursor = walk.cursor /\ walk'.offset = walk.offset
  BY <1>1 DEF ReadAnchor, WalkType
<1>3. UNCHANGED <<standing, createdAt, lastSentAt, instant, listed, steady, anchorMoved, joined, left>>
  BY DEF ReadAnchor, peopleVars
<1>4. PagingTyped'
  BY <1>2, <1>3 DEF PagingInv, PagingTyped, Matching
<1>5. PagingPlaced' /\ PagingComplete' /\ OffsetKept'
  BY <1>1, <1>2, <1>3 DEF PagingInv, PagingPlaced, PagingComplete, OffsetKept
<1>6. CursorKept'
  <2> SUFFICES ASSUME ~anchorMoved', NEW c \in steady'
               PROVE  listed'[c] = IF Ahead(c)' THEN 0 ELSE 1
    BY DEF CursorKept
  <2>1. listed[c] = IF Ahead(c) THEN 0 ELSE 1
    BY <1>1, <1>3 DEF PagingInv, CursorKept, Underway
  <2>2. Key(c)' = Key(c)
    BY <1>2, <1>3 DEF Key
  <2>3. Ahead(c)' <=> Ahead(c)
    BY <1>1, <1>2, <2>2 DEF Ahead, CursorKey, Before, Beyond
  <2> QED BY <1>3, <2>1, <2>3
<1> QED BY <1>4, <1>5, <1>6 DEF PagingInv

\* The clauses of the query are the order.
LEMMA RemainingIsAhead ==
  ASSUME PagingTyped, PagingPlaced, walk.at = IF walk.cursor = 0 THEN "page" ELSE "anchored",
         NEW c \in Matching
  PROVE  c \in Remaining <=> Ahead(c)
BY KeyTyped DEF Remaining, Ahead, CursorKey, PastCursor, Before, Beyond

LEMMA ReadPageKeeps ==
  ASSUME PagingInv, ReadPage
  PROVE  PagingInv'
<1> DEFINE m == LastOf(Selected)
           full == ~(Cardinality(Selected) < ListLimit)
<1>0. /\ PagingTyped /\ PagingPlaced /\ walk \in WalkType
      /\ walk.at = IF walk.cursor = 0 THEN "page" ELSE "anchored"
      /\ Underway /\ walk.offset \in Nat /\ ListLimit \in Nat /\ ListLimit >= 1
      /\ steady \subseteq Matching /\ Matching \subseteq Numbered /\ Remaining \subseteq Matching
      /\ walk.by \in {"cursor", "offset"}
  BY KeyTyped DEF PagingInv, ReadPage, PagingTyped, Underway, WalkType
<1>1. /\ Selected \subseteq Remaining
      /\ \A c \in Remaining : c \in Selected <=> Rank(c) \in walk.offset .. walk.offset + ListLimit - 1
  BY DEF Selected
<1>2. full => /\ Cardinality(Selected) = ListLimit /\ m \in Selected
              /\ \A d \in Selected : d = m \/ Precedes(d, m)
  BY <1>0, FullPage
<1>3. ~full => \A c \in Remaining : Rank(c) < walk.offset + ListLimit
  BY <1>0, LastPage
<1>4. /\ \A c \in Numbered : listed'[c] = IF c \in Selected THEN listed[c] + 1 ELSE listed[c]
      /\ listed' \in [Numbered -> Nat]
      /\ UNCHANGED <<standing, createdAt, lastSentAt, instant, steady, anchorMoved, joined, left>>
  BY <1>0 DEF ReadPage, peopleVars, PagingTyped
<1>5. /\ walk' \in WalkType /\ walk'.by = walk.by /\ walk'.sort = walk.sort /\ walk'.order = walk.order
      /\ ~full => walk'.at = "done" /\ walk'.cursor = walk.cursor /\ walk'.offset = walk.offset
      /\ full /\ walk.by = "cursor" => walk'.at = "page" /\ walk'.cursor = m /\ walk'.offset = walk.offset
      /\ full /\ walk.by = "offset" => /\ walk'.at = "page" /\ walk'.cursor = walk.cursor
                                       /\ walk'.offset = walk.offset + ListLimit
  <2>1. CASE ~full
    BY <1>0, <2>1 DEF ReadPage, WalkType
  <2>2. CASE full /\ walk.by = "cursor"
    <3>1. m \in 0 .. ContactCount /\ walk' = [walk EXCEPT !.at = "page", !.cursor = m]
      BY <1>0, <1>1, <1>2, <2>2 DEF ReadPage, Numbered
    <3> HIDE DEF m
    <3> QED BY <1>0, <2>2, <3>1 DEF WalkType
  <2>3. CASE full /\ walk.by = "offset"
    <3>1. walk' = [walk EXCEPT !.at = "page", !.offset = @ + ListLimit] /\ walk.offset + ListLimit \in Nat
      BY <1>0, <1>2, <2>3 DEF ReadPage
    <3> QED BY <1>0, <2>3, <3>1 DEF WalkType
  <2> QED BY <1>0, <2>1, <2>2, <2>3
<1> HIDE DEF m, full
<1>6. PagingTyped'
  BY <1>0, <1>4, <1>5 DEF PagingTyped, Matching
<1>7. \A c \in Numbered : Key(c)' = Key(c)
  BY <1>4, <1>5 DEF Key
<1>8. PagingPlaced'
  <2>1. m \in Selected => standing[m] = "ACTIVE" /\ m # 0
    BY <1>0, <1>1 DEF Matching, Numbered
  <2>2. walk'.at \in {"page", "done"}
    BY <1>0, <1>5
  <2> QED BY <1>0, <1>2, <1>4, <1>5, <2>1, <2>2 DEF PagingPlaced
<1>9. ASSUME walk.by = "cursor", ~anchorMoved, NEW c \in steady
      PROVE  /\ listed[c] = IF c \in Remaining THEN 0 ELSE 1
             /\ ~full => listed'[c] = 1
             /\ full => listed'[c] = IF Precedes(m, c) THEN 0 ELSE 1
  <2>0. c \in Matching /\ c \in Numbered /\ walk.offset = 0
    BY <1>0, <1>9 DEF PagingPlaced
  <2>1. listed[c] = IF c \in Remaining THEN 0 ELSE 1
    BY <1>0, <1>9, <2>0, RemainingIsAhead DEF PagingInv, CursorKept
  <2>2. \A d \in Remaining : Rank(d) \in Nat /\ d \in Numbered /\ (d \in Selected <=> Rank(d) < ListLimit)
    BY <1>0, <1>1, <2>0, RankRises
  <2>3. ASSUME ~full PROVE listed'[c] = 1
    BY <1>0, <1>1, <1>3, <1>4, <2>0, <2>1, <2>2, <2>3
  <2>4. ASSUME full PROVE listed'[c] = IF Precedes(m, c) THEN 0 ELSE 1
    <3>0. m \in Selected /\ m \in Remaining /\ m \in Numbered
      BY <1>1, <1>2, <2>2, <2>4
    <3>1. CASE c \in Selected
      <4>1. c = m \/ Precedes(c, m)
        BY <1>2, <2>4, <3>1
      <4>2. ~Precedes(m, c)
        BY <1>0, <2>0, <3>0, <4>1, PrecedesOrders
      <4>3. c \in Remaining /\ listed[c] = 0
        BY <1>1, <2>1, <3>1
      <4>4. listed'[c] = 0 + 1
        BY <1>4, <2>0, <3>1, <4>3
      <4> QED BY <4>2, <4>4
    <3>2. CASE c \in Remaining /\ c \notin Selected
      <4>0. /\ Rank(c) \in Nat /\ ~(Rank(c) < ListLimit)
            /\ Rank(m) \in Nat /\ Rank(m) < ListLimit /\ c # m
        BY <2>2, <3>0, <3>2
      <4>1. ~(Rank(c) < Rank(m)) /\ c # m
        BY <1>0, <4>0
      <4>2. Precedes(m, c)
        BY <1>0, <2>0, <3>0, <3>2, <4>1, PrecedesOrders, RankRises
      <4> QED BY <1>4, <2>0, <2>1, <3>2, <4>2
    <3>3. CASE c \notin Remaining
      <4>1. walk.cursor \in Nat /\ CursorKey \in Nat /\ walk.cursor # 0
        BY <1>0, <2>0, <3>3, RemainingIsAhead, KeyTyped DEF Ahead, CursorKey
      <4>2. /\ Before(CursorKey, walk.cursor, Key(m), m)
            /\ ~Before(CursorKey, walk.cursor, Key(c), c)
        BY <1>0, <2>0, <3>0, <3>3, <4>1, RemainingIsAhead DEF Ahead
      <4>3. Key(m) \in Nat /\ m \in Nat /\ Key(c) \in Nat /\ c \in Nat
        BY <1>0, <2>0, <3>0, KeyTyped
      <4>4. ~Before(Key(m), m, Key(c), c)
        BY <4>1, <4>2, <4>3, BeforeOrders, SMTT(30)
      <4>5. ~Precedes(m, c)
        BY <1>0, <2>0, <3>0, <4>4, PrecedesOrders
      <4> QED BY <1>1, <1>4, <2>0, <2>1, <3>3, <4>5
    <3> QED BY <3>1, <3>2, <3>3
  <2> QED BY <2>1, <2>3, <2>4
<1>10. CursorKept'
  <2> SUFFICES ASSUME Underway', walk'.by = "cursor", ~anchorMoved', NEW c \in steady'
               PROVE  listed'[c] = IF Ahead(c)' THEN 0 ELSE 1
    BY DEF CursorKept
  <2>0. full /\ walk.by = "cursor"
    BY <1>5 DEF Underway
  <2>1. /\ full /\ walk.by = "cursor" /\ ~anchorMoved /\ c \in steady /\ c \in Numbered
        /\ walk'.cursor = m /\ walk'.at = "page" /\ m \in Numbered /\ m # 0
    <3>1. ~anchorMoved /\ c \in steady /\ c \in Numbered
      BY <1>0, <1>4
    <3>2. walk'.cursor = m /\ walk'.at = "page"
      BY <1>5, <2>0
    <3>3. m \in Numbered
      BY <1>0, <1>1, <1>2, <2>0
    <3> QED BY <2>0, <3>1, <3>2, <3>3, KeyTyped, <1>0
  <2>2. listed'[c] = IF Precedes(m, c) THEN 0 ELSE 1
    BY <1>9, <2>1
  <2>3. Precedes(m, c) <=> Before(Key(m), m, Key(c), c)
    BY <1>0, <2>1, PrecedesOrders
  <2>4. CursorKey' = Key(m)
    BY <1>4, <1>5, <2>1 DEF CursorKey, Key
  <2>5. Ahead(c)' <=> Before(Key(m), m, Key(c), c)
    BY <1>5, <1>7, <2>1, <2>4 DEF Ahead, Before, Beyond
  <2> QED BY <2>2, <2>3, <2>5
<1>11. ASSUME walk.by = "offset", ~left, NEW c \in steady
       PROVE  /\ Rank(c)' = Rank(c) /\ Rank(c) \in Nat
              /\ ~full => listed'[c] >= 1 /\ (~joined => listed'[c] = 1)
              /\ full => /\ listed'[c] = 0 => Rank(c) >= walk.offset + ListLimit
                         /\ ~joined => listed'[c] = IF Rank(c) < walk.offset + ListLimit THEN 1 ELSE 0
  <2>0. c \in Matching /\ c \in Numbered /\ walk.cursor = 0 /\ walk'.cursor = 0
    BY <1>0, <1>5, <1>11 DEF PagingPlaced
  <2>1. /\ listed[c] = 0 => Rank(c) >= walk.offset
        /\ ~joined => listed[c] = IF Rank(c) < walk.offset THEN 1 ELSE 0
    BY <1>0, <1>11 DEF PagingInv, OffsetKept
  <2>2. /\ c \in Remaining /\ Rank(c) \in Nat /\ listed[c] \in Nat
        /\ listed'[c] = IF c \in Selected THEN listed[c] + 1 ELSE listed[c]
        /\ c \in Selected <=> (Rank(c) >= walk.offset /\ Rank(c) < walk.offset + ListLimit)
    <3>1. c \in Remaining
      BY <2>0 DEF Remaining
    <3>2. Rank(c) \in Nat
      BY <1>0, <3>1, RankRises
    <3>3. listed[c] \in Nat
      BY <1>0, <2>0 DEF PagingTyped
    <3> QED BY <1>0, <1>1, <1>4, <2>0, <3>1, <3>2, <3>3
  <2>3. Rank(c)' = Rank(c)
    <3>1. Remaining' = Remaining
      BY <1>4, <2>0 DEF Remaining, Matching
    <3>2. \A d \in Remaining : Precedes(d, c)' <=> Precedes(d, c)
      BY <1>0, <1>5, <1>7, <2>0 DEF Precedes, Beyond
    <3>3. {d \in Remaining' : Precedes(d, c)'} = {d \in Remaining : Precedes(d, c)}
      BY <3>1, <3>2
    <3> QED BY <3>3 DEF Rank
  <2>4. ~full => Rank(c) < walk.offset + ListLimit
    BY <1>3, <2>2
  <2> QED BY <1>0, <2>1, <2>2, <2>3, <2>4
<1>12. OffsetKept'
  <2> SUFFICES ASSUME Underway', walk'.by = "offset", ~left', NEW c \in steady'
               PROVE  /\ listed'[c] = 0 => Rank(c)' >= walk'.offset
                      /\ ~joined' => listed'[c] = IF Rank(c)' < walk'.offset THEN 1 ELSE 0
    BY DEF OffsetKept
  <2>1. full /\ walk.by = "offset" /\ ~left /\ c \in steady /\ walk'.offset = walk.offset + ListLimit
    BY <1>4, <1>5 DEF Underway
  <2> QED BY <1>4, <1>11, <2>1
<1>13. PagingComplete'
  <2> SUFFICES ASSUME walk'.at = "done", NEW c \in steady'
               PROVE  /\ walk'.by = "cursor" /\ ~anchorMoved' => listed'[c] = 1
                      /\ walk'.by = "offset" /\ ~left' => listed'[c] >= 1
                      /\ walk'.by = "offset" /\ ~left' /\ ~joined' => listed'[c] = 1
    BY DEF PagingComplete
  <2>1. ~full /\ c \in steady /\ walk'.by = walk.by
    BY <1>0, <1>4, <1>5
  <2> QED BY <1>4, <1>9, <1>11, <2>1
<1> QED BY <1>6, <1>8, <1>10, <1>12, <1>13 DEF PagingInv

LEMMA CreateKeeps ==
  ASSUME PagingInv, NEW x \in Numbered, CreateContact(x)
  PROVE  PagingInv'
<1>1. /\ PagingTyped /\ PagingPlaced /\ (walk.at = "page" \/ walk.at = "anchored") /\ standing[x] = "ABSENT"
      /\ instant \in Nat /\ instant' = instant + 1 /\ joined' = TRUE
      /\ UNCHANGED <<lastSentAt, walk, listed, steady, anchorMoved, left>>
  BY DEF PagingInv, PagingTyped, CreateContact, Meanwhile
<1>2. /\ standing' \in [Numbered -> {"ABSENT", "ACTIVE", "ARCHIVED"}] /\ createdAt' \in [Numbered -> Nat]
      /\ \A c \in Numbered : c # x => standing'[c] = standing[c] /\ createdAt'[c] = createdAt[c]
      /\ standing'[x] = "ACTIVE"
  BY <1>1 DEF PagingTyped, CreateContact
<1>3. Matching \subseteq Matching' /\ x \notin Matching
  BY <1>1, <1>2 DEF Matching
<1>4. PagingTyped'
  BY <1>1, <1>2, <1>3 DEF PagingTyped
<1>5. \A c \in Numbered : c # x => Key(c)' = Key(c)
  BY <1>1, <1>2 DEF Key
<1>6. walk.cursor # 0 => walk.cursor \in Numbered /\ walk.cursor # x
  BY <1>1, KeyTyped DEF PagingPlaced
<1>7. steady \subseteq Matching /\ Matching \subseteq Numbered
  BY <1>1, KeyTyped
<1>8. PagingPlaced' /\ PagingComplete'
  BY <1>1, <1>2, <1>4, KeptApart
<1>9. CursorKept'
  BY <1>1, <1>3, <1>5, <1>6, <1>7, CursorStays
<1>10. OffsetKept'
  BY <1>1, <1>3, <1>4, <1>5, <1>7, OffsetStays
<1> QED BY <1>4, <1>8, <1>9, <1>10 DEF PagingInv

LEMMA SetStatusKeeps ==
  ASSUME PagingInv, NEW S \in SUBSET Numbered, NEW status \in {"ACTIVE", "ARCHIVED"}, SetStatus(S, status)
  PROVE  PagingInv'
<1>1. /\ PagingTyped /\ PagingPlaced /\ (walk.at = "page" \/ walk.at = "anchored")
      /\ instant \in Nat /\ instant' = instant + 1 /\ steady' = steady \ S
      /\ joined' \in BOOLEAN /\ left' \in BOOLEAN
      /\ joined' = FALSE => joined = FALSE /\ status # "ACTIVE"
      /\ left' = FALSE => left = FALSE /\ status = "ACTIVE"
      /\ UNCHANGED <<createdAt, lastSentAt, walk, listed, anchorMoved>>
  BY DEF PagingInv, PagingTyped, SetStatus, Meanwhile
<1>2. /\ standing' \in [Numbered -> {"ABSENT", "ACTIVE", "ARCHIVED"}]
      /\ \A c \in Numbered : standing'[c] = IF c \in S THEN status ELSE standing[c]
      /\ \A c \in S : standing[c] # "ABSENT"
  BY <1>1 DEF PagingTyped, SetStatus
<1>3. steady' \subseteq Matching' /\ (status = "ACTIVE" => Matching \subseteq Matching')
  BY <1>1, <1>2 DEF PagingTyped, Matching
<1>4. PagingTyped'
  BY <1>1, <1>2, <1>3 DEF PagingTyped
<1>5. \A c \in Numbered : Key(c)' = Key(c)
  BY <1>1 DEF Key
<1>6. walk.cursor # 0 => walk.cursor \in Numbered
  BY <1>1, KeyTyped
<1>7. steady \subseteq Matching /\ Matching \subseteq Numbered
  BY <1>1, KeyTyped
<1>8. PagingPlaced' /\ PagingComplete'
  BY <1>1, <1>2, <1>4, KeptApart
<1>9. CursorKept'
  BY <1>1, <1>5, <1>6, <1>7, CursorStays
<1>10. OffsetKept'
  BY <1>1, <1>3, <1>4, <1>5, <1>7, OffsetStays
<1> QED BY <1>4, <1>8, <1>9, <1>10 DEF PagingInv

LEMMA MailedKeeps ==
  ASSUME PagingInv, NEW S \in SUBSET Numbered, Mailed(S)
  PROVE  PagingInv'
<1> DEFINE moves == walk.sort = "lastSentAt"
<1>1. /\ PagingTyped /\ PagingPlaced /\ (walk.at = "page" \/ walk.at = "anchored")
      /\ instant \in Nat /\ instant' = instant + 1
      /\ UNCHANGED <<standing, createdAt, walk, listed>>
  BY DEF PagingInv, PagingTyped, Mailed, Meanwhile
<1>2. /\ steady' = IF moves THEN steady \ S ELSE steady
      /\ anchorMoved' \in BOOLEAN /\ joined' \in BOOLEAN /\ left' \in BOOLEAN
      /\ anchorMoved' = FALSE => anchorMoved = FALSE /\ (moves /\ walk.at = "page" => walk.cursor \notin S)
      /\ joined' = FALSE => joined = FALSE /\ ~moves
      /\ left' = FALSE => left = FALSE /\ ~moves
  BY <1>1 DEF Mailed, PagingTyped
<1>3. /\ lastSentAt' \in [Numbered -> Nat]
      /\ \A c \in Numbered : c \notin S => lastSentAt'[c] = lastSentAt[c]
  BY <1>1 DEF PagingTyped, Mailed
<1>4. Matching' = Matching
  BY <1>1 DEF Matching
<1>5. PagingTyped'
  BY <1>1, <1>2, <1>3, <1>4 DEF PagingTyped
<1>6. \A c \in Numbered : ~moves \/ c \notin S => Key(c)' = Key(c)
  <2> SUFFICES ASSUME NEW c \in Numbered, ~moves \/ c \notin S PROVE Key(c)' = Key(c)
    OBVIOUS
  <2>1. CASE walk.sort = "createdAt"
    BY <1>1, <2>1 DEF Key
  <2>2. CASE walk.sort # "createdAt" /\ moves
    BY <1>1, <1>3, <2>2 DEF Key
  <2>3. walk.sort \in {"createdAt", "lastSentAt"}
    BY <1>1 DEF PagingTyped, WalkType
  <2> QED BY <2>1, <2>2, <2>3
<1>7. walk.cursor # 0 => walk.cursor \in Numbered
  BY <1>1, KeyTyped
<1>8. steady \subseteq Matching /\ Matching \subseteq Numbered
  BY <1>1, KeyTyped
<1> HIDE DEF moves
<1>9. PagingPlaced' /\ PagingComplete'
  BY <1>1, <1>5, KeptApart
<1>10. CursorKept'
  BY <1>1, <1>2, <1>6, <1>7, <1>8, CursorStays
<1>11. OffsetKept'
  BY <1>1, <1>2, <1>4, <1>5, <1>6, <1>8, OffsetStays
<1> QED BY <1>5, <1>9, <1>10, <1>11 DEF PagingInv

LEMMA PagingStep == PagingInv /\ [PagingNext]_pagingVars => PagingInv'
<1> SUFFICES ASSUME PagingInv, [PagingNext]_pagingVars PROVE PagingInv'
  OBVIOUS
<1>1. CASE UNCHANGED pagingVars
  <2>1. /\ UNCHANGED <<standing, createdAt, lastSentAt, instant, walk, listed, steady, anchorMoved, joined, left>>
        /\ PagingTyped /\ PagingPlaced /\ CursorKept /\ OffsetKept /\ PagingComplete
    BY <1>1 DEF pagingVars, peopleVars, PagingInv
  <2>2. PagingTyped' /\ PagingPlaced' /\ PagingComplete'
    BY <2>1 DEF PagingTyped, PagingPlaced, PagingComplete, Matching
  <2>3. steady \subseteq Numbered /\ \A c : Key(c)' = Key(c)
    BY <2>1, KeyTyped DEF Key
  <2>4. CursorKept'
    BY <2>1, <2>3, CursorStays
  <2>5. Matching' = Matching
    BY <2>1 DEF Matching
  <2>6. OffsetKept'
    BY <2>1, <2>2, <2>3, <2>5, OffsetStays
  <2> QED BY <2>2, <2>4, <2>6 DEF PagingInv
<1> QED BY <1>1, StartKeeps, ReadAnchorKeeps, ReadPageKeeps, CreateKeeps, SetStatusKeeps, MailedKeeps
        DEF PagingNext

\* Reading page by page passes over nobody who was there all the time: for
\* any number of contacts, any size of a page, any direction and key with
\* its ties and nulls, and whatever happens to the contacts in between.
THEOREM NobodyPassedOver == PagingSpec => []PagingComplete
<1>1. PagingInv => PagingComplete
  BY DEF PagingInv
<1> QED BY <1>1, PagingStarts, PagingStep, PTL DEF PagingSpec

-----------------------------------------------------------------------------
(* ContactPaging: how often a contact is read.  A page reads whoever is not *)
(* yet behind it, and puts them behind it; only a change of somebody's      *)
(* contact can take them before it again.                                   *)

NotPassed(c) == IF walk.by = "cursor" THEN Ahead(c) ELSE c \in Remaining /\ Rank(c) >= walk.offset

Dated ==
  /\ instant \in 2 .. MaxContactChanges + 2
  /\ \A c \in Numbered : /\ createdAt[c] <= instant /\ lastSentAt[c] <= instant
                         /\ (createdAt[c] = 0) <=> (standing[c] = "ABSENT")
InSight == walk.value <= instant /\ walk.offset <= ContactCount
ReadSeldom ==
  /\ \A c \in Numbered : listed[c] <= instant - 1
  /\ Underway => \A c \in Numbered : NotPassed(c) => listed[c] <= instant - 2
PagingBounds == Dated /\ InSight /\ ReadSeldom

\* A full page leaves as many contacts behind it as its offset says.
LEMMA OffsetFits ==
  ASSUME PagingTyped, ~(Cardinality(Selected) < ListLimit)
  PROVE  walk.offset + ListLimit <= ContactCount
<1> DEFINE m == LastOf(Selected)
           P == {d \in Remaining : Precedes(d, m)}
<1>0. /\ walk.offset \in Nat /\ ListLimit \in Nat /\ ListLimit >= 1 /\ ContactCount \in Nat
      /\ \A d \in Remaining : Rank(d) \in Nat /\ d \in Numbered
      /\ IsFiniteSet(Remaining) /\ Remaining \subseteq Numbered
  BY KeyTyped, RankRises
<1>1. /\ Cardinality(Selected) = ListLimit /\ m \in Selected
      /\ \A d \in Selected : d = m \/ Precedes(d, m)
  BY FullPage
<1>2. /\ Selected \in SUBSET Remaining
      /\ \A d \in Selected : Rank(d) \in walk.offset .. walk.offset + ListLimit - 1
  BY DEF Selected
<1>3. \A d \in Selected : d = m \/ Rank(d) < Rank(m)
  BY <1>1, <1>2, RankRises
<1>4. Rank(m) = Cardinality(P)
  BY DEF Rank
<1> HIDE DEF m, P
<1>5. Rank(m) >= walk.offset + ListLimit - 1
  <2> SUFFICES ASSUME Rank(m) < walk.offset + ListLimit - 1 PROVE FALSE
    BY <1>0, <1>1, <1>2
  <2>1. ListLimit - 1 \in Nat /\ Rank(m) \in Nat
    BY <1>0, <1>1, <1>2
  <2>2. \A d \in Selected : Rank(d) \in walk.offset .. walk.offset + (ListLimit - 1) - 1
    BY <1>0, <1>2, <1>3, <2>1
  <2>3. Cardinality(Selected) <= ListLimit - 1
    BY <1>0, <1>2, <2>1, <2>2, RanksFit
  <2> QED BY <1>0, <1>1, <2>3
<1>6. m \in Remaining /\ m \in Numbered /\ m \notin P /\ P \cup {m} \subseteq Numbered
  <2>1. m \in Remaining /\ m \in Numbered
    BY <1>0, <1>1, <1>2
  <2>2. ~Precedes(m, m)
    BY <2>1, PrecedesOrders
  <2>3. m \notin P /\ P \subseteq Numbered
    BY <1>0, <2>2 DEF P
  <2> QED BY <2>1, <2>3
<1>7. IsFiniteSet(Numbered) /\ Cardinality(Numbered) = ContactCount
  <2> PICK n : n = ContactCount
    OBVIOUS
  <2>0. n \in Nat
    BY <1>0
  <2>1. IsFiniteSet(1 .. n) /\ Cardinality(1 .. n) = IF 1 > n THEN 0 ELSE n - 1 + 1
    BY <2>0, FS_Interval
  <2>2. Cardinality(1 .. n) = n
    BY <2>0, <2>1
  <2> QED BY <2>1, <2>2 DEF Numbered
<1>8. IsFiniteSet(P) /\ Cardinality(P \cup {m}) = Cardinality(P) + 1 /\ Cardinality(P) \in Nat
  <2>1. IsFiniteSet(P)
    BY <1>0, FS_Subset DEF P
  <2> QED BY <1>6, <2>1, FS_AddElement, FS_CardinalityType
<1>9. Cardinality(P \cup {m}) <= Cardinality(Numbered)
  BY <1>6, <1>7, FS_Subset
<1> QED BY <1>0, <1>4, <1>5, <1>7, <1>8, <1>9

\* Whom a full page has read is behind it; nobody else comes before it.
LEMMA PagePasses ==
  ASSUME PagingTyped, PagingPlaced, ReadPage, walk'.at # "done", NEW c \in Numbered
  PROVE  NotPassed(c)' => NotPassed(c) /\ c \notin Selected
<1>0. /\ walk \in WalkType /\ walk.at = IF walk.cursor = 0 THEN "page" ELSE "anchored"
      /\ Remaining \subseteq Matching /\ Matching \subseteq Numbered
      /\ walk.offset \in Nat /\ ListLimit \in Nat /\ walk.cursor \in Nat /\ walk.value \in Nat
      /\ \A d \in Numbered : Key(d) \in Nat /\ d \in Nat /\ d # 0
      /\ UNCHANGED <<standing, createdAt, lastSentAt>>
      /\ \A d \in Selected : Rank(d) < walk.offset + ListLimit
  <2>1. walk \in WalkType /\ UNCHANGED <<standing, createdAt, lastSentAt>>
        /\ walk.at = IF walk.cursor = 0 THEN "page" ELSE "anchored"
    BY DEF PagingTyped, ReadPage, peopleVars
  <2>2. \A d \in Selected : d \in Remaining /\ Rank(d) \in walk.offset .. walk.offset + ListLimit - 1
    BY DEF Selected
  <2> QED BY <2>1, <2>2, KeyTyped, RankRises
<1>1. ~(Cardinality(Selected) < ListLimit)
  BY <1>0 DEF ReadPage, WalkType
<1>2. PICK m : /\ m = LastOf(Selected)
               /\ Cardinality(Selected) = ListLimit /\ m \in Selected /\ m \in Remaining
               /\ \A d \in Selected : d = m \/ Precedes(d, m)
  <2>1. \E m : m = LastOf(Selected)
    OBVIOUS
  <2> QED BY <1>1, <2>1, FullPage DEF Selected
<1>3. CASE walk.by = "cursor"
  <2>1. /\ walk'.by = "cursor" /\ walk'.at = "page" /\ walk'.cursor = m
        /\ walk'.sort = walk.sort /\ walk'.order = walk.order
    BY <1>0, <1>1, <1>2, <1>3 DEF ReadPage, WalkType
  <2>2. m \in Numbered /\ m # 0 /\ Key(m)' = Key(m) /\ Key(c)' = Key(c)
    BY <1>0, <1>2, <2>1 DEF Key
  <2>3. Ahead(c)' => Before(Key(m), m, Key(c), c)
    BY <2>1, <2>2 DEF Ahead, CursorKey, Before, Beyond
  <2>4. Precedes(m, c) => c \notin Selected
    BY <1>2, <2>2, PrecedesOrders
  <2>5. Ahead(m)
    BY <1>0, <1>2, RemainingIsAhead
  <2>6. CursorKey \in Nat \/ walk.cursor = 0
    <3>1. walk.cursor # 0 => walk.cursor \in Numbered
      BY KeyTyped
    <3> QED BY <1>0, <3>1 DEF CursorKey
  <2>7. Before(Key(m), m, Key(c), c) => Ahead(c)
    BY <1>0, <2>2, <2>5, <2>6, BeforeOrders, SMTT(30) DEF Ahead
  <2>8. Before(Key(m), m, Key(c), c) => Precedes(m, c)
    BY <2>2, PrecedesOrders
  <2> QED BY <1>3, <2>1, <2>3, <2>4, <2>7, <2>8 DEF NotPassed
<1>4. CASE walk.by # "cursor"
  <2>1. walk.by = "offset" /\ walk.cursor = 0
    BY <1>0, <1>4 DEF WalkType, PagingPlaced
  <2>2. /\ walk'.by = "offset" /\ walk'.cursor = 0 /\ walk'.offset = walk.offset + ListLimit
        /\ walk'.sort = walk.sort /\ walk'.order = walk.order
    BY <1>0, <1>1, <1>2, <2>1 DEF ReadPage, WalkType
  <2>3. Remaining' = Remaining
    BY <1>0, <2>1, <2>2 DEF Remaining, Matching
  <2>4. Rank(c)' = Rank(c)
    BY <1>0, <2>2, <2>3 DEF Rank, Precedes, Key, Beyond
  <2>5. c \in Remaining => Rank(c) \in Nat
    BY RankRises
  <2> QED BY <1>0, <2>1, <2>2, <2>3, <2>4, <2>5 DEF NotPassed
<1> QED BY <1>3, <1>4

\* Who is read was not behind the page.
LEMMA SelectedAhead ==
  ASSUME PagingTyped, PagingPlaced, ReadPage, NEW c \in Selected
  PROVE  NotPassed(c)
<1>1. c \in Remaining /\ c \in Matching /\ walk.offset \in Nat
      /\ Rank(c) \in walk.offset .. walk.offset + ListLimit - 1
  BY KeyTyped DEF Selected
<1>2. walk.at = IF walk.cursor = 0 THEN "page" ELSE "anchored"
  BY DEF ReadPage
<1>3. Ahead(c)
  BY <1>1, <1>2, RemainingIsAhead
<1> QED BY <1>1, <1>3 DEF NotPassed

LEMMA ReadPageBounded ==
  ASSUME PagingInv, PagingBounds, ReadPage
  PROVE  PagingBounds'
<1>1. /\ PagingTyped /\ PagingPlaced /\ walk \in WalkType /\ instant \in Nat /\ instant >= 2
      /\ listed \in [Numbered -> Nat] /\ Underway
      /\ UNCHANGED <<standing, createdAt, lastSentAt, instant>>
      /\ \A c \in Numbered : listed'[c] = IF c \in Selected THEN listed[c] + 1 ELSE listed[c]
  BY DEF PagingInv, PagingTyped, PagingBounds, Dated, ReadPage, peopleVars, Underway, WalkType
<1>2. Dated'
  BY <1>1 DEF PagingBounds, Dated
<1>3. InSight'
  <2>1. /\ walk'.value = walk.value
        /\ walk'.offset = walk.offset \/ (walk'.offset = walk.offset + ListLimit
                                          /\ ~(Cardinality(Selected) < ListLimit))
    BY <1>1, FullPage DEF ReadPage, WalkType
  <2> QED BY <1>1, <2>1, OffsetFits DEF PagingBounds, InSight
<1>4. \A c \in Numbered : listed'[c] <= instant' - 1
  BY <1>1, SelectedAhead DEF PagingBounds, ReadSeldom
<1>5. ASSUME Underway', NEW c \in Numbered, NotPassed(c)' PROVE listed'[c] <= instant' - 2
  <2>1. NotPassed(c) /\ c \notin Selected
    BY <1>1, <1>5, PagePasses DEF Underway
  <2> QED BY <1>1, <2>1 DEF PagingBounds, ReadSeldom
<1> QED BY <1>2, <1>3, <1>4, <1>5 DEF PagingBounds, ReadSeldom

\* A change raises the clock and with it what may have been read.
LEMMA ChangeBounded ==
  ASSUME PagingTyped, PagingBounds, Meanwhile, UNCHANGED <<walk, listed>>, Dated'
  PROVE  PagingBounds'
<1>1. instant \in Nat /\ instant' = instant + 1 /\ listed \in [Numbered -> Nat] /\ walk.value \in Nat
  BY DEF PagingTyped, Meanwhile, WalkType
<1>2. InSight'
  BY <1>1 DEF PagingBounds, InSight
<1>3. ReadSeldom'
  BY <1>1 DEF PagingBounds, ReadSeldom
<1> QED BY <1>2, <1>3 DEF PagingBounds

LEMMA ChangesBounded ==
  ASSUME PagingInv, PagingBounds,
         \/ \E c \in Numbered : CreateContact(c)
         \/ \E S \in SUBSET Numbered, status \in {"ACTIVE", "ARCHIVED"} : SetStatus(S, status)
         \/ \E S \in SUBSET Numbered : Mailed(S)
  PROVE  PagingBounds'
<1>1. /\ PagingTyped /\ Meanwhile /\ UNCHANGED <<walk, listed>>
  BY DEF PagingInv, CreateContact, SetStatus, Mailed
<1>2. /\ instant \in 2 .. MaxContactChanges + 2 /\ instant' = instant + 1
      /\ instant' \in 2 .. MaxContactChanges + 2 /\ instant' # 0 /\ instant \in Nat
  BY <1>1, PagingAssumption DEF PagingBounds, Dated, Meanwhile, PagingAssumption
<1>3. /\ standing \in [Numbered -> {"ABSENT", "ACTIVE", "ARCHIVED"}]
      /\ createdAt \in [Numbered -> Nat] /\ lastSentAt \in [Numbered -> Nat]
      /\ \A c \in Numbered : /\ createdAt[c] <= instant /\ lastSentAt[c] <= instant
                             /\ (createdAt[c] = 0) <=> (standing[c] = "ABSENT")
  BY <1>1 DEF PagingTyped, PagingBounds, Dated
<1>4. ASSUME NEW c \in Numbered, CreateContact(c) PROVE Dated'
  BY <1>2, <1>3, <1>4 DEF CreateContact, Dated
<1>5. ASSUME NEW S \in SUBSET Numbered, NEW status \in {"ACTIVE", "ARCHIVED"}, SetStatus(S, status) PROVE Dated'
  BY <1>2, <1>3, <1>5 DEF SetStatus, Dated
<1>6. ASSUME NEW S \in SUBSET Numbered, Mailed(S) PROVE Dated'
  BY <1>2, <1>3, <1>6 DEF Mailed, Dated
<1> QED BY <1>1, <1>4, <1>5, <1>6, ChangeBounded

LEMMA StartBounded ==
  ASSUME PagingInv, PagingBounds,
         \E by \in {"cursor", "offset"}, sort \in {"createdAt", "lastSentAt"}, order \in {"asc", "desc"} :
           StartWalk(by, sort, order)
  PROVE  PagingBounds'
<1>1. /\ walk \in WalkType /\ UNCHANGED <<standing, createdAt, lastSentAt, instant, listed>>
      /\ walk'.value = walk.value /\ walk'.offset = walk.offset
      /\ \A c \in Numbered : listed[c] = 0
      /\ instant \in Nat /\ instant >= 2
  BY DEF PagingInv, PagingTyped, PagingPlaced, StartWalk, WalkType, peopleVars, PagingBounds, Dated
<1> QED BY <1>1 DEF PagingBounds, Dated, InSight, ReadSeldom

LEMMA AnchorBounded ==
  ASSUME PagingInv, PagingBounds, ReadAnchor
  PROVE  PagingBounds'
<1>1. /\ walk \in WalkType /\ UNCHANGED <<standing, createdAt, lastSentAt, instant, listed>>
      /\ walk.at = "page" /\ walk.cursor # 0 /\ walk.cursor \in Numbered /\ walk.by = "cursor"
      /\ walk' = [walk EXCEPT !.at = "anchored", !.value = Key(walk.cursor)]
  BY KeyTyped DEF PagingInv, PagingTyped, PagingPlaced, ReadAnchor, peopleVars, WalkType
<1>2. /\ walk'.at = "anchored" /\ walk'.cursor = walk.cursor /\ walk'.by = walk.by /\ walk'.sort = walk.sort
      /\ walk'.order = walk.order /\ walk'.offset = walk.offset /\ walk'.value = Key(walk.cursor)
  BY <1>1 DEF WalkType
<1>3. Dated'
  BY <1>1 DEF PagingBounds, Dated
<1>4. InSight'
  BY <1>1, <1>2 DEF PagingBounds, InSight, Dated, Key
<1>5. \A c \in Numbered : NotPassed(c)' <=> NotPassed(c)
  <2>1. \A c \in Numbered : Key(c)' = Key(c)
    BY <1>1, <1>2 DEF Key
  <2> QED BY <1>1, <1>2, <2>1 DEF NotPassed, Ahead, CursorKey, Before, Beyond
<1>6. ReadSeldom'
  BY <1>1, <1>2, <1>5 DEF PagingBounds, ReadSeldom, Underway
<1> QED BY <1>3, <1>4, <1>6 DEF PagingBounds

LEMMA PagingBoundsStep == PagingInv /\ PagingBounds /\ [PagingNext]_pagingVars => PagingBounds'
<1> SUFFICES ASSUME PagingInv, PagingBounds, [PagingNext]_pagingVars PROVE PagingBounds'
  OBVIOUS
<1>1. CASE UNCHANGED pagingVars
  BY <1>1 DEF pagingVars, peopleVars, PagingBounds, Dated, InSight, ReadSeldom, Underway, NotPassed, Ahead,
       CursorKey, Key, Remaining, Matching, PastCursor, Rank, Precedes, Before, Beyond
<1> QED BY <1>1, StartBounded, AnchorBounded, ReadPageBounded, ChangesBounded DEF PagingNext

LEMMA PagingBoundsStart == PagingInit => PagingBounds
<1> SUFFICES ASSUME PagingInit PROVE PagingBounds
  OBVIOUS
<1>1. /\ createdAt \in [Numbered -> 0 .. 2] /\ lastSentAt \in [Numbered -> {0, 2}] /\ instant = 2
      /\ \A c \in Numbered : (createdAt[c] = 0) = (standing[c] = "ABSENT")
      /\ walk.value = 0 /\ walk.offset = 0 /\ \A c \in Numbered : listed[c] = 0
  BY DEF PagingInit
<1>2. MaxContactChanges \in Nat /\ ContactCount \in Nat
  BY PagingAssumption DEF PagingAssumption
<1>3. Dated
  <2>1. \A c \in Numbered : createdAt[c] \in 0 .. 2 /\ lastSentAt[c] \in {0, 2}
    BY <1>1
  <2> QED BY <1>1, <1>2, <2>1 DEF Dated
<1> QED BY <1>1, <1>2, <1>3 DEF PagingBounds, InSight, ReadSeldom

\* A reading by pages returns a contact once, and once more only for a
\* change that was made meanwhile; an offset never runs past the contacts
\* there are, and no key is later than the clock.
THEOREM PagingTypeCorrect == PagingSpec => []PagingTypeOK
<1>1. PagingInv /\ PagingBounds => PagingTypeOK
  <2> SUFFICES ASSUME PagingInv, PagingBounds PROVE PagingTypeOK
    OBVIOUS
  <2>0. MaxContactChanges \in Nat /\ ContactCount \in Nat
    BY PagingAssumption DEF PagingAssumption
  <2>1. PagingTyped /\ instant \in 2 .. MaxContactChanges + 2 /\ {0} \cup Instants = 0 .. MaxContactChanges + 2
    BY <2>0 DEF PagingInv, PagingBounds, Dated, Instants
  <2>2. createdAt \in [Numbered -> {0} \cup Instants] /\ lastSentAt \in [Numbered -> {0} \cup Instants]
    BY <2>0, <2>1 DEF PagingTyped, PagingBounds, Dated
  <2>3. walk \in Walks
    BY <2>0, <2>1 DEF PagingTyped, PagingBounds, InSight, Walks, WalkType
  <2>4. listed \in [Numbered -> 0 .. 1 + MaxContactChanges]
    BY <2>0, <2>1 DEF PagingTyped, PagingBounds, ReadSeldom
  <2>5. \A c \in Numbered : (createdAt[c] = 0) = (standing[c] = "ABSENT")
    BY DEF PagingBounds, Dated
  <2>6. steady \subseteq Numbered
    BY <2>1 DEF PagingTyped, Matching
  <2> QED BY <2>0, <2>1, <2>2, <2>3, <2>4, <2>5, <2>6 DEF PagingTyped, PagingTypeOK, Instants
<1> QED BY <1>1, PagingBoundsStart, PagingBoundsStep, PagingStarts, PagingStep, PTL DEF PagingSpec

-----------------------------------------------------------------------------
(* ManualReview: what each batch's recipients and released quota add to the *)
(* row of its day, and why no resolution finds less reserved there than it  *)
(* takes away.                                                              *)

BatchType ==
  [status : {"ABSENT", "SUBMITTING", "TEMPORARY_FAILED", "MANUAL_REVIEW", "ACCEPTED", "PARTIAL",
             "PERMANENT_FAILED", "PREPARING"},
   day : Days, released : Nat, reviews : 0 .. MaxResolutions]
DayType == [row : BOOLEAN, reserved : Nat, accepted : Nat, released : Nat]
Unsettled == {"SENDING", "TEMPORARY_FAILED", "MANUAL_REVIEW"}

\* The recipients of some batches that are in one of some states, and the
\* quota that was released of those in review.
InStates(held, m, B, states) == {r \in Members : held[r] \in B /\ m[r] \in states}
Slots(bt, B) == UNION {{b} \X (1 .. bt[b].released) : b \in {x \in B : bt[x].status = "MANUAL_REVIEW"}}
Own(bt, b) == IF bt[b].status = "MANUAL_REVIEW" THEN bt[b].released ELSE 0

\* A batch that was never in review has released nothing and its recipients
\* move together; one in review has released no more than it still holds.
BatchOK(b) ==
  /\ batch[b].status \in {"ABSENT", "SUBMITTING", "TEMPORARY_FAILED"} => batch[b].released = 0
  /\ batch[b].status \in {"ABSENT", "PREPARING"} => Of(b) = {}
  /\ batch[b].status = "SUBMITTING" => \A r \in Of(b) : member[r] = "SENDING"
  /\ batch[b].status = "TEMPORARY_FAILED" => \A r \in Of(b) : member[r] = "TEMPORARY_FAILED"
  /\ batch[b].status = "MANUAL_REVIEW" =>
       /\ \A r \in Of(b) : member[r] \in {"MANUAL_REVIEW", "ACCEPTED"}
       /\ batch[b].released <= Cardinality(InReview(b))
  /\ batch[b].status \in {"ACCEPTED", "PARTIAL", "PERMANENT_FAILED"} =>
       \A r \in Of(b) : member[r] \in {"ACCEPTED", "PERMANENT_FAILED"}
  /\ batch[b].status # "ABSENT" => ledger[batch[b].day].row = TRUE
BatchesOK == \A b \in ReviewBatches : BatchOK(b)
RowsThere == \A d \in Days : ledger[d].row = FALSE => ledger[d].reserved = 0 /\ ledger[d].accepted = 0
Balanced(d) ==
  /\ ledger[d].reserved = Cardinality(InStates(holder, member, OnDay(d), Unsettled)) - Cardinality(Slots(batch, OnDay(d)))
                          + stranded[d]
  /\ ledger[d].accepted = Cardinality(InStates(holder, member, OnDay(d), {"ACCEPTED"}))
Reconciled == BatchesOK /\ RowsThere /\ \A d \in Days : Balanced(d)
ReviewInv == ReviewTypeOK /\ (~tainted => Reconciled)

LEMMA StatesSize ==
  ASSUME NEW held, NEW m, NEW B, NEW states
  PROVE  /\ IsFiniteSet(InStates(held, m, B, states)) /\ Cardinality(InStates(held, m, B, states)) \in Nat
         /\ \A b : b \notin B =>
              Cardinality(InStates(held, m, B \cup {b}, states))
                = Cardinality(InStates(held, m, B, states)) + Cardinality(InStates(held, m, {b}, states))
<1>0. IsFiniteSet(Members)
  BY ReviewAssumption DEF ReviewAssumption
<1>1. \A C : IsFiniteSet(InStates(held, m, C, states)) /\ Cardinality(InStates(held, m, C, states)) \in Nat
  <2> SUFFICES ASSUME NEW C PROVE IsFiniteSet(InStates(held, m, C, states)) /\ Cardinality(InStates(held, m, C, states)) \in Nat
    OBVIOUS
  <2>1. InStates(held, m, C, states) \in SUBSET Members
    BY DEF InStates
  <2> QED BY <1>0, <2>1, FS_Subset, FS_CardinalityType
<1>2. ASSUME NEW b, b \notin B
      PROVE  Cardinality(InStates(held, m, B \cup {b}, states))
               = Cardinality(InStates(held, m, B, states)) + Cardinality(InStates(held, m, {b}, states))
  <2> DEFINE S == InStates(held, m, B, states)
             T == InStates(held, m, {b}, states)
  <2>1. InStates(held, m, B \cup {b}, states) = S \cup T /\ S \cap T = {}
    BY <1>2 DEF InStates
  <2>2. IsFiniteSet(S) /\ IsFiniteSet(T) /\ Cardinality(S) \in Nat /\ Cardinality(T) \in Nat
    BY <1>1
  <2> HIDE DEF S, T
  <2>3. Cardinality(S \cup T) = Cardinality(S) + Cardinality(T) - Cardinality(S \cap T)
    BY <2>2, FS_Union
  <2>4. Cardinality(S \cap T) = 0
    BY <2>1, FS_EmptySet
  <2>5. Cardinality(S \cup T) = Cardinality(S) + Cardinality(T)
    BY <2>2, <2>3, <2>4
  <2>6. Cardinality(InStates(held, m, B \cup {b}, states)) = Cardinality(S) + Cardinality(T)
    BY <2>1, <2>5
  <2> QED BY <2>6 DEF S, T
<1> QED BY <1>1, <1>2

\* Released quota is that of recipients who are still in review.
LEMMA SlotsBacked ==
  ASSUME NEW held, NEW m, NEW bt, NEW B,
         \A b \in B : bt[b].released \in Nat /\ (bt[b].status = "MANUAL_REVIEW" =>
                        bt[b].released <= Cardinality(InStates(held, m, {b}, {"MANUAL_REVIEW"})))
  PROVE  /\ IsFiniteSet(Slots(bt, B)) /\ Cardinality(Slots(bt, B)) \in Nat
         /\ Cardinality(Slots(bt, B)) <= Cardinality(InStates(held, m, B, Unsettled))
<1> DEFINE H(b) == InStates(held, m, {b}, {"MANUAL_REVIEW"})
           J(b) == Injection(1 .. bt[b].released, H(b))
           C == {x \in B : bt[x].status = "MANUAL_REVIEW"}
           g == [b \in C |-> CHOOSE f : f \in J(b)]
           h == [p \in Slots(bt, B) |-> g[p[1]][p[2]]]
<1>1. \A b \in C : g[b] \in J(b)
  <2> SUFFICES ASSUME NEW b \in C PROVE \E f : f \in J(b)
    OBVIOUS
  <2>1. /\ IsFiniteSet(H(b)) /\ Cardinality(H(b)) \in Nat /\ bt[b].released \in Nat
        /\ bt[b].released <= Cardinality(H(b))
    BY StatesSize
  <2> DEFINE n == Cardinality(H(b))
             k == bt[b].released
  <2>2. \E f : f \in Bijection(1 .. n, H(b))
    BY <2>1, FS_CardinalityType DEF ExistsBijection
  <2> HIDE DEF n, H
  <2>3. PICK f : f \in Bijection(1 .. n, H(b))
    BY <2>2
  <2>4. f \in [1 .. n -> H(b)] /\ \A i, j \in 1 .. n : f[i] = f[j] => i = j
    BY <2>3 DEF Bijection, Injection, IsInjective
  <2>5. k \in Nat /\ n \in Nat /\ k <= n
    BY <2>1 DEF n
  <2>6. \A i \in 1 .. k : i \in 1 .. n
    BY <2>5
  <2> DEFINE e == [i \in 1 .. k |-> f[i]]
  <2>7. e \in [1 .. k -> H(b)] /\ \A i, j \in 1 .. k : e[i] = e[j] => i = j
    BY <2>4, <2>6
  <2> HIDE DEF e
  <2>8. e \in J(b)
    BY <2>7 DEF Injection, IsInjective
  <2> QED BY <2>8
<1>2. \A p \in Slots(bt, B) : /\ p[1] \in C /\ p[2] \in 1 .. bt[p[1]].released
                              /\ p = <<p[1], p[2]>>
  BY DEF Slots
<1> HIDE DEF g
<1>3. \A p \in Slots(bt, B) : h[p] \in H(p[1])
  <2> SUFFICES ASSUME NEW p \in Slots(bt, B) PROVE g[p[1]][p[2]] \in H(p[1])
    OBVIOUS
  <2>1. g[p[1]] \in [1 .. bt[p[1]].released -> H(p[1])]
    BY <1>1, <1>2 DEF Injection
  <2> QED BY <1>2, <2>1
<1>4. \A p, q \in Slots(bt, B) : h[p] = h[q] => p = q
  <2> SUFFICES ASSUME NEW p \in Slots(bt, B), NEW q \in Slots(bt, B), h[p] = h[q] PROVE p = q
    OBVIOUS
  <2>1. held[h[p]] = p[1] /\ held[h[q]] = q[1]
    BY <1>3 DEF InStates
  <2>2. p[1] = q[1] /\ g[p[1]][p[2]] = g[p[1]][q[2]]
    BY <2>1
  <2>3. \A i, j \in 1 .. bt[p[1]].released : g[p[1]][i] = g[p[1]][j] => i = j
    BY <1>1, <1>2 DEF Injection, IsInjective
  <2>4. p[2] = q[2]
    BY <1>2, <2>2, <2>3
  <2> QED BY <1>2, <2>2, <2>4
<1> DEFINE S == Slots(bt, B)
           T == InStates(held, m, B, Unsettled)
<1>5. \A p \in S : h[p] \in T
  BY <1>2, <1>3 DEF InStates, Unsettled
<1>6. h \in [S -> T] /\ \A p, q \in S : h[p] = h[q] => p = q
  BY <1>4, <1>5
<1>7. IsFiniteSet(T) /\ Cardinality(T) \in Nat
  BY StatesSize
<1> HIDE DEF h, S, T
<1>8. h \in Injection(S, T)
  BY <1>6 DEF Injection, IsInjective
<1>9. IsFiniteSet(S) /\ Cardinality(S) <= Cardinality(T)
  BY <1>7, <1>8, FS_Injection
<1> QED BY <1>9, FS_CardinalityType DEF S, T

LEMMA SlotsSplit ==
  ASSUME NEW bt, NEW B, NEW b, b \notin B, bt[b].released \in Nat, IsFiniteSet(Slots(bt, B))
  PROVE  Cardinality(Slots(bt, B \cup {b})) = Cardinality(Slots(bt, B)) + Own(bt, b)
<1> DEFINE n == bt[b].released
           S == Slots(bt, B)
           T == {b} \X (1 .. n)
<1>1. CASE bt[b].status # "MANUAL_REVIEW"
  <2>1. Slots(bt, B \cup {b}) = S
    BY <1>1 DEF Slots
  <2>2. Cardinality(S) \in Nat
    BY FS_CardinalityType
  <2> HIDE DEF S
  <2> QED BY <1>1, <2>1, <2>2 DEF Own, S
<1>2. CASE bt[b].status = "MANUAL_REVIEW"
  <2>1. Slots(bt, B \cup {b}) = S \cup T /\ S \cap T = {}
    <3>1. \A p : p \in Slots(bt, B \cup {b}) <=> p \in S \/ p \in T
      BY <1>2 DEF Slots
    <3>2. \A p : p \in S => p[1] \in B
      BY DEF Slots
    <3>3. \A p : p \in T => p[1] = b
      OBVIOUS
    <3> HIDE DEF S, T
    <3> QED BY <3>1, <3>2, <3>3
  <2>2. IsFiniteSet(T) /\ Cardinality(T) = n
    <3> DEFINE f == [i \in 1 .. n |-> <<b, i>>]
    <3>1. f \in [1 .. n -> T] /\ (\A i, j \in 1 .. n : f[i] = f[j] => i = j) /\ \A p \in T : \E i \in 1 .. n : f[i] = p
      OBVIOUS
    <3>2. f \in Bijection(1 .. n, T)
      <4> HIDE DEF f, T
      <4> QED BY <3>1 DEF Bijection, Injection, Surjection, IsInjective
    <3>3. ExistsBijection(1 .. n, T)
      BY <3>2 DEF ExistsBijection
    <3> HIDE DEF f, T
    <3> QED BY <3>3, FS_CountingElements, FS_NatBijection
  <2>3. Cardinality(S) \in Nat
    BY FS_CardinalityType
  <2> HIDE DEF S, T
  <2>4. Cardinality(S \cup T) = Cardinality(S) + Cardinality(T) - Cardinality(S \cap T)
    BY <2>2, FS_Union DEF S
  <2>5. Cardinality(S \cap T) = 0
    BY <2>1, FS_EmptySet
  <2>6. Cardinality(S \cup T) = Cardinality(S) + n
    BY <2>2, <2>3, <2>4, <2>5
  <2>7. Cardinality(Slots(bt, B \cup {b})) = Cardinality(S) + n
    BY <2>1, <2>6
  <2>8. n = Own(bt, b)
    BY <1>2 DEF Own
  <2> QED BY <2>7, <2>8 DEF S
<1> QED BY <1>1, <1>2

\* A row of the day holds at least what the batch's recipients, less what
\* was released of them, take from it.
LEMMA EnoughReserved ==
  ASSUME ReviewTypeOK, Reconciled, NEW b \in ReviewBatches, batch[b].status # "ABSENT"
  PROVE  /\ ledger[batch[b].day].row = TRUE
         /\ Cardinality(InStates(holder, member, {b}, Unsettled)) \in Nat /\ Own(batch, b) \in Nat
         /\ ledger[batch[b].day].reserved >= Cardinality(InStates(holder, member, {b}, Unsettled)) - Own(batch, b)
<1> DEFINE d == batch[b].day
           B == OnDay(d) \ {b}
<1>1. /\ b \in OnDay(d) /\ B \cup {b} = OnDay(d) /\ b \notin B /\ d \in Days /\ B \subseteq ReviewBatches
      /\ batch[b].released \in Nat /\ Own(batch, b) \in Nat /\ \A x \in ReviewBatches : batch[x].released \in Nat
  BY DEF OnDay, ReviewTypeOK, Own
<1>2. \A x \in ReviewBatches : batch[x].status = "MANUAL_REVIEW" =>
         batch[x].released <= Cardinality(InStates(holder, member, {x}, {"MANUAL_REVIEW"}))
  <2>1. \A x \in ReviewBatches : InReview(x) = InStates(holder, member, {x}, {"MANUAL_REVIEW"})
    BY DEF InReview, OfIn, Of, InStates
  <2> QED BY <2>1 DEF Reconciled, BatchesOK, BatchOK
<1> HIDE DEF B
<1>3. /\ IsFiniteSet(Slots(batch, B)) /\ Cardinality(Slots(batch, B)) \in Nat
      /\ Cardinality(Slots(batch, B)) <= Cardinality(InStates(holder, member, B, Unsettled))
  BY <1>1, <1>2, SlotsBacked
<1>4. Cardinality(Slots(batch, B \cup {b})) = Cardinality(Slots(batch, B)) + Own(batch, b)
  BY <1>1, <1>3, SlotsSplit
<1>5. /\ Cardinality(InStates(holder, member, B, Unsettled)) \in Nat
      /\ Cardinality(InStates(holder, member, {b}, Unsettled)) \in Nat
      /\ Cardinality(InStates(holder, member, B \cup {b}, Unsettled))
           = Cardinality(InStates(holder, member, B, Unsettled)) + Cardinality(InStates(holder, member, {b}, Unsettled))
  BY <1>1, StatesSize
<1>6. /\ ledger[d].reserved = Cardinality(InStates(holder, member, B \cup {b}, Unsettled)) - Cardinality(Slots(batch, B \cup {b}))
                            + stranded[d]
      /\ ledger[d].row = TRUE
  BY <1>1 DEF Reconciled, Balanced, BatchesOK, BatchOK
<1>7. stranded[d] \in Nat
  BY <1>1 DEF ReviewTypeOK
<1> QED BY <1>1, <1>3, <1>4, <1>5, <1>6, <1>7

\* A step on one batch keeps the balance if it gives the row of its day the
\* difference it makes to its recipients and its released quota.
LEMMA BalanceKept ==
  ASSUME ReviewTypeOK, ReviewTypeOK', BatchesOK, BatchesOK', NEW b \in ReviewBatches, NEW D \in Days,
         \A x \in ReviewBatches : x # b => batch'[x] = batch[x],
         \A r \in Members : r \notin Of(b) => member'[r] = member[r],
         batch'[b].status # "ABSENT", batch'[b].day = D, batch[b].status # "ABSENT", batch[b].day = D,
         holder' = holder, stranded' = stranded,
         \A d \in Days : Balanced(d),
         \A d \in Days : d # D => ledger'[d].reserved = ledger[d].reserved /\ ledger'[d].accepted = ledger[d].accepted,
         NEW p \in Nat, NEW q \in Nat, NEW a \in Nat, NEW c \in Nat,
         Cardinality(InStates(holder, member, {b}, Unsettled)) = p, Cardinality(InStates(holder, member', {b}, Unsettled)) = q,
         Cardinality(InStates(holder, member, {b}, {"ACCEPTED"})) = a, Cardinality(InStates(holder, member', {b}, {"ACCEPTED"})) = c,
         ledger'[D].reserved = ledger[D].reserved + (q - Own(batch', b)) - (p - Own(batch, b)),
         ledger'[D].accepted = ledger[D].accepted + c - a
  PROVE  \A d \in Days : Balanced(d)'
<1>1. /\ \A x \in ReviewBatches : batch[x].released \in Nat /\ batch'[x].released \in Nat
      /\ \A d \in Days : ledger[d].reserved \in Nat /\ ledger[d].accepted \in Nat
      /\ Own(batch, b) \in Nat /\ Own(batch', b) \in Nat
  BY DEF ReviewTypeOK, Own
<1>2. /\ \A x \in ReviewBatches : batch[x].status = "MANUAL_REVIEW" =>
           batch[x].released <= Cardinality(InStates(holder, member, {x}, {"MANUAL_REVIEW"}))
      /\ \A x \in ReviewBatches : batch'[x].status = "MANUAL_REVIEW" =>
           batch'[x].released <= Cardinality(InStates(holder, member', {x}, {"MANUAL_REVIEW"}))
  <2>1. /\ \A x \in ReviewBatches : InReview(x) = InStates(holder, member, {x}, {"MANUAL_REVIEW"})
        /\ \A x \in ReviewBatches : InReview(x)' = InStates(holder, member', {x}, {"MANUAL_REVIEW"})
    BY DEF InReview, OfIn, Of, InStates
  <2> QED BY <2>1 DEF BatchesOK, BatchOK
<1>3. ASSUME NEW B \in SUBSET ReviewBatches, b \notin B, NEW states
      PROVE  /\ InStates(holder, member', B, states) = InStates(holder, member, B, states)
             /\ Slots(batch', B) = Slots(batch, B)
  <2>1. \A r \in Members : holder[r] \in B => r \notin Of(b)
    BY <1>3 DEF Of
  <2>2. \A x \in B : batch'[x] = batch[x]
    BY <1>3
  <2>3. {x \in B : batch'[x].status = "MANUAL_REVIEW"} = {x \in B : batch[x].status = "MANUAL_REVIEW"}
    BY <2>2
  <2>4. Slots(batch', B) = Slots(batch, B)
    BY <2>2, <2>3 DEF Slots
  <2>5. InStates(holder, member', B, states) = InStates(holder, member, B, states)
    BY <2>1 DEF InStates
  <2> QED BY <2>4, <2>5
<1> SUFFICES ASSUME NEW d \in Days PROVE Balanced(d)'
  OBVIOUS
<1>4. CASE d # D
  <2>1. OnDay(d)' = OnDay(d) /\ b \notin OnDay(d) /\ OnDay(d) \in SUBSET ReviewBatches
    BY <1>4 DEF OnDay
  <2>2. /\ InStates(holder, member', OnDay(d), Unsettled) = InStates(holder, member, OnDay(d), Unsettled)
        /\ InStates(holder, member', OnDay(d), {"ACCEPTED"}) = InStates(holder, member, OnDay(d), {"ACCEPTED"})
        /\ Slots(batch', OnDay(d)) = Slots(batch, OnDay(d))
    BY <1>3, <2>1
  <2>3. Balanced(d) /\ ledger'[d].reserved = ledger[d].reserved /\ ledger'[d].accepted = ledger[d].accepted
    BY <1>4
  <2> QED BY <2>1, <2>2, <2>3 DEF Balanced
<1>5. CASE d = D
  <2> DEFINE B == OnDay(D) \ {b}
             P(m) == Cardinality(InStates(holder, m, B, Unsettled))
             A(m) == Cardinality(InStates(holder, m, B, {"ACCEPTED"}))
             R(t) == Cardinality(Slots(t, B))
  <2>1. /\ B \in SUBSET ReviewBatches /\ b \notin B /\ OnDay(D)' = B \cup {b}
        /\ OnDay(D) = B \cup {b}
    BY DEF OnDay
  <2>2. P(member') = P(member) /\ A(member') = A(member) /\ R(batch') = R(batch)
    BY <1>3, <2>1
  <2>3. P(member) \in Nat /\ A(member) \in Nat /\ R(batch) \in Nat /\ IsFiniteSet(Slots(batch, B))
    BY <1>1, <1>2, <2>1, StatesSize, SlotsBacked
  <2>4. IsFiniteSet(Slots(batch', B))
    BY <1>3, <2>1, <2>3
  <2> HIDE DEF B
  <2>5. /\ Cardinality(InStates(holder, member, B \cup {b}, Unsettled)) = P(member) + p
        /\ Cardinality(InStates(holder, member', B \cup {b}, Unsettled)) = P(member') + q
        /\ Cardinality(InStates(holder, member, B \cup {b}, {"ACCEPTED"})) = A(member) + a
        /\ Cardinality(InStates(holder, member', B \cup {b}, {"ACCEPTED"})) = A(member') + c
    BY <2>1, StatesSize
  <2>6. /\ Cardinality(Slots(batch, B \cup {b})) = R(batch) + Own(batch, b)
        /\ Cardinality(Slots(batch', B \cup {b})) = R(batch') + Own(batch', b)
    BY <1>1, <2>1, <2>3, <2>4, SlotsSplit
  <2>8. /\ ledger[D].reserved = Cardinality(InStates(holder, member, B \cup {b}, Unsettled))
                               - Cardinality(Slots(batch, B \cup {b})) + stranded[D]
        /\ ledger[D].accepted = Cardinality(InStates(holder, member, B \cup {b}, {"ACCEPTED"}))
        /\ stranded[D] \in Nat
    BY <2>1 DEF Balanced, ReviewTypeOK
  <2>9. /\ ledger[D].reserved = (P(member) + p) - (R(batch) + Own(batch, b)) + stranded[D]
        /\ ledger[D].accepted = A(member) + a
    BY <2>5, <2>6, <2>8
  <2> HIDE DEF P, A, R
  <2>10. /\ ledger'[D].reserved = (P(member') + q) - (R(batch') + Own(batch', b)) + stranded[D]
         /\ ledger'[D].accepted = A(member') + c
    BY <1>1, <2>2, <2>3, <2>8, <2>9
  <2>11. /\ ledger'[D].reserved = Cardinality(InStates(holder', member', OnDay(D)', Unsettled))
                                 - Cardinality(Slots(batch', OnDay(D)')) + stranded'[D]
         /\ ledger'[D].accepted = Cardinality(InStates(holder', member', OnDay(D)', {"ACCEPTED"}))
    BY <2>1, <2>5, <2>6, <2>10
  <2> QED BY <1>5, <2>11 DEF Balanced
<1> QED BY <1>4, <1>5

\* A step on one batch, and the row of its day, reconciles if that batch
\* does.
LEMMA StepOnBatch ==
  ASSUME ReviewTypeOK, ReviewTypeOK', Reconciled, NEW b \in ReviewBatches, NEW D \in Days, BatchOK(b)',
         \A x \in ReviewBatches : x # b => batch'[x] = batch[x],
         \A r \in Members : r \notin Of(b) => member'[r] = member[r],
         batch'[b].status # "ABSENT", batch'[b].day = D, batch[b].status # "ABSENT", batch[b].day = D,
         holder' = holder, stranded' = stranded,
         ledger'[D].row = TRUE, \A d \in Days : d # D => ledger'[d] = ledger[d],
         NEW p \in Nat, NEW q \in Nat, NEW a \in Nat, NEW c \in Nat,
         Cardinality(InStates(holder, member, {b}, Unsettled)) = p, Cardinality(InStates(holder, member', {b}, Unsettled)) = q,
         Cardinality(InStates(holder, member, {b}, {"ACCEPTED"})) = a, Cardinality(InStates(holder, member', {b}, {"ACCEPTED"})) = c,
         ledger'[D].reserved = ledger[D].reserved + (q - Own(batch', b)) - (p - Own(batch, b)),
         ledger'[D].accepted = ledger[D].accepted + c - a
  PROVE  Reconciled'
<1>1. BatchesOK'
  <2> SUFFICES ASSUME NEW x \in ReviewBatches, x # b PROVE BatchOK(x)'
    BY DEF BatchesOK
  <2>1. /\ BatchOK(x) /\ batch'[x] = batch[x] /\ Of(x)' = Of(x) /\ \A r \in Of(x) : member'[r] = member[r]
        /\ batch[x].day \in Days
    BY DEF Reconciled, BatchesOK, Of, ReviewTypeOK
  <2>2. InReview(x)' = InReview(x)
    BY <2>1 DEF InReview, OfIn
  <2>3. ledger[batch[x].day].row = TRUE => ledger'[batch[x].day].row = TRUE
    BY <2>1
  <2> QED BY <2>1, <2>2, <2>3 DEF BatchOK
<1>2. RowsThere'
  BY DEF Reconciled, RowsThere
<1>3. \A d \in Days : Balanced(d)'
  <2>1. BatchesOK /\ \A d \in Days : Balanced(d)
    BY DEF Reconciled
  <2>2. \A d \in Days : d # D => ledger'[d].reserved = ledger[d].reserved /\ ledger'[d].accepted = ledger[d].accepted
    OBVIOUS
  <2> QED BY <1>1, <2>1, <2>2, BalanceKept, ZenonT(60)
<1> QED BY <1>1, <1>2, <1>3 DEF Reconciled

\* How a batch, its recipients and its day are written.
LEMMA TurnWrites ==
  ASSUME ReviewTypeOK, NEW S \in SUBSET Members,
         NEW state \in {"PENDING", "SENDING", "TEMPORARY_FAILED", "MANUAL_REVIEW", "ACCEPTED", "PERMANENT_FAILED"},
         Turn(S, state)
  PROVE  /\ member' \in [Members -> {"PENDING", "SENDING", "TEMPORARY_FAILED", "MANUAL_REVIEW", "ACCEPTED",
                                     "PERMANENT_FAILED"}]
         /\ \A r \in Members : member'[r] = IF r \in S THEN state ELSE member[r]
BY DEF Turn, ReviewTypeOK

LEMMA BatchWrites ==
  ASSUME ReviewTypeOK, NEW b \in ReviewBatches,
         NEW status \in {"ABSENT", "SUBMITTING", "TEMPORARY_FAILED", "MANUAL_REVIEW", "ACCEPTED", "PARTIAL",
                         "PERMANENT_FAILED", "PREPARING"},
         NEW net \in Int, batch[b].released + net \in Nat,
         \/ BatchTurns(b, status) /\ net = 0
         \/ Resolves(b, status, net) /\ batch[b].reviews < MaxResolutions
  PROVE  /\ batch' \in [ReviewBatches -> BatchType]
         /\ \A x \in ReviewBatches : x # b => batch'[x] = batch[x]
         /\ batch'[b].status = status /\ batch'[b].day = batch[b].day
         /\ batch'[b].released = batch[b].released + net
<1>1. batch \in [ReviewBatches -> BatchType] /\ MaxResolutions \in Nat
  BY ReviewAssumption DEF ReviewTypeOK, BatchType, ReviewAssumption
<1>2. batch[b] \in BatchType
  BY <1>1
<1>3. CASE BatchTurns(b, status) /\ net = 0
  <2>1. /\ batch' = [batch EXCEPT ![b] = [batch[b] EXCEPT !.status = status]]
        /\ [batch[b] EXCEPT !.status = status] \in BatchType
    BY <1>1, <1>2, <1>3 DEF BatchTurns, BatchType
  <2> QED BY <1>1, <1>2, <1>3, <2>1 DEF BatchType
<1>4. CASE Resolves(b, status, net) /\ batch[b].reviews < MaxResolutions
  <2> DEFINE y == [batch[b] EXCEPT !.status = status, !.released = @ + net, !.reviews = @ + 1]
  <2>1. batch' = [batch EXCEPT ![b] = y]
    BY <1>1, <1>4 DEF Resolves
  <2>2. batch[b].released + net \in Nat /\ batch[b].reviews + 1 \in 0 .. MaxResolutions
    BY <1>1, <1>2, <1>4 DEF BatchType
  <2>3. y \in BatchType
    BY <1>2, <2>2 DEF BatchType
  <2>4. y.status = status /\ y.day = batch[b].day /\ y.released = batch[b].released + net
    BY <1>2 DEF BatchType
  <2> HIDE DEF y
  <2> QED BY <1>1, <2>1, <2>3, <2>4
<1> QED BY <1>3, <1>4

\* A reservation takes its recipients out of the batches that held them, all
\* of them refused, and leaves what was reserved for them on their days.
LEMMA ReserveMoves ==
  ASSUME ReviewTypeOK, Reconciled, NEW b \in ReviewBatches, NEW S \in SUBSET Members, ReserveBatch(b, S)
  PROVE  /\ IsFiniteSet(S) /\ Cardinality(S) \in Nat
         /\ \A r \in Members : holder'[r] = IF r \in S THEN b ELSE holder[r]
         /\ \A r \in Members : member'[r] = IF r \in S THEN "SENDING" ELSE member[r]
         /\ Of(b) = {} /\ batch[b].released = 0
         /\ \A r \in S : holder[r] # b
         /\ \A r \in S, x \in ReviewBatches :
              holder[r] = x => batch[x].status = "TEMPORARY_FAILED" /\ member[r] = "TEMPORARY_FAILED"
<1>1. /\ batch[b].status = "ABSENT" /\ \A r \in S : member[r] \in {"PENDING", "TEMPORARY_FAILED"}
      /\ Turn(S, "SENDING") /\ holder' = [r \in Members |-> IF r \in S THEN b ELSE holder[r]]
  BY DEF ReserveBatch
<1>2. IsFiniteSet(S) /\ Cardinality(S) \in Nat
  BY ReviewAssumption, FS_Subset, FS_CardinalityType DEF ReviewAssumption
<1>3. Of(b) = {} /\ batch[b].released = 0
  BY <1>1 DEF Reconciled, BatchesOK, BatchOK
<1>4. \A r \in S : holder[r] # b
  BY <1>3 DEF Of
<1>5. ASSUME NEW r \in S, NEW x \in ReviewBatches, holder[r] = x
      PROVE  batch[x].status = "TEMPORARY_FAILED" /\ member[r] = "TEMPORARY_FAILED"
  <2>1. r \in Of(x) /\ BatchOK(x) /\ member[r] \in {"PENDING", "TEMPORARY_FAILED"}
    BY <1>1, <1>5 DEF Of, Reconciled, BatchesOK
  <2>2. batch[x].status \in {"ABSENT", "SUBMITTING", "TEMPORARY_FAILED", "MANUAL_REVIEW", "ACCEPTED", "PARTIAL",
                             "PERMANENT_FAILED", "PREPARING"}
    BY DEF ReviewTypeOK
  <2> QED BY <2>1, <2>2 DEF BatchOK
<1>6. \A r \in Members : member'[r] = IF r \in S THEN "SENDING" ELSE member[r]
  BY <1>1, TurnWrites
<1>7. \A r \in Members : holder'[r] = IF r \in S THEN b ELSE holder[r]
  BY <1>1
<1> QED BY <1>2, <1>3, <1>4, <1>5, <1>6, <1>7

LEMMA ReserveTypes ==
  ASSUME ReviewTypeOK, NEW b \in ReviewBatches, NEW S \in SUBSET Members, ReserveBatch(b, S)
  PROVE  /\ ReviewTypeOK' /\ today \in Days /\ today' = today /\ tainted' = tainted
         /\ batch[b].status = "ABSENT" /\ batch'[b].status = "SUBMITTING" /\ batch'[b].day = today
         /\ batch'[b].released = batch[b].released
         /\ \A x \in ReviewBatches : x # b => batch'[x] = batch[x]
         /\ \A d \in Days : d # today => ledger'[d] = ledger[d]
         /\ ledger'[today].row = TRUE /\ ledger'[today].accepted = ledger[today].accepted
         /\ ledger'[today].reserved = ledger[today].reserved + Cardinality(S)
         /\ \A d \in Days : stranded'[d] = stranded[d] + Cardinality({r \in S : holder[r] \in OnDay(d)})
<1> DEFINE n == Cardinality(S)
           Lost(d) == {r \in S : holder[r] \in OnDay(d)}
<1>1. today \in Days /\ UNCHANGED <<today, tainted>> /\ Turn(S, "SENDING") /\ batch[b].status = "ABSENT"
  BY DEF ReserveBatch, ReviewTypeOK
<1>2. n \in Nat /\ \A d \in Days : Cardinality(Lost(d)) \in Nat
  <2>1. \A T \in SUBSET Members : Cardinality(T) \in Nat
    BY ReviewAssumption, FS_Subset, FS_CardinalityType DEF ReviewAssumption
  <2>2. \A d \in Days : Lost(d) \in SUBSET Members
    OBVIOUS
  <2> HIDE DEF Lost
  <2> QED BY <2>1, <2>2
<1>3. /\ batch' \in [ReviewBatches -> BatchType] /\ \A x \in ReviewBatches : x # b => batch'[x] = batch[x]
      /\ batch'[b].status = "SUBMITTING" /\ batch'[b].day = today /\ batch'[b].released = batch[b].released
  <2>1. batch \in [ReviewBatches -> BatchType] /\ batch[b] \in BatchType
    BY <1>1 DEF ReviewTypeOK, BatchType
  <2>2. batch' = [batch EXCEPT ![b] = [batch[b] EXCEPT !.status = "SUBMITTING", !.day = today]]
    BY <2>1 DEF ReserveBatch
  <2>3. [batch[b] EXCEPT !.status = "SUBMITTING", !.day = today] \in BatchType
    BY <1>1, <2>1 DEF BatchType
  <2> QED BY <2>1, <2>2, <2>3 DEF BatchType
<1>4. member' \in [Members -> {"PENDING", "SENDING", "TEMPORARY_FAILED", "MANUAL_REVIEW", "ACCEPTED",
                               "PERMANENT_FAILED"}]
  BY <1>1, TurnWrites
<1>5. holder' \in [Members -> ReviewBatches \cup {Unbatched}]
  BY DEF ReserveBatch, ReviewTypeOK
<1>6. /\ stranded' \in [Days -> Nat]
      /\ \A d \in Days : stranded'[d] = stranded[d] + Cardinality(Lost(d))
  <2>1. stranded \in [Days -> Nat] /\ stranded' = [d \in Days |-> stranded[d] + Cardinality(Lost(d))]
    BY DEF ReserveBatch, ReviewTypeOK
  <2> HIDE DEF Lost
  <2> QED BY <1>2, <2>1
<1> HIDE DEF n
<1>7. /\ ledger' \in [Days -> DayType] /\ \A d \in Days : d # today => ledger'[d] = ledger[d]
      /\ ledger'[today].row = TRUE /\ ledger'[today].accepted = ledger[today].accepted
      /\ ledger'[today].reserved = ledger[today].reserved + n
  <2>1. ledger \in [Days -> DayType] /\ ledger[today] \in DayType
    BY <1>1 DEF ReviewTypeOK, DayType
  <2>2. ledger' = [ledger EXCEPT ![today] = [ledger[today] EXCEPT !.row = TRUE, !.reserved = @ + n]]
    BY <2>1 DEF ReserveBatch, n
  <2>3. ledger[today].reserved + n \in Nat
    BY <1>2, <2>1 DEF DayType
  <2>4. [ledger[today] EXCEPT !.row = TRUE, !.reserved = @ + n] \in DayType
    BY <2>1, <2>3 DEF DayType
  <2> QED BY <1>1, <2>1, <2>2, <2>4 DEF DayType
<1>8. ReviewTypeOK'
  <2>1. tainted' \in BOOLEAN /\ today' \in Days
    BY <1>1 DEF ReviewTypeOK
  <2> QED BY <1>3, <1>4, <1>5, <1>6, <1>7, <2>1 DEF ReviewTypeOK, BatchType, DayType
<1> QED BY <1>1, <1>3, <1>6, <1>7, <1>8 DEF n

LEMMA ReserveKeeps ==
  ASSUME ReviewInv, NEW b \in ReviewBatches, NEW S \in SUBSET Members, ReserveBatch(b, S)
  PROVE  ReviewInv'
<1>1. /\ ReviewTypeOK /\ ReviewTypeOK' /\ today \in Days /\ tainted' = tainted
      /\ batch[b].status = "ABSENT" /\ batch'[b].status = "SUBMITTING" /\ batch'[b].day = today
      /\ batch'[b].released = batch[b].released
      /\ \A x \in ReviewBatches : x # b => batch'[x] = batch[x]
      /\ \A d \in Days : d # today => ledger'[d] = ledger[d]
      /\ ledger'[today].row = TRUE /\ ledger'[today].accepted = ledger[today].accepted
      /\ ledger'[today].reserved = ledger[today].reserved + Cardinality(S)
      /\ \A d \in Days : stranded'[d] = stranded[d] + Cardinality({r \in S : holder[r] \in OnDay(d)})
  BY ReserveTypes DEF ReviewInv
<1> SUFFICES ASSUME ~tainted' PROVE Reconciled'
  BY <1>1 DEF ReviewInv
<1>2. Reconciled
  BY <1>1 DEF ReviewInv
<1>3. /\ IsFiniteSet(S) /\ Cardinality(S) \in Nat
      /\ \A r \in Members : holder'[r] = IF r \in S THEN b ELSE holder[r]
      /\ \A r \in Members : member'[r] = IF r \in S THEN "SENDING" ELSE member[r]
      /\ Of(b) = {} /\ batch[b].released = 0
      /\ \A r \in S : holder[r] # b
      /\ \A r \in S, x \in ReviewBatches :
           holder[r] = x => batch[x].status = "TEMPORARY_FAILED" /\ member[r] = "TEMPORARY_FAILED"
  BY <1>1, <1>2, ReserveMoves
<1>4. ASSUME NEW x \in ReviewBatches PROVE BatchOK(x)'
  <2>1. CASE x = b
    <3>1. Of(b)' = S
      BY <1>3 DEF Of
    <3>2. \A r \in S : member'[r] = "SENDING"
      BY <1>3
    <3> QED BY <1>1, <1>3, <2>1, <3>1, <3>2 DEF BatchOK
  <2>2. CASE x # b
    <3>1. /\ BatchOK(x) /\ batch'[x] = batch[x] /\ Of(x)' = Of(x) \ S
          /\ \A r \in Of(x) \ S : member'[r] = member[r]
      BY <1>1, <1>2, <1>3, <2>2 DEF Of, Reconciled, BatchesOK
    <3>2. batch[x].status = "MANUAL_REVIEW" => Of(x) \cap S = {}
      BY <1>3 DEF Of
    <3>3. batch[x].status = "MANUAL_REVIEW" => InReview(x)' = InReview(x)
      BY <3>1, <3>2 DEF InReview, OfIn
    <3>4. batch[x].day \in Days /\ (ledger[batch[x].day].row = TRUE => ledger'[batch[x].day].row = TRUE)
      BY <1>1 DEF ReviewTypeOK
    <3> QED BY <3>1, <3>3, <3>4 DEF BatchOK
  <2> QED BY <2>1, <2>2
<1>5. RowsThere'
  BY <1>1, <1>2 DEF Reconciled, RowsThere
<1>6. ASSUME NEW d \in Days PROVE Balanced(d)'
  <2> DEFINE B == OnDay(d)
             Lost == {r \in S : holder[r] \in B}
             U == InStates(holder, member, B, Unsettled)
             New == IF d = today THEN S ELSE {}
             U2 == InStates(holder', member', OnDay(d)', Unsettled)
  <2>1. /\ B \subseteq ReviewBatches /\ b \notin B
        /\ OnDay(d)' = IF d = today THEN B \cup {b} ELSE B
    BY <1>1 DEF OnDay
  <2>2. \A x \in B : batch'[x] = batch[x]
    BY <1>1, <2>1
  <2>3. Slots(batch', OnDay(d)') = Slots(batch, B)
    <3>1. \A p : p \in Slots(batch', OnDay(d)') <=> p \in Slots(batch, B)
      <4>1. {x \in OnDay(d)' : batch'[x].status = "MANUAL_REVIEW"} = {x \in B : batch[x].status = "MANUAL_REVIEW"}
        BY <1>1, <2>1, <2>2
      <4> QED BY <2>2, <4>1 DEF Slots
    <3> QED BY <3>1
  <2>4. Lost \subseteq U
    BY <1>3, <2>1 DEF InStates, Unsettled
  <2>5. U2 = (U \ Lost) \cup New /\ (U \ Lost) \cap New = {}
    <3>1. \A r \in Members : r \in U2 <=> r \in (U \ Lost) \cup New
      <4> SUFFICES ASSUME NEW r \in Members PROVE r \in U2 <=> r \in (U \ Lost) \cup New
        OBVIOUS
      <4>1. CASE r \in S
        <5>1. r \in U2 <=> d = today
          BY <1>3, <2>1, <4>1 DEF InStates, Unsettled
        <5>2. r \in U => r \in Lost
          BY <4>1 DEF InStates
        <5> QED BY <4>1, <5>1, <5>2
      <4>2. CASE r \notin S
        <5>1. holder'[r] = holder[r] /\ member'[r] = member[r] /\ r \notin New /\ r \notin Lost
          BY <1>3, <4>2
        <5>2. holder[r] # b
          BY <1>3 DEF Of
        <5> QED BY <2>1, <5>1, <5>2 DEF InStates
      <4> QED BY <4>1, <4>2
    <3>2. U2 \subseteq Members /\ U \subseteq Members /\ New \subseteq Members
      BY DEF InStates
    <3>3. \A r \in New : r \notin U \ Lost
      BY DEF InStates
    <3> HIDE DEF U2, U, Lost, New
    <3> QED BY <3>1, <3>2, <3>3
  <2>6. InStates(holder', member', OnDay(d)', {"ACCEPTED"}) = InStates(holder, member, B, {"ACCEPTED"})
    <3> SUFFICES ASSUME NEW r \in Members
                 PROVE  holder'[r] \in OnDay(d)' /\ member'[r] = "ACCEPTED" <=> holder[r] \in B /\ member[r] = "ACCEPTED"
      BY DEF InStates
    <3>1. CASE r \in S
      <4>1. holder[r] \in B => member[r] = "TEMPORARY_FAILED"
        BY <1>3, <2>1, <3>1
      <4>2. member'[r] = "SENDING"
        BY <1>3, <3>1
      <4> QED BY <4>1, <4>2
    <3>2. CASE r \notin S
      <4>1. holder'[r] = holder[r] /\ member'[r] = member[r] /\ holder[r] # b
        BY <1>3, <3>2 DEF Of
      <4> QED BY <2>1, <4>1
    <3> QED BY <3>1, <3>2
  <2>7. IsFiniteSet(U) /\ Cardinality(U) \in Nat
    BY StatesSize
  <2>8. /\ IsFiniteSet(New) /\ Cardinality(New) \in Nat
        /\ Cardinality(New) = IF d = today THEN Cardinality(S) ELSE 0
    BY <1>3, FS_EmptySet
  <2>9. /\ stranded'[d] = stranded[d] + Cardinality(Lost) /\ stranded[d] \in Nat
        /\ Balanced(d) /\ ledger[d].reserved \in Nat /\ ledger[d].accepted \in Nat
    BY <1>1, <1>2 DEF ReviewTypeOK, Reconciled
  <2>10. IsFiniteSet(Slots(batch, B)) /\ Cardinality(Slots(batch, B)) \in Nat
    <3>1. \A x \in ReviewBatches : InReview(x) = InStates(holder, member, {x}, {"MANUAL_REVIEW"})
      BY DEF InReview, OfIn, Of, InStates
    <3>2. \A x \in B : /\ batch[x].released \in Nat
                       /\ batch[x].status = "MANUAL_REVIEW" =>
                            batch[x].released <= Cardinality(InStates(holder, member, {x}, {"MANUAL_REVIEW"}))
      BY <1>1, <1>2, <2>1, <3>1 DEF ReviewTypeOK, Reconciled, BatchesOK, BatchOK
    <3> QED BY <3>2, SlotsBacked
  <2>11. /\ ledger[d].reserved = Cardinality(U) - Cardinality(Slots(batch, B)) + stranded[d]
         /\ ledger[d].accepted = Cardinality(InStates(holder, member, B, {"ACCEPTED"}))
    BY <2>9 DEF Balanced
  <2>12. ledger'[d].reserved = ledger[d].reserved + Cardinality(New) /\ ledger'[d].accepted = ledger[d].accepted
    BY <1>1, <2>8, <2>9
  <2> HIDE DEF U, U2, Lost, New
  <2>13. /\ IsFiniteSet(Lost) /\ Cardinality(Lost) \in Nat /\ IsFiniteSet(U \ Lost) /\ Cardinality(U \ Lost) \in Nat
         /\ Cardinality(U \ Lost) = Cardinality(U) - Cardinality(Lost)
    <3>1. U \cap Lost = Lost
      BY <2>4
    <3>2. IsFiniteSet(Lost) /\ IsFiniteSet(U \ Lost)
      BY <2>4, <2>7, FS_Subset
    <3> QED BY <2>7, <3>1, <3>2, FS_Difference, FS_CardinalityType
  <2>14. Cardinality(U2) = Cardinality(U \ Lost) + Cardinality(New)
    <3>1. Cardinality((U \ Lost) \cup New)
            = Cardinality(U \ Lost) + Cardinality(New) - Cardinality((U \ Lost) \cap New)
      BY <2>8, <2>13, FS_Union
    <3>2. Cardinality((U \ Lost) \cap New) = 0
      BY <2>5, FS_EmptySet
    <3> QED BY <2>5, <2>8, <2>13, <3>1, <3>2
  <2>15. ledger'[d].reserved = Cardinality(U2) - Cardinality(Slots(batch, B)) + stranded'[d]
    BY <2>7, <2>8, <2>9, <2>10, <2>11, <2>12, <2>13, <2>14
  <2>16. ledger'[d].accepted = Cardinality(InStates(holder', member', OnDay(d)', {"ACCEPTED"}))
    BY <2>6, <2>11, <2>12
  <2> QED BY <2>3, <2>15, <2>16 DEF Balanced, U2
<1> QED BY <1>4, <1>5, <1>6 DEF Reconciled, BatchesOK

\* A dispatch with nothing to reserve leaves an empty row for the day.
LEMMA NothingKeeps ==
  ASSUME ReviewInv, ReserveNothing
  PROVE  ReviewInv'
<1>1. /\ ReviewTypeOK /\ today \in Days
      /\ UNCHANGED <<batch, member, holder, today, stranded, tainted>>
  BY DEF ReviewInv, ReviewTypeOK, ReserveNothing
<1>2. /\ ledger' \in [Days -> DayType]
      /\ \A d \in Days : /\ ledger'[d].reserved = ledger[d].reserved /\ ledger'[d].accepted = ledger[d].accepted
                         /\ ledger[d].row = TRUE => ledger'[d].row = TRUE
                         /\ ledger'[d].row = FALSE => ledger[d].row = FALSE
  <2>1. ledger \in [Days -> DayType] /\ ledger[today] \in DayType
    BY <1>1 DEF ReviewTypeOK, DayType
  <2>2. ledger' = [ledger EXCEPT ![today] = [ledger[today] EXCEPT !.row = TRUE]]
    BY <2>1 DEF ReserveNothing
  <2>3. [ledger[today] EXCEPT !.row = TRUE] \in DayType
    BY <2>1 DEF DayType
  <2> QED BY <1>1, <2>1, <2>2, <2>3 DEF DayType
<1>3. ReviewTypeOK'
  BY <1>1, <1>2 DEF ReviewTypeOK, DayType
<1>4. ASSUME Reconciled PROVE Reconciled'
  <2>1. ASSUME NEW b \in ReviewBatches PROVE BatchOK(b)'
    <3>1. BatchOK(b) /\ batch[b].day \in Days /\ Of(b)' = Of(b) /\ InReview(b)' = InReview(b)
      BY <1>1, <1>4 DEF Reconciled, BatchesOK, ReviewTypeOK, Of, InReview, OfIn
    <3> QED BY <1>1, <1>2, <3>1 DEF BatchOK
  <2>2. RowsThere'
    BY <1>2, <1>4 DEF Reconciled, RowsThere
  <2>3. ASSUME NEW d \in Days PROVE Balanced(d)'
    <3>1. Balanced(d) /\ OnDay(d)' = OnDay(d)
      BY <1>1, <1>4 DEF Reconciled, OnDay
    <3> QED BY <1>1, <1>2, <3>1 DEF Balanced
  <2> QED BY <2>1, <2>2, <2>3 DEF Reconciled, BatchesOK
<1> QED BY <1>1, <1>3, <1>4 DEF ReviewInv

\* What every step but a reservation has in common: one batch that exists,
\* its recipients, and rows of the right type.
StatesOf == {"PENDING", "SENDING", "TEMPORARY_FAILED", "MANUAL_REVIEW", "ACCEPTED", "PERMANENT_FAILED"}
OneBatch(b) ==
  /\ batch[b].status # "ABSENT" /\ batch'[b].status # "ABSENT" /\ batch'[b].day = batch[b].day
  /\ batch' \in [ReviewBatches -> BatchType] /\ \A x \in ReviewBatches : x # b => batch'[x] = batch[x]
  /\ member' \in [Members -> StatesOf] /\ \A r \in Members : r \notin Of(b) => member'[r] = member[r]
  /\ ledger' \in [Days -> DayType] /\ today' = today /\ tainted' \in BOOLEAN
  /\ holder' = holder /\ stranded' = stranded

LEMMA OneBatchType ==
  ASSUME ReviewTypeOK, NEW b \in ReviewBatches, OneBatch(b)
  PROVE  ReviewTypeOK'
BY DEF OneBatch, ReviewTypeOK, BatchType, DayType, StatesOf

\* A step that moves neither quota nor recipients out of what is reserved.
LEMMA QuietKeeps ==
  ASSUME ReviewInv, NEW b \in ReviewBatches, OneBatch(b), ledger' = ledger, tainted => tainted',
         Reconciled /\ ~tainted' =>
           /\ BatchOK(b)' /\ Own(batch', b) = Own(batch, b)
           /\ InStates(holder, member', {b}, Unsettled) = InStates(holder, member, {b}, Unsettled)
           /\ InStates(holder, member', {b}, {"ACCEPTED"}) = InStates(holder, member, {b}, {"ACCEPTED"})
  PROVE  ReviewInv'
<1>1. ReviewTypeOK /\ ReviewTypeOK'
  BY OneBatchType DEF ReviewInv
<1>2. ASSUME ~tainted' PROVE Reconciled'
  <2>1. Reconciled
    BY <1>2 DEF ReviewInv
  <2>2. /\ BatchOK(b)' /\ Own(batch', b) = Own(batch, b)
        /\ InStates(holder, member', {b}, Unsettled) = InStates(holder, member, {b}, Unsettled)
        /\ InStates(holder, member', {b}, {"ACCEPTED"}) = InStates(holder, member, {b}, {"ACCEPTED"})
    BY <1>2, <2>1
  <2> DEFINE D == batch[b].day
             p == Cardinality(InStates(holder, member, {b}, Unsettled))
             a == Cardinality(InStates(holder, member, {b}, {"ACCEPTED"}))
  <2>3. p \in Nat /\ a \in Nat
    BY StatesSize
  <2>4. /\ Cardinality(InStates(holder, member', {b}, Unsettled)) = p
        /\ Cardinality(InStates(holder, member', {b}, {"ACCEPTED"})) = a
    BY <2>2
  <2>5. D \in Days /\ ledger[D].reserved \in Nat /\ ledger[D].accepted \in Nat /\ ledger[D].row = TRUE
    BY <1>1, <2>1, EnoughReserved DEF ReviewTypeOK, OneBatch
  <2>6. /\ batch[b].status # "ABSENT" /\ batch'[b].status # "ABSENT" /\ batch'[b].day = D
        /\ \A x \in ReviewBatches : x # b => batch'[x] = batch[x]
        /\ \A r \in Members : r \notin Of(b) => member'[r] = member[r]
        /\ holder' = holder /\ stranded' = stranded
    BY DEF OneBatch
  <2>7. Own(batch, b) \in Nat
    BY <1>1 DEF ReviewTypeOK, Own
  <2> HIDE DEF p, a, D
  <2>8. /\ ledger'[D].reserved = ledger[D].reserved + (p - Own(batch', b)) - (p - Own(batch, b))
        /\ ledger'[D].accepted = ledger[D].accepted + a - a
        /\ ledger'[D].row = TRUE /\ \A d \in Days : d # D => ledger'[d] = ledger[d]
    BY <2>2, <2>3, <2>5, <2>7
  <2>9. /\ Cardinality(InStates(holder, member, {b}, Unsettled)) = p
        /\ Cardinality(InStates(holder, member, {b}, {"ACCEPTED"})) = a
        /\ batch[b].day = D
    BY DEF p, a, D
  <2> QED BY <1>1, <2>1, <2>2, <2>3, <2>4, <2>5, <2>6, <2>8, <2>9, StepOnBatch
<1> QED BY <1>1, <1>2 DEF ReviewInv

LEMMA LoseAnswerKeeps ==
  ASSUME ReviewInv, NEW b \in ReviewBatches, LoseAnswer(b) \/ RefuseForNow(b)
  PROVE  ReviewInv'
<1>1. ReviewTypeOK /\ batch[b].status = "SUBMITTING" /\ Of(b) \in SUBSET Members /\ batch[b].released \in Nat
  BY DEF ReviewInv, LoseAnswer, RefuseForNow, ReviewTypeOK, Of
<1>2. PICK s \in {"MANUAL_REVIEW", "TEMPORARY_FAILED"} :
        BatchTurns(b, s) /\ Turn(Of(b), s) /\ UNCHANGED <<holder, ledger, today, stranded, tainted>>
  BY DEF LoseAnswer, RefuseForNow
<1>3. /\ batch' \in [ReviewBatches -> BatchType] /\ \A x \in ReviewBatches : x # b => batch'[x] = batch[x]
      /\ batch'[b].status = s /\ batch'[b].day = batch[b].day /\ batch'[b].released = batch[b].released + 0
  <2>1. batch[b].released + 0 \in Nat
    BY <1>1
  <2> QED BY <1>1, <1>2, <2>1, BatchWrites
<1>4. member' \in [Members -> StatesOf] /\ \A r \in Members : member'[r] = IF r \in Of(b) THEN s ELSE member[r]
  BY <1>1, <1>2, TurnWrites DEF StatesOf
<1>5. OneBatch(b)
  BY <1>1, <1>2, <1>3, <1>4 DEF OneBatch, ReviewTypeOK, DayType
<1>6. ASSUME Reconciled, ~tainted'
      PROVE  /\ BatchOK(b)' /\ Own(batch', b) = Own(batch, b)
             /\ InStates(holder, member', {b}, Unsettled) = InStates(holder, member, {b}, Unsettled)
             /\ InStates(holder, member', {b}, {"ACCEPTED"}) = InStates(holder, member, {b}, {"ACCEPTED"})
  <2>1. /\ BatchOK(b) /\ batch[b].released = 0 /\ \A r \in Of(b) : member[r] = "SENDING" /\ member'[r] = s
        /\ ledger[batch[b].day].row = TRUE
    BY <1>1, <1>4, <1>6 DEF Reconciled, BatchesOK, BatchOK, Of
  <2>2. batch'[b].released = 0 /\ Own(batch', b) = Own(batch, b)
    BY <1>1, <1>3, <2>1 DEF Own
  <2>3. /\ InStates(holder, member', {b}, Unsettled) = InStates(holder, member, {b}, Unsettled)
        /\ InStates(holder, member', {b}, {"ACCEPTED"}) = InStates(holder, member, {b}, {"ACCEPTED"})
    BY <2>1 DEF InStates, Unsettled, Of
  <2>4. Of(b)' = Of(b) /\ Cardinality(InReview(b)') \in Nat
    <3>2. Of(b)' = Of(b)
      BY <1>2 DEF Of
    <3>1. InReview(b)' \in SUBSET Members
      BY DEF InReview, OfIn, Of
    <3> QED BY <3>1, <3>2, ReviewAssumption, FS_Subset, FS_CardinalityType DEF ReviewAssumption
  <2>5. BatchOK(b)'
    BY <1>2, <1>3, <2>1, <2>2, <2>4 DEF BatchOK
  <2> QED BY <2>2, <2>3, <2>5
<1>7. ledger' = ledger /\ (tainted => tainted')
  BY <1>2
<1> QED BY <1>5, <1>6, <1>7, QuietKeeps

LEMMA RetryKeeps ==
  ASSUME ReviewInv, NEW b \in ReviewBatches, RetryBatch(b)
  PROVE  ReviewInv'
<1> PICK S, s : S = OfIn(b, "TEMPORARY_FAILED") /\ s = IF S = {} THEN "PREPARING" ELSE "SUBMITTING"
  OBVIOUS
<1>1. /\ ReviewTypeOK /\ batch[b].status = "TEMPORARY_FAILED" /\ batch[b].released \in Nat
      /\ S \in SUBSET Members /\ S \subseteq Of(b) /\ s \in {"PREPARING", "SUBMITTING"}
      /\ BatchTurns(b, s) /\ Turn(S, "SENDING") /\ UNCHANGED <<holder, ledger, today, stranded, tainted>>
  BY DEF ReviewInv, RetryBatch, ReviewTypeOK, OfIn, Of
<1>3. /\ batch' \in [ReviewBatches -> BatchType] /\ \A x \in ReviewBatches : x # b => batch'[x] = batch[x]
      /\ batch'[b].status = s /\ batch'[b].day = batch[b].day
      /\ batch'[b].released = batch[b].released + 0
  <2>1. batch[b].released + 0 \in Nat
    BY <1>1
  <2> QED BY <1>1, <2>1, BatchWrites
<1>4. /\ member' \in [Members -> StatesOf]
      /\ \A r \in Members : member'[r] = IF r \in S THEN "SENDING" ELSE member[r]
  BY <1>1, TurnWrites DEF StatesOf
<1>5. OneBatch(b)
  BY <1>1, <1>3, <1>4 DEF OneBatch, ReviewTypeOK, DayType
<1>6. ASSUME Reconciled, ~tainted'
      PROVE  /\ BatchOK(b)' /\ Own(batch', b) = Own(batch, b)
             /\ InStates(holder, member', {b}, Unsettled) = InStates(holder, member, {b}, Unsettled)
             /\ InStates(holder, member', {b}, {"ACCEPTED"}) = InStates(holder, member, {b}, {"ACCEPTED"})
  <2>1. /\ BatchOK(b) /\ batch[b].released = 0 /\ \A r \in Of(b) : member[r] = "TEMPORARY_FAILED"
        /\ ledger[batch[b].day].row = TRUE
    BY <1>1, <1>6 DEF Reconciled, BatchesOK, BatchOK
  <2>2. S = Of(b) /\ \A r \in Of(b) : member'[r] = "SENDING"
    BY <1>4, <2>1 DEF OfIn, Of
  <2>3. batch'[b].released = 0 /\ Own(batch', b) = Own(batch, b) /\ Of(b)' = Of(b)
    BY <1>1, <1>3, <2>1 DEF Own, Of
  <2>4. /\ InStates(holder, member', {b}, Unsettled) = InStates(holder, member, {b}, Unsettled)
        /\ InStates(holder, member', {b}, {"ACCEPTED"}) = InStates(holder, member, {b}, {"ACCEPTED"})
    BY <2>1, <2>2 DEF InStates, Unsettled, Of
  <2>5. s = "PREPARING" => Of(b)' = {}
    BY <2>2, <2>3
  <2>6. BatchOK(b)'
    BY <1>1, <1>3, <2>1, <2>2, <2>3, <2>5 DEF BatchOK
  <2> QED BY <2>3, <2>4, <2>6
<1>7. ledger' = ledger /\ (tainted => tainted')
  BY <1>1
<1> QED BY <1>5, <1>6, <1>7, QuietKeeps

LEMMA SafeRetryKeeps ==
  ASSUME ReviewInv, NEW b \in ReviewBatches, SafeRetry(b)
  PROVE  ReviewInv'
<1> DEFINE S == InReview(b)
<1>1. /\ ReviewTypeOK /\ batch[b].status = "MANUAL_REVIEW" /\ batch[b].released \in Nat
      /\ batch[b].reviews < MaxResolutions /\ S \in SUBSET Members /\ S \subseteq Of(b)
      /\ Resolves(b, "TEMPORARY_FAILED", 0) /\ Turn(S, "TEMPORARY_FAILED") /\ UNCHANGED <<holder, ledger, today, stranded>>
  BY DEF ReviewInv, SafeRetry, Reviewing, ReviewTypeOK, InReview, OfIn, Of
<1>2. tainted' = (tainted \/ batch[b].released > 0 \/ S # Of(b))
  BY DEF SafeRetry
<1>3. /\ batch' \in [ReviewBatches -> BatchType] /\ \A x \in ReviewBatches : x # b => batch'[x] = batch[x]
      /\ batch'[b].status = "TEMPORARY_FAILED" /\ batch'[b].day = batch[b].day
      /\ batch'[b].released = batch[b].released + 0
  <2>1. batch[b].released + 0 \in Nat
    BY <1>1
  <2> QED BY <1>1, <2>1, BatchWrites
<1> HIDE DEF S
<1>4. /\ member' \in [Members -> StatesOf]
      /\ \A r \in Members : member'[r] = IF r \in S THEN "TEMPORARY_FAILED" ELSE member[r]
  BY <1>1, TurnWrites DEF StatesOf
<1>5. OneBatch(b)
  <2>1. tainted' \in BOOLEAN
    BY <1>2
  <2> QED BY <1>1, <1>3, <1>4, <2>1 DEF OneBatch, ReviewTypeOK, DayType
<1>6. ASSUME Reconciled, ~tainted'
      PROVE  /\ BatchOK(b)' /\ Own(batch', b) = Own(batch, b)
             /\ InStates(holder, member', {b}, Unsettled) = InStates(holder, member, {b}, Unsettled)
             /\ InStates(holder, member', {b}, {"ACCEPTED"}) = InStates(holder, member, {b}, {"ACCEPTED"})
  <2>1. BatchOK(b) /\ ledger[batch[b].day].row = TRUE
    BY <1>1, <1>6 DEF Reconciled, BatchesOK, BatchOK
  <2>2. ~(batch[b].released > 0) /\ S = Of(b)
    BY <1>2, <1>6
  <2>3. batch[b].released = 0
    BY <1>1, <2>2
  <2>4. \A r \in Of(b) : member[r] = "MANUAL_REVIEW" /\ member'[r] = "TEMPORARY_FAILED"
    BY <1>4, <2>2 DEF S, InReview, OfIn, Of
  <2>5. batch'[b].released = 0 /\ Own(batch', b) = Own(batch, b) /\ Of(b)' = Of(b)
    BY <1>1, <1>3, <2>3 DEF Own, Of
  <2>6. /\ InStates(holder, member', {b}, Unsettled) = InStates(holder, member, {b}, Unsettled)
        /\ InStates(holder, member', {b}, {"ACCEPTED"}) = InStates(holder, member, {b}, {"ACCEPTED"})
    BY <2>4 DEF InStates, Unsettled, Of
  <2>7. BatchOK(b)'
    BY <1>1, <1>3, <2>1, <2>4, <2>5 DEF BatchOK
  <2> QED BY <2>5, <2>6, <2>7
<1>7. ledger' = ledger /\ (tainted => tainted')
  BY <1>1, <1>2
<1> QED BY <1>5, <1>6, <1>7, QuietKeeps

LEMMA KeepInReviewKeeps ==
  ASSUME ReviewInv, NEW b \in ReviewBatches, KeepInReview(b)
  PROVE  ReviewInv'
<1>1. /\ ReviewTypeOK /\ batch[b].status = "MANUAL_REVIEW" /\ batch[b].released \in Nat
      /\ batch[b].reviews < MaxResolutions /\ Resolves(b, "MANUAL_REVIEW", 0)
      /\ UNCHANGED <<member, holder, ledger, today, stranded, tainted>>
  BY DEF ReviewInv, KeepInReview, Reviewing, ReviewTypeOK
<1>3. /\ batch' \in [ReviewBatches -> BatchType] /\ \A x \in ReviewBatches : x # b => batch'[x] = batch[x]
      /\ batch'[b].status = "MANUAL_REVIEW" /\ batch'[b].day = batch[b].day
      /\ batch'[b].released = batch[b].released + 0
  <2>1. batch[b].released + 0 \in Nat
    BY <1>1
  <2> QED BY <1>1, <2>1, BatchWrites
<1>4. batch'[b].released = batch[b].released
  BY <1>1, <1>3
<1>5. OneBatch(b)
  BY <1>1, <1>3 DEF OneBatch, ReviewTypeOK, DayType, StatesOf
<1>6. ASSUME Reconciled, ~tainted'
      PROVE  /\ BatchOK(b)' /\ Own(batch', b) = Own(batch, b)
             /\ InStates(holder, member', {b}, Unsettled) = InStates(holder, member, {b}, Unsettled)
             /\ InStates(holder, member', {b}, {"ACCEPTED"}) = InStates(holder, member, {b}, {"ACCEPTED"})
  <2>1. BatchOK(b)
    BY <1>6 DEF Reconciled, BatchesOK
  <2>2. InReview(b)' = InReview(b) /\ Of(b)' = Of(b)
    BY <1>1 DEF InReview, OfIn, Of
  <2>3. BatchOK(b)'
    BY <1>1, <1>3, <1>4, <2>1, <2>2 DEF BatchOK
  <2> QED BY <1>1, <1>3, <1>4, <2>3 DEF Own
<1>7. ledger' = ledger /\ (tainted => tainted')
  BY <1>1
<1> QED BY <1>5, <1>6, <1>7, QuietKeeps

\* How the three writers of the rows write them.
LEMMA SettleWrites ==
  ASSUME ReviewTypeOK, NEW b \in ReviewBatches, NEW n \in Nat, NEW k \in Nat, k <= n, SettleDay(b, n, k)
  PROVE  /\ ledger' \in [Days -> DayType] /\ \A d \in Days : d # batch[b].day => ledger'[d] = ledger[d]
         /\ ledger'[batch[b].day].row = ledger[batch[b].day].row
         /\ ledger'[batch[b].day].reserved = ledger[batch[b].day].reserved - n
         /\ ledger'[batch[b].day].accepted = ledger[batch[b].day].accepted + k
<1> DEFINE D == batch[b].day
           l == [ledger[D] EXCEPT !.reserved = @ - n, !.accepted = @ + k, !.released = @ + (n - k)]
<1>1. D \in Days /\ ledger \in [Days -> DayType] /\ ledger[D] \in DayType
  BY DEF ReviewTypeOK, DayType
<1>2. ledger[D].reserved >= n /\ ledger' = [ledger EXCEPT ![D] = l]
  BY <1>1 DEF SettleDay
<1>3. /\ ledger[D].reserved - n \in Nat /\ ledger[D].accepted + k \in Nat
      /\ ledger[D].released + (n - k) \in Nat
  BY <1>1, <1>2 DEF DayType
<1>4. /\ l \in DayType /\ l.row = ledger[D].row /\ l.reserved = ledger[D].reserved - n
      /\ l.accepted = ledger[D].accepted + k
  BY <1>1, <1>3 DEF DayType
<1> HIDE DEF l
<1> QED BY <1>1, <1>2, <1>4

LEMMA ReleaseWrites ==
  ASSUME ReviewTypeOK, NEW n \in Nat, Release(n)
  PROVE  /\ ledger' \in [Days -> DayType]
         /\ \A d \in Days : /\ ledger'[d].row = ledger[d].row /\ ledger'[d].accepted = ledger[d].accepted
                            /\ ledger[d].reserved >= n => ledger'[d].reserved = ledger[d].reserved - n
                            /\ ledger[d].reserved = 0 => ledger'[d] = ledger[d]
<1>1. ledger \in [Days -> DayType]
  BY DEF ReviewTypeOK, DayType
<1>2. ASSUME NEW d \in Days
      PROVE  /\ ledger'[d] \in DayType
             /\ ledger'[d].row = ledger[d].row /\ ledger'[d].accepted = ledger[d].accepted
             /\ ledger[d].reserved >= n => ledger'[d].reserved = ledger[d].reserved - n
             /\ ledger[d].reserved = 0 => ledger'[d] = ledger[d]
  <2> DEFINE l == [ledger[d] EXCEPT !.reserved = Floor(@ - n), !.released = @ + n]
  <2>1. ledger[d] \in DayType
    BY <1>1
  <2>2. CASE ledger[d].reserved > 0 /\ n > 0
    <3>1. ledger'[d] = l
      BY <2>2 DEF Release
    <3>2. /\ Floor(ledger[d].reserved - n) \in Nat /\ ledger[d].released + n \in Nat
          /\ ledger[d].reserved >= n => Floor(ledger[d].reserved - n) = ledger[d].reserved - n
      BY <2>1 DEF Floor, DayType
    <3>3. /\ l \in DayType /\ l.row = ledger[d].row /\ l.accepted = ledger[d].accepted
          /\ l.reserved = Floor(ledger[d].reserved - n)
      BY <2>1, <3>2 DEF DayType
    <3> HIDE DEF l
    <3> QED BY <2>1, <2>2, <3>1, <3>2, <3>3 DEF DayType
  <2>3. CASE ~(ledger[d].reserved > 0 /\ n > 0)
    <3>1. ledger'[d] = ledger[d]
      BY <2>3 DEF Release
    <3> QED BY <2>1, <2>3, <3>1 DEF DayType
  <2> QED BY <2>2, <2>3
<1>3. ledger' = [d \in Days |-> ledger'[d]]
  BY DEF Release
<1> QED BY <1>2, <1>3

LEMMA AcceptWrites ==
  ASSUME ReviewTypeOK, NEW n \in Nat, NEW k \in Nat, Accept(n, k)
  PROVE  /\ ledger' \in [Days -> DayType]
         /\ \A d \in Days :
              /\ ledger'[d].row = ledger[d].row
              /\ ledger[d].row = TRUE =>
                   /\ ledger'[d].accepted = ledger[d].accepted + n + k
                   /\ ledger[d].reserved >= n => ledger'[d].reserved = ledger[d].reserved - n
              /\ ledger[d].row = FALSE => ledger'[d] = ledger[d]
<1>1. ledger \in [Days -> DayType]
  BY DEF ReviewTypeOK, DayType
<1>2. ASSUME NEW d \in Days
      PROVE  /\ ledger'[d] \in DayType
             /\ ledger'[d].row = ledger[d].row
             /\ ledger[d].row = TRUE =>
                  /\ ledger'[d].accepted = ledger[d].accepted + n + k
                  /\ ledger[d].reserved >= n => ledger'[d].reserved = ledger[d].reserved - n
             /\ ledger[d].row = FALSE => ledger'[d] = ledger[d]
  <2> DEFINE l == [ledger[d] EXCEPT !.reserved = Floor(@ - n), !.released = Floor(@ - k),
                                    !.accepted = @ + n + k]
  <2>1. ledger[d] \in DayType
    BY <1>1
  <2>2. CASE ledger[d].row = TRUE
    <3>1. ledger'[d] = l
      BY <2>2 DEF Accept
    <3>2. /\ Floor(ledger[d].reserved - n) \in Nat /\ Floor(ledger[d].released - k) \in Nat
          /\ ledger[d].accepted + n + k \in Nat
          /\ ledger[d].reserved >= n => Floor(ledger[d].reserved - n) = ledger[d].reserved - n
      BY <2>1 DEF Floor, DayType
    <3>3. /\ l \in DayType /\ l.row = ledger[d].row /\ l.accepted = ledger[d].accepted + n + k
          /\ l.reserved = Floor(ledger[d].reserved - n)
      BY <2>1, <3>2 DEF DayType
    <3> HIDE DEF l
    <3> QED BY <2>2, <3>1, <3>2, <3>3
  <2>3. CASE ledger[d].row = FALSE
    <3>1. ledger'[d] = ledger[d]
      BY <2>3 DEF Accept
    <3> QED BY <2>1, <2>3, <3>1
  <2> QED BY <2>1, <2>2, <2>3 DEF DayType
<1>3. ledger' = [d \in Days |-> ledger'[d]]
  BY DEF Accept
<1> QED BY <1>2, <1>3

\* A batch that gives back what it still holds, on the day it took it.
LEMMA SettledKeeps ==
  ASSUME ReviewInv, NEW b \in ReviewBatches, OneBatch(b), tainted' = tainted, batch[b].status = "SUBMITTING",
         NEW A \in SUBSET Of(b), SettleDay(b, Cardinality(OfIn(b, "SENDING")), Cardinality(A)),
         batch'[b].status \in {"ACCEPTED", "PARTIAL", "PERMANENT_FAILED"},
         \A r \in Of(b) : member[r] = "SENDING" =>
           member'[r] = IF r \in A THEN "ACCEPTED" ELSE "PERMANENT_FAILED"
  PROVE  ReviewInv'
<1>1. ReviewTypeOK /\ ReviewTypeOK'
  BY OneBatchType DEF ReviewInv
<1>2. ASSUME ~tainted' PROVE Reconciled'
  <2> DEFINE D == batch[b].day
             n == Cardinality(OfIn(b, "SENDING"))
             k == Cardinality(A)
  <2>1. Reconciled /\ BatchOK(b)
    BY <1>2 DEF ReviewInv, Reconciled, BatchesOK
  <2>2. /\ \A r \in Of(b) : member[r] = "SENDING"
        /\ ledger[D].row = TRUE /\ Of(b)' = Of(b)
        /\ Own(batch, b) = 0 /\ Own(batch', b) = 0
    BY <2>1 DEF BatchOK, Of, Own, OneBatch
  <2>3. OfIn(b, "SENDING") = Of(b) /\ IsFiniteSet(Of(b)) /\ n \in Nat
    <3>1. OfIn(b, "SENDING") = Of(b) /\ Of(b) \in SUBSET Members
      BY <2>2 DEF OfIn, Of
    <3> QED BY <3>1, ReviewAssumption, FS_Subset, FS_CardinalityType DEF ReviewAssumption
  <2>4. k \in Nat /\ k <= n
    BY <2>3, FS_Subset, FS_CardinalityType
  <2>8. /\ \A d \in Days : d # D => ledger'[d] = ledger[d]
        /\ ledger'[D].row = TRUE
        /\ ledger'[D].reserved = ledger[D].reserved - n
        /\ ledger'[D].accepted = ledger[D].accepted + k
    <3>1. SettleDay(b, n, k)
      OBVIOUS
    <3> HIDE DEF n, k
    <3>2. /\ \A d \in Days : d # batch[b].day => ledger'[d] = ledger[d]
          /\ ledger'[batch[b].day].row = ledger[batch[b].day].row
          /\ ledger'[batch[b].day].reserved = ledger[batch[b].day].reserved - n
          /\ ledger'[batch[b].day].accepted = ledger[batch[b].day].accepted + k
      BY <1>1, <2>3, <2>4, <3>1, SettleWrites
    <3> QED BY <2>2, <3>2
  <2>5. /\ Cardinality(InStates(holder, member, {b}, Unsettled)) = n /\ Cardinality(InStates(holder, member, {b}, {"ACCEPTED"})) = 0
        /\ Cardinality(InStates(holder, member', {b}, Unsettled)) = 0 /\ Cardinality(InStates(holder, member', {b}, {"ACCEPTED"})) = k
    <3>1. /\ InStates(holder, member, {b}, Unsettled) = Of(b) /\ InStates(holder, member, {b}, {"ACCEPTED"}) = {}
      BY <2>2 DEF InStates, Unsettled, Of
    <3>2. /\ InStates(holder, member', {b}, Unsettled) = {} /\ InStates(holder, member', {b}, {"ACCEPTED"}) = A
      BY <2>2 DEF InStates, Unsettled, Of
    <3> QED BY <2>3, <3>1, <3>2, FS_EmptySet
  <2>6. BatchOK(b)'
    <3>1. \A r \in Of(b) : member'[r] \in {"ACCEPTED", "PERMANENT_FAILED"}
      BY <2>2
    <3>2. batch'[b].day = D /\ D \in Days
      BY <1>1 DEF OneBatch, ReviewTypeOK
    <3>3. ledger'[D].row = TRUE
      BY <2>8
    <3> QED BY <2>2, <3>1, <3>2, <3>3 DEF BatchOK
  <2>7. /\ D \in Days /\ batch[b].day = D /\ batch[b].status # "ABSENT" /\ batch'[b].status # "ABSENT"
        /\ batch'[b].day = D /\ ledger[D].reserved \in Nat /\ ledger[D].accepted \in Nat
        /\ \A x \in ReviewBatches : x # b => batch'[x] = batch[x]
        /\ \A r \in Members : r \notin Of(b) => member'[r] = member[r]
        /\ holder' = holder /\ stranded' = stranded
    BY <1>1 DEF OneBatch, ReviewTypeOK
  <2> HIDE DEF D, n, k
  <2>9. /\ ledger'[D].reserved = ledger[D].reserved + (0 - Own(batch', b)) - (n - Own(batch, b))
        /\ ledger'[D].accepted = ledger[D].accepted + k - 0
    BY <2>2, <2>3, <2>4, <2>7, <2>8
  <2> QED BY <1>1, <2>1, <2>3, <2>4, <2>5, <2>6, <2>7, <2>8, <2>9, StepOnBatch
<1> QED BY <1>1, <1>2 DEF ReviewInv

LEMMA FinishKeeps ==
  ASSUME ReviewInv, NEW b \in ReviewBatches, NEW A \in SUBSET Members, FinishBatch(b, A)
  PROVE  ReviewInv'
<1> DEFINE sent == OfIn(b, "SENDING")
           s == IF A = sent THEN "ACCEPTED" ELSE IF A = {} THEN "PERMANENT_FAILED" ELSE "PARTIAL"
<1>1. /\ ReviewTypeOK /\ batch[b].status = "SUBMITTING" /\ batch[b].released \in Nat
      /\ sent \in SUBSET Members /\ sent \subseteq Of(b) /\ A \subseteq sent
      /\ SettleDay(b, Cardinality(sent), Cardinality(A)) /\ BatchTurns(b, s)
      /\ member' = [r \in Members |-> IF r \in A THEN "ACCEPTED"
                                      ELSE IF r \in sent THEN "PERMANENT_FAILED" ELSE member[r]]
      /\ UNCHANGED <<holder, today, stranded, tainted>>
  BY DEF ReviewInv, FinishBatch, ReviewTypeOK, OfIn, Of
<1>2. s \in {"ACCEPTED", "PARTIAL", "PERMANENT_FAILED"}
  OBVIOUS
<1>3. \A r : r \in sent <=> r \in Of(b) /\ member[r] = "SENDING"
  BY DEF OfIn
<1>4. Cardinality(sent) \in Nat /\ Cardinality(A) \in Nat /\ Cardinality(A) <= Cardinality(sent)
  <2>1. IsFiniteSet(sent)
    BY <1>1, ReviewAssumption, FS_Subset DEF ReviewAssumption
  <2> QED BY <1>1, <2>1, FS_Subset, FS_CardinalityType
<1> HIDE DEF s
<1>5. /\ batch' \in [ReviewBatches -> BatchType] /\ \A x \in ReviewBatches : x # b => batch'[x] = batch[x]
      /\ batch'[b].status = s /\ batch'[b].day = batch[b].day /\ batch'[b].released = batch[b].released + 0
  <2>1. batch[b].released + 0 \in Nat
    BY <1>1
  <2> QED BY <1>1, <1>2, <2>1, BatchWrites
<1> HIDE DEF sent
<1>6. ledger' \in [Days -> DayType]
  BY <1>1, <1>4, SettleWrites
<1>7. member' \in [Members -> StatesOf]
  BY <1>1 DEF ReviewTypeOK, StatesOf
<1>8. /\ \A r \in Members : r \notin Of(b) => member'[r] = member[r]
      /\ \A r \in Of(b) : member[r] = "SENDING" => member'[r] = IF r \in A THEN "ACCEPTED" ELSE "PERMANENT_FAILED"
  <2>1. Of(b) \subseteq Members
    BY DEF Of
  <2> QED BY <1>1, <1>3, <2>1
<1>9. OneBatch(b)
  BY <1>1, <1>2, <1>5, <1>6, <1>7, <1>8 DEF OneBatch, ReviewTypeOK
<1>10. A \in SUBSET Of(b) /\ tainted' = tainted
  BY <1>1
<1> QED BY <1>1, <1>2, <1>5, <1>8, <1>9, <1>10, SettledKeeps DEF sent

LEMMA RefuseForGoodKeeps ==
  ASSUME ReviewInv, NEW b \in ReviewBatches, RefuseForGood(b)
  PROVE  ReviewInv'
<1>1. /\ ReviewTypeOK /\ batch[b].status = "SUBMITTING" /\ batch[b].released \in Nat
      /\ Of(b) \in SUBSET Members /\ OfIn(b, "SENDING") \in SUBSET Members
      /\ SettleDay(b, Cardinality(OfIn(b, "SENDING")), 0) /\ BatchTurns(b, "PERMANENT_FAILED")
      /\ Turn(Of(b), "PERMANENT_FAILED") /\ UNCHANGED <<holder, today, stranded, tainted>>
  BY DEF ReviewInv, RefuseForGood, ReviewTypeOK, OfIn, Of
<1>2. /\ batch' \in [ReviewBatches -> BatchType] /\ \A x \in ReviewBatches : x # b => batch'[x] = batch[x]
      /\ batch'[b].status = "PERMANENT_FAILED" /\ batch'[b].day = batch[b].day
      /\ batch'[b].released = batch[b].released + 0
  <2>1. batch[b].released + 0 \in Nat
    BY <1>1
  <2> QED BY <1>1, <2>1, BatchWrites
<1>3. /\ member' \in [Members -> StatesOf]
      /\ \A r \in Members : member'[r] = IF r \in Of(b) THEN "PERMANENT_FAILED" ELSE member[r]
  BY <1>1, TurnWrites DEF StatesOf
<1>4. Cardinality(OfIn(b, "SENDING")) \in Nat /\ Cardinality(OfIn(b, "SENDING")) >= 0
  BY <1>1, ReviewAssumption, FS_Subset, FS_CardinalityType DEF ReviewAssumption
<1>5. ledger' \in [Days -> DayType]
  BY <1>1, <1>4, SettleWrites
<1>6. OneBatch(b)
  BY <1>1, <1>2, <1>3, <1>5 DEF OneBatch, ReviewTypeOK
<1> DEFINE A == {}
<1>7. /\ A \in SUBSET Of(b) /\ Cardinality(A) = 0 /\ tainted' = tainted
      /\ \A r \in Of(b) : member[r] = "SENDING" => member'[r] = IF r \in A THEN "ACCEPTED" ELSE "PERMANENT_FAILED"
  BY <1>1, <1>3, FS_EmptySet
<1> HIDE DEF A
<1> QED BY <1>1, <1>2, <1>6, <1>7, SettledKeeps

\* A batch in review: what it holds, and what of that was released.
LEMMA HeldInReview ==
  ASSUME ReviewTypeOK, NEW b \in ReviewBatches, batch[b].status = "MANUAL_REVIEW"
  PROVE  /\ batch[b].released \in Nat /\ batch[b].day \in Days /\ Own(batch, b) = batch[b].released
         /\ IsFiniteSet(InReview(b)) /\ Cardinality(InReview(b)) \in Nat
         /\ InReview(b) \in SUBSET Members /\ InReview(b) \subseteq Of(b)
         /\ Reconciled =>
              /\ batch[b].released <= Cardinality(InReview(b))
              /\ \A r \in Of(b) : r \notin InReview(b) => member[r] = "ACCEPTED"
              /\ InStates(holder, member, {b}, Unsettled) = InReview(b)
              /\ InStates(holder, member, {b}, {"ACCEPTED"}) = Of(b) \ InReview(b)
<1>1. batch[b].released \in Nat /\ batch[b].day \in Days /\ Own(batch, b) = batch[b].released
  BY DEF ReviewTypeOK, Own
<1>2. InReview(b) \in SUBSET Members /\ InReview(b) \subseteq Of(b)
  BY DEF InReview, OfIn, Of
<1>3. IsFiniteSet(InReview(b)) /\ Cardinality(InReview(b)) \in Nat
  BY <1>2, ReviewAssumption, FS_Subset, FS_CardinalityType DEF ReviewAssumption
<1>4. ASSUME Reconciled
      PROVE  /\ batch[b].released <= Cardinality(InReview(b))
             /\ \A r \in Of(b) : r \notin InReview(b) => member[r] = "ACCEPTED"
             /\ InStates(holder, member, {b}, Unsettled) = InReview(b)
             /\ InStates(holder, member, {b}, {"ACCEPTED"}) = Of(b) \ InReview(b)
  <2>1. /\ \A r \in Of(b) : member[r] \in {"MANUAL_REVIEW", "ACCEPTED"}
        /\ batch[b].released <= Cardinality(InReview(b))
    BY <1>4 DEF Reconciled, BatchesOK, BatchOK
  <2>2. \A r \in Of(b) : r \notin InReview(b) => member[r] = "ACCEPTED"
    BY <2>1 DEF InReview, OfIn
  <2>3. InStates(holder, member, {b}, Unsettled) = InReview(b) /\ InStates(holder, member, {b}, {"ACCEPTED"}) = Of(b) \ InReview(b)
    BY <2>1 DEF InStates, Unsettled, InReview, OfIn, Of
  <2> QED BY <2>1, <2>2, <2>3
<1> QED BY <1>1, <1>2, <1>3, <1>4

\* A resolution gives the row of the batch's day the difference it makes.
Accounted(b) ==
  /\ BatchOK(b)'
  /\ \E D, p : \E q, a, c \in Nat :
       /\ D = batch[b].day /\ p = Cardinality(InReview(b))
       /\ Cardinality(InStates(holder, member', {b}, Unsettled)) = q
       /\ Cardinality(InStates(holder, member, {b}, {"ACCEPTED"})) = a
       /\ Cardinality(InStates(holder, member', {b}, {"ACCEPTED"})) = c
       /\ ledger'[D].reserved = ledger[D].reserved + (q - Own(batch', b)) - (p - batch[b].released)
       /\ ledger'[D].accepted = ledger[D].accepted + c - a

\* A resolution: while the sender has no row of another day, the row it
\* writes is the one of the batch.
LEMMA ResolutionKeeps ==
  ASSUME ReviewInv, NEW b \in ReviewBatches, OneBatch(b), batch[b].status = "MANUAL_REVIEW",
         tainted' = (tainted \/ OtherDays(b)),
         \A d \in Days : ledger'[d].row = ledger[d].row,
         \A d \in Days : ledger[d].row = FALSE /\ ledger[d].reserved = 0 => ledger'[d] = ledger[d],
         Reconciled => Accounted(b)
  PROVE  ReviewInv'
<1>1. ReviewTypeOK /\ ReviewTypeOK'
  BY OneBatchType DEF ReviewInv
<1>2. ASSUME ~tainted' PROVE Reconciled'
  <2>1. ~tainted /\ ~OtherDays(b)
    BY <1>2
  <2>2. Reconciled
    BY <2>1 DEF ReviewInv
  <2>3. PICK D, p : \E q, a, c \in Nat :
          /\ D = batch[b].day /\ p = Cardinality(InReview(b))
          /\ Cardinality(InStates(holder, member', {b}, Unsettled)) = q
          /\ Cardinality(InStates(holder, member, {b}, {"ACCEPTED"})) = a
          /\ Cardinality(InStates(holder, member', {b}, {"ACCEPTED"})) = c
          /\ ledger'[D].reserved = ledger[D].reserved + (q - Own(batch', b)) - (p - batch[b].released)
          /\ ledger'[D].accepted = ledger[D].accepted + c - a
    BY <2>2 DEF Accounted
  <2>4. D = batch[b].day /\ p = Cardinality(InReview(b))
    BY <2>3
  <2>5. PICK q \in Nat, a \in Nat, c \in Nat :
          /\ Cardinality(InStates(holder, member', {b}, Unsettled)) = q
          /\ Cardinality(InStates(holder, member, {b}, {"ACCEPTED"})) = a
          /\ Cardinality(InStates(holder, member', {b}, {"ACCEPTED"})) = c
          /\ ledger'[D].reserved = ledger[D].reserved + (q - Own(batch', b)) - (p - batch[b].released)
          /\ ledger'[D].accepted = ledger[D].accepted + c - a
    BY <2>3
  <2>6. BatchOK(b)'
    BY <2>2 DEF Accounted
  <2>7. /\ D \in Days /\ p \in Nat /\ Own(batch, b) = batch[b].released
        /\ Cardinality(InStates(holder, member, {b}, Unsettled)) = p
    BY <1>1, <2>2, <2>4, HeldInReview
  <2>8. /\ batch[b].status # "ABSENT" /\ batch'[b].status # "ABSENT" /\ batch'[b].day = D
        /\ \A x \in ReviewBatches : x # b => batch'[x] = batch[x]
        /\ \A r \in Members : r \notin Of(b) => member'[r] = member[r]
        /\ holder' = holder /\ stranded' = stranded
    BY <2>4 DEF OneBatch
  <2>9. ledger[D].row = TRUE
    BY <1>1, <2>2, <2>8, <2>4, EnoughReserved
  <2>10. \A d \in Days : d # D => ledger'[d] = ledger[d]
    <3> SUFFICES ASSUME NEW d \in Days, d # D PROVE ledger'[d] = ledger[d]
      OBVIOUS
    <3>1. ~ledger[d].row
      BY <2>1, <2>4 DEF OtherDays
    <3>2. ledger[d].row \in BOOLEAN
      BY <1>1 DEF ReviewTypeOK
    <3>3. ledger[d].row = FALSE
      BY <3>1, <3>2
    <3> QED BY <2>2, <3>3 DEF Reconciled, RowsThere
  <2>11. ledger'[D].row = TRUE
    BY <2>7, <2>9
  <2>12. ledger'[D].reserved = ledger[D].reserved + (q - Own(batch', b)) - (p - Own(batch, b))
    BY <2>7, <2>4, <2>5
  <2>13. /\ batch[b].day = D /\ ledger'[D].accepted = ledger[D].accepted + c - a
         /\ Cardinality(InStates(holder, member, {b}, Unsettled)) = p
         /\ Cardinality(InStates(holder, member', {b}, Unsettled)) = q
         /\ Cardinality(InStates(holder, member, {b}, {"ACCEPTED"})) = a
         /\ Cardinality(InStates(holder, member', {b}, {"ACCEPTED"})) = c
    BY <2>7, <2>4, <2>5
  <2>14. D \in Days /\ p \in Nat /\ q \in Nat /\ a \in Nat /\ c \in Nat
    BY <2>7
  <2> QED BY <1>1, <2>2, <2>6, <2>8, <2>10, <2>11, <2>12, <2>13, <2>14, StepOnBatch
<1> QED BY <1>1, <1>2 DEF ReviewInv

LEMMA ReleaseQuotaKeeps ==
  ASSUME ReviewInv, NEW b \in ReviewBatches, ReleaseQuota(b)
  PROVE  ReviewInv'
<1> PICK D, n, k : D = batch[b].day /\ n = Cardinality(InReview(b)) /\ k = Releasable(b)
  OBVIOUS
<1>1. /\ ReviewTypeOK /\ batch[b].status = "MANUAL_REVIEW" /\ batch[b].reviews < MaxResolutions
      /\ Release(k) /\ Resolves(b, "MANUAL_REVIEW", k) /\ tainted' = (tainted \/ OtherDays(b))
      /\ UNCHANGED <<member, holder, today, stranded>>
  BY DEF ReviewInv, ReleaseQuota, Reviewing
<1>2. /\ batch[b].released \in Nat /\ D \in Days /\ n \in Nat /\ Own(batch, b) = batch[b].released
      /\ Reconciled => batch[b].released <= n /\ InStates(holder, member, {b}, Unsettled) = InReview(b)
  BY <1>1, HeldInReview
<1>3. k \in Nat /\ batch[b].released + k \in Nat
  BY <1>2 DEF Releasable, Floor
<1>4. /\ batch' \in [ReviewBatches -> BatchType] /\ \A x \in ReviewBatches : x # b => batch'[x] = batch[x]
      /\ batch'[b].status = "MANUAL_REVIEW" /\ batch'[b].day = batch[b].day
      /\ batch'[b].released = batch[b].released + k
  BY <1>1, <1>3, BatchWrites
<1>5. /\ ledger' \in [Days -> DayType]
      /\ \A d \in Days : /\ ledger'[d].row = ledger[d].row /\ ledger'[d].accepted = ledger[d].accepted
                         /\ ledger[d].reserved >= k => ledger'[d].reserved = ledger[d].reserved - k
                         /\ ledger[d].reserved = 0 => ledger'[d] = ledger[d]
  BY <1>1, <1>3, ReleaseWrites
<1>6. OneBatch(b)
  <2>1. tainted' \in BOOLEAN
    BY <1>1
  <2> QED BY <1>1, <1>4, <1>5, <2>1 DEF OneBatch, ReviewTypeOK, StatesOf
<1>7. ASSUME Reconciled
      PROVE  Accounted(b)
  <2>1. /\ batch[b].released <= n /\ BatchOK(b) /\ ledger[D].row = TRUE
        /\ Cardinality(InStates(holder, member, {b}, Unsettled)) = n
    BY <1>2, <1>7, <1>1 DEF Reconciled, BatchesOK, BatchOK
  <2>2. k = n - batch[b].released
    BY <1>2, <2>1 DEF Releasable, Floor
  <2>3. batch'[b].released = n
    BY <1>2, <1>4, <2>2
  <2>4. InReview(b)' = InReview(b) /\ Of(b)' = Of(b)
    BY <1>1 DEF InReview, OfIn, Of
  <2>5. BatchOK(b)'
    <3>1. ledger'[batch'[b].day].row = TRUE
      BY <1>2, <1>4, <1>5, <2>1
    <3>2. batch'[b].released <= Cardinality(InReview(b)')
      BY <1>2, <2>3, <2>4
    <3> QED BY <1>1, <1>4, <2>1, <2>4, <3>1, <3>2 DEF BatchOK
  <2> PICK a : a = Cardinality(InStates(holder, member, {b}, {"ACCEPTED"}))
    OBVIOUS
  <2>6. a \in Nat
    BY StatesSize
  <2>7. ledger[D].reserved >= n - batch[b].released /\ ledger[D].reserved \in Nat /\ ledger[D].accepted \in Nat
    <3>1. /\ ledger[batch[b].day].reserved >= Cardinality(InStates(holder, member, {b}, Unsettled)) - Own(batch, b)
      BY <1>1, <1>7, EnoughReserved
    <3>2. ledger[D].reserved \in Nat /\ ledger[D].accepted \in Nat
      BY <1>1, <1>2 DEF ReviewTypeOK
    <3> QED BY <1>2, <2>1, <3>1, <3>2
  <2>8. ledger'[D].reserved = ledger[D].reserved - k /\ ledger'[D].accepted = ledger[D].accepted
    BY <1>2, <1>5, <2>2, <2>7
  <2>9. Own(batch', b) = n
    BY <1>4, <2>3 DEF Own
  <2>10. /\ ledger'[D].reserved = ledger[D].reserved + (n - Own(batch', b)) - (n - batch[b].released)
         /\ ledger'[D].accepted = ledger[D].accepted + a - a
    BY <1>2, <2>2, <2>6, <2>7, <2>8, <2>9
  <2> QED BY <1>1, <1>2, <2>1, <2>5, <2>6, <2>10 DEF Accounted
<1> QED BY <1>1, <1>5, <1>6, <1>7, ResolutionKeeps

LEMMA MarkNotSentKeeps ==
  ASSUME ReviewInv, NEW b \in ReviewBatches, MarkNotSent(b)
  PROVE  ReviewInv'
<1> PICK D, n, k, S : /\ D = batch[b].day /\ n = Cardinality(InReview(b)) /\ k = Releasable(b)
                      /\ S = InReview(b)
  OBVIOUS
<1>1. /\ ReviewTypeOK /\ batch[b].status = "MANUAL_REVIEW" /\ batch[b].reviews < MaxResolutions
      /\ Release(k) /\ Resolves(b, "PERMANENT_FAILED", k) /\ tainted' = (tainted \/ OtherDays(b))
      /\ Turn(S, "PERMANENT_FAILED") /\ UNCHANGED <<holder, today, stranded>>
  BY DEF ReviewInv, MarkNotSent, Reviewing
<1>2. /\ batch[b].released \in Nat /\ D \in Days /\ n \in Nat /\ Own(batch, b) = batch[b].released
      /\ S \in SUBSET Members /\ S \subseteq Of(b)
      /\ Reconciled => /\ batch[b].released <= n /\ InStates(holder, member, {b}, Unsettled) = S
                       /\ InStates(holder, member, {b}, {"ACCEPTED"}) = Of(b) \ S
                       /\ \A r \in Of(b) : r \notin S => member[r] = "ACCEPTED"
  BY <1>1, HeldInReview
<1>3. k \in Nat /\ batch[b].released + k \in Nat
  BY <1>2 DEF Releasable, Floor
<1>4. /\ batch' \in [ReviewBatches -> BatchType] /\ \A x \in ReviewBatches : x # b => batch'[x] = batch[x]
      /\ batch'[b].status = "PERMANENT_FAILED" /\ batch'[b].day = batch[b].day
      /\ batch'[b].released = batch[b].released + k
  BY <1>1, <1>3, BatchWrites
<1>5. /\ ledger' \in [Days -> DayType]
      /\ \A d \in Days : /\ ledger'[d].row = ledger[d].row /\ ledger'[d].accepted = ledger[d].accepted
                         /\ ledger[d].reserved >= k => ledger'[d].reserved = ledger[d].reserved - k
                         /\ ledger[d].reserved = 0 => ledger'[d] = ledger[d]
  BY <1>1, <1>3, ReleaseWrites
<1>6. /\ member' \in [Members -> StatesOf]
      /\ \A r \in Members : member'[r] = IF r \in S THEN "PERMANENT_FAILED" ELSE member[r]
  BY <1>1, <1>2, TurnWrites DEF StatesOf
<1>7. OneBatch(b)
  <2>1. tainted' \in BOOLEAN
    BY <1>1
  <2> QED BY <1>1, <1>2, <1>4, <1>5, <1>6, <2>1 DEF OneBatch, ReviewTypeOK
<1>8. ASSUME Reconciled
      PROVE  Accounted(b)
  <2>1. /\ batch[b].released <= n /\ ledger[D].row = TRUE
        /\ Cardinality(InStates(holder, member, {b}, Unsettled)) = n
        /\ \A r \in Of(b) : r \notin S => member[r] = "ACCEPTED"
    BY <1>2, <1>8, <1>1 DEF Reconciled, BatchesOK, BatchOK
  <2>2. k = n - batch[b].released
    BY <1>2, <2>1 DEF Releasable, Floor
  <2>3. /\ Of(b)' = Of(b) /\ Of(b) \subseteq Members
        /\ \A r \in Of(b) : member'[r] = IF r \in S THEN "PERMANENT_FAILED" ELSE "ACCEPTED"
    BY <1>1, <1>6, <2>1 DEF Of
  <2>4. /\ InStates(holder, member', {b}, Unsettled) = {}
        /\ InStates(holder, member', {b}, {"ACCEPTED"}) = InStates(holder, member, {b}, {"ACCEPTED"})
    <3>1. InStates(holder, member', {b}, Unsettled) = {} /\ InStates(holder, member', {b}, {"ACCEPTED"}) = Of(b) \ S
      BY <2>3 DEF InStates, Unsettled, Of
    <3> QED BY <1>2, <1>8, <3>1
  <2>5. BatchOK(b)'
    <3>1. ledger'[batch'[b].day].row = TRUE
      BY <1>2, <1>4, <1>5, <2>1
    <3>2. \A r \in Of(b) : member'[r] \in {"ACCEPTED", "PERMANENT_FAILED"}
      BY <2>3
    <3> QED BY <1>4, <2>3, <3>1, <3>2 DEF BatchOK
  <2> PICK a : a = Cardinality(InStates(holder, member, {b}, {"ACCEPTED"}))
    OBVIOUS
  <2>6. /\ a \in Nat /\ Cardinality(InStates(holder, member', {b}, Unsettled)) = 0
        /\ Cardinality(InStates(holder, member', {b}, {"ACCEPTED"})) = a
    BY <2>4, StatesSize, FS_EmptySet
  <2>7. ledger[D].reserved >= n - batch[b].released /\ ledger[D].reserved \in Nat /\ ledger[D].accepted \in Nat
    <3>1. ledger[batch[b].day].reserved >= Cardinality(InStates(holder, member, {b}, Unsettled)) - Own(batch, b)
      BY <1>1, <1>8, EnoughReserved
    <3>2. ledger[D].reserved \in Nat /\ ledger[D].accepted \in Nat
      BY <1>1, <1>2 DEF ReviewTypeOK
    <3> QED BY <1>2, <2>1, <3>1, <3>2
  <2>8. ledger'[D].reserved = ledger[D].reserved - k /\ ledger'[D].accepted = ledger[D].accepted
    BY <1>2, <1>5, <2>2, <2>7
  <2>9. Own(batch', b) = 0
    BY <1>4 DEF Own
  <2>10. /\ ledger'[D].reserved = ledger[D].reserved + (0 - Own(batch', b)) - (n - batch[b].released)
         /\ ledger'[D].accepted = ledger[D].accepted + a - a
    BY <1>2, <2>2, <2>6, <2>7, <2>8, <2>9
  <2> QED BY <1>2, <2>5, <2>6, <2>10 DEF Accounted
<1> QED BY <1>1, <1>5, <1>7, <1>8, ResolutionKeeps

LEMMA MarkAcceptedKeeps ==
  ASSUME ReviewInv, NEW b \in ReviewBatches, MarkAccepted(b)
  PROVE  ReviewInv'
<1> PICK D, n, k, S : /\ D = batch[b].day /\ n = Cardinality(InReview(b)) /\ k = AcceptedFromReleased(b, n)
                      /\ S = InReview(b)
  OBVIOUS
<1>1. /\ ReviewTypeOK /\ batch[b].status = "MANUAL_REVIEW" /\ batch[b].reviews < MaxResolutions
      /\ Accept(n - k, k) /\ Resolves(b, "ACCEPTED", 0 - k) /\ tainted' = (tainted \/ OtherDays(b))
      /\ Turn(S, "ACCEPTED") /\ UNCHANGED <<holder, today, stranded>>
  BY DEF ReviewInv, MarkAccepted, Reviewing
<1>2. /\ batch[b].released \in Nat /\ D \in Days /\ n \in Nat /\ Own(batch, b) = batch[b].released
      /\ S \in SUBSET Members /\ S \subseteq Of(b) /\ IsFiniteSet(S)
      /\ Reconciled => /\ batch[b].released <= n /\ InStates(holder, member, {b}, Unsettled) = S
                       /\ InStates(holder, member, {b}, {"ACCEPTED"}) = Of(b) \ S
                       /\ \A r \in Of(b) : r \notin S => member[r] = "ACCEPTED"
  BY <1>1, HeldInReview
<1>3. k \in Nat /\ n - k \in Nat /\ 0 - k \in Int /\ batch[b].released + (0 - k) \in Nat
  BY <1>2 DEF AcceptedFromReleased
<1>4. /\ batch' \in [ReviewBatches -> BatchType] /\ \A x \in ReviewBatches : x # b => batch'[x] = batch[x]
      /\ batch'[b].status = "ACCEPTED" /\ batch'[b].day = batch[b].day
      /\ batch'[b].released = batch[b].released + (0 - k)
  BY <1>1, <1>3, BatchWrites
<1>5. /\ ledger' \in [Days -> DayType]
      /\ \A d \in Days :
           /\ ledger'[d].row = ledger[d].row
           /\ ledger[d].row = TRUE =>
                /\ ledger'[d].accepted = ledger[d].accepted + (n - k) + k
                /\ ledger[d].reserved >= n - k => ledger'[d].reserved = ledger[d].reserved - (n - k)
           /\ ledger[d].row = FALSE => ledger'[d] = ledger[d]
  <2> PICK j : j = n - k
    OBVIOUS
  <2>1. j \in Nat /\ Accept(j, k)
    BY <1>1, <1>3
  <2>2. /\ ledger' \in [Days -> DayType]
        /\ \A d \in Days :
             /\ ledger'[d].row = ledger[d].row
             /\ ledger[d].row = TRUE =>
                  /\ ledger'[d].accepted = ledger[d].accepted + j + k
                  /\ ledger[d].reserved >= j => ledger'[d].reserved = ledger[d].reserved - j
             /\ ledger[d].row = FALSE => ledger'[d] = ledger[d]
    BY <1>1, <1>3, <2>1, AcceptWrites
  <2> QED BY <2>2
<1>6. /\ member' \in [Members -> StatesOf]
      /\ \A r \in Members : member'[r] = IF r \in S THEN "ACCEPTED" ELSE member[r]
  BY <1>1, <1>2, TurnWrites DEF StatesOf
<1>7. OneBatch(b)
  <2>1. tainted' \in BOOLEAN
    BY <1>1
  <2> QED BY <1>1, <1>2, <1>4, <1>5, <1>6, <2>1 DEF OneBatch, ReviewTypeOK
<1>8. ASSUME Reconciled
      PROVE  Accounted(b)
  <2>1. /\ batch[b].released <= n /\ ledger[D].row = TRUE
        /\ Cardinality(InStates(holder, member, {b}, Unsettled)) = n
        /\ \A r \in Of(b) : r \notin S => member[r] = "ACCEPTED"
    BY <1>2, <1>8, <1>1 DEF Reconciled, BatchesOK, BatchOK
  <2>2. k = batch[b].released
    BY <1>2, <2>1 DEF AcceptedFromReleased
  <2>3. /\ Of(b)' = Of(b) /\ Of(b) \subseteq Members
        /\ \A r \in Of(b) : member'[r] = "ACCEPTED"
    BY <1>1, <1>6, <2>1 DEF Of
  <2> PICK a : a = Cardinality(InStates(holder, member, {b}, {"ACCEPTED"}))
    OBVIOUS
  <2>4. a \in Nat
    BY StatesSize
  <2>5. /\ Cardinality(InStates(holder, member', {b}, Unsettled)) = 0
        /\ Cardinality(InStates(holder, member', {b}, {"ACCEPTED"})) = a + n
    <3>1. InStates(holder, member', {b}, Unsettled) = {}
      BY <2>3 DEF InStates, Unsettled, Of
    <3>2. InStates(holder, member', {b}, {"ACCEPTED"}) = Of(b)
      BY <2>3 DEF InStates, Of
    <3> DEFINE T == InStates(holder, member, {b}, {"ACCEPTED"})
    <3>3. T = Of(b) \ S /\ IsFiniteSet(T) /\ Cardinality(T) = a
      BY <1>2, <1>8, StatesSize
    <3> HIDE DEF T
    <3>4. T \cup S = Of(b) /\ T \cap S = {}
      BY <1>2, <3>3
    <3>5. Cardinality(T \cup S) = Cardinality(T) + Cardinality(S) - Cardinality(T \cap S)
      BY <1>2, <3>3, FS_Union
    <3>6. Cardinality(T \cap S) = 0 /\ Cardinality(S) = n
      BY <3>4, FS_EmptySet
    <3> PICK u, v : u = Cardinality(T \cup S) /\ v = Cardinality(T \cap S)
      OBVIOUS
    <3>7. u = a + n - v /\ v = 0
      BY <3>3, <3>5, <3>6
    <3>8. u = a + n
      BY <1>2, <2>4, <3>7
    <3>9. Cardinality(Of(b)) = u
      BY <3>4
    <3> QED BY <3>1, <3>2, <3>8, <3>9, FS_EmptySet
  <2>6. BatchOK(b)'
    <3>1. ledger'[batch'[b].day].row = TRUE
      BY <1>2, <1>4, <1>5, <2>1
    <3>2. \A r \in Of(b) : member'[r] \in {"ACCEPTED", "PERMANENT_FAILED"}
      BY <2>3
    <3> QED BY <1>4, <2>3, <3>1, <3>2 DEF BatchOK
  <2>7. ledger[D].reserved >= n - batch[b].released /\ ledger[D].reserved \in Nat /\ ledger[D].accepted \in Nat
    <3>1. ledger[batch[b].day].reserved >= Cardinality(InStates(holder, member, {b}, Unsettled)) - Own(batch, b)
      BY <1>1, <1>8, EnoughReserved
    <3>2. ledger[D].reserved \in Nat /\ ledger[D].accepted \in Nat
      BY <1>1, <1>2 DEF ReviewTypeOK
    <3> QED BY <1>2, <2>1, <3>1, <3>2
  <2>8. /\ ledger'[D].reserved = ledger[D].reserved - (n - k)
        /\ ledger'[D].accepted = ledger[D].accepted + (n - k) + k
    <3>1. ledger[D].reserved >= n - k
      BY <2>2, <2>7
    <3> QED BY <1>2, <1>5, <2>1, <3>1
  <2>9. Own(batch', b) = 0
    BY <1>4 DEF Own
  <2>10. /\ ledger'[D].reserved = ledger[D].reserved + (0 - Own(batch', b)) - (n - batch[b].released)
         /\ ledger'[D].accepted = ledger[D].accepted + (a + n) - a /\ a + n \in Nat
    BY <1>2, <1>3, <2>2, <2>4, <2>7, <2>8, <2>9
  <2> QED BY <1>2, <2>4, <2>5, <2>6, <2>10 DEF Accounted
<1>9. \A d \in Days : ledger'[d].row = ledger[d].row /\ (ledger[d].row = FALSE => ledger'[d] = ledger[d])
  BY <1>5
<1> QED BY <1>1, <1>7, <1>8, <1>9, ResolutionKeeps

LEMMA AttachKeeps ==
  ASSUME ReviewInv, NEW b \in ReviewBatches, NEW r \in Members, AttachProviderId(b, r)
  PROVE  ReviewInv'
<1> PICK D, n, k, S, status :
      /\ D = batch[b].day /\ n = Cardinality(InReview(b)) /\ k = AcceptedFromReleased(b, 1)
      /\ S = InReview(b) /\ status = IF S = {r} THEN "ACCEPTED" ELSE "MANUAL_REVIEW"
  OBVIOUS
<1>1. /\ ReviewTypeOK /\ batch[b].status = "MANUAL_REVIEW" /\ batch[b].reviews < MaxResolutions
      /\ r \in S
      /\ Accept(1 - k, k) /\ Resolves(b, status, 0 - k) /\ tainted' = (tainted \/ OtherDays(b))
      /\ Turn({r}, "ACCEPTED") /\ UNCHANGED <<holder, today, stranded>>
  BY DEF ReviewInv, AttachProviderId, Reviewing
<1>2. /\ batch[b].released \in Nat /\ D \in Days /\ n \in Nat /\ Own(batch, b) = batch[b].released
      /\ S \in SUBSET Members /\ S \subseteq Of(b) /\ IsFiniteSet(S) /\ r \in Of(b)
      /\ Reconciled => /\ batch[b].released <= n /\ InStates(holder, member, {b}, Unsettled) = S
                       /\ InStates(holder, member, {b}, {"ACCEPTED"}) = Of(b) \ S
                       /\ \A x \in Of(b) : x \notin S => member[x] = "ACCEPTED"
  BY <1>1, HeldInReview
<1>3. k \in Nat /\ 1 - k \in Nat /\ 0 - k \in Int /\ batch[b].released + (0 - k) \in Nat
  BY <1>2 DEF AcceptedFromReleased
<1>4. /\ batch' \in [ReviewBatches -> BatchType] /\ \A x \in ReviewBatches : x # b => batch'[x] = batch[x]
      /\ batch'[b].status = status /\ batch'[b].day = batch[b].day
      /\ batch'[b].released = batch[b].released + (0 - k)
  <2>1. status \in {"ACCEPTED", "MANUAL_REVIEW"}
    OBVIOUS
  <2> QED BY <1>1, <1>3, <2>1, BatchWrites
<1>5. /\ ledger' \in [Days -> DayType]
      /\ \A d \in Days :
           /\ ledger'[d].row = ledger[d].row
           /\ ledger[d].row = TRUE =>
                /\ ledger'[d].accepted = ledger[d].accepted + (1 - k) + k
                /\ ledger[d].reserved >= 1 - k => ledger'[d].reserved = ledger[d].reserved - (1 - k)
           /\ ledger[d].row = FALSE => ledger'[d] = ledger[d]
  <2> PICK j : j = 1 - k
    OBVIOUS
  <2>1. j \in Nat /\ Accept(j, k)
    BY <1>1, <1>3
  <2>2. /\ ledger' \in [Days -> DayType]
        /\ \A d \in Days :
             /\ ledger'[d].row = ledger[d].row
             /\ ledger[d].row = TRUE =>
                  /\ ledger'[d].accepted = ledger[d].accepted + j + k
                  /\ ledger[d].reserved >= j => ledger'[d].reserved = ledger[d].reserved - j
             /\ ledger[d].row = FALSE => ledger'[d] = ledger[d]
    BY <1>1, <1>3, <2>1, AcceptWrites
  <2> QED BY <2>2
<1>6. /\ member' \in [Members -> StatesOf]
      /\ \A x \in Members : member'[x] = IF x \in {r} THEN "ACCEPTED" ELSE member[x]
  <2>1. {r} \in SUBSET Members
    OBVIOUS
  <2> QED BY <1>1, <2>1, TurnWrites DEF StatesOf
<1>7. OneBatch(b)
  <2>1. tainted' \in BOOLEAN
    BY <1>1
  <2> QED BY <1>1, <1>2, <1>4, <1>5, <1>6, <2>1 DEF OneBatch, ReviewTypeOK
<1>8. ASSUME Reconciled
      PROVE  Accounted(b)
  <2>1. /\ batch[b].released <= n /\ ledger[D].row = TRUE
        /\ Cardinality(InStates(holder, member, {b}, Unsettled)) = n
        /\ \A x \in Of(b) : x \notin S => member[x] = "ACCEPTED"
        /\ \A x \in S : member[x] = "MANUAL_REVIEW"
    BY <1>2, <1>8, <1>1 DEF Reconciled, BatchesOK, BatchOK, InReview, OfIn
  <2>2. n >= 1 /\ Cardinality(S \ {r}) = n - 1 /\ (S = {r} => n = 1)
    <3>1. Cardinality(S \ {r}) = Cardinality(S) - 1 /\ IsFiniteSet(S \ {r})
      BY <1>1, <1>2, FS_RemoveElement
    <3>2. Cardinality(S \ {r}) \in Nat
      BY <3>1, FS_CardinalityType
    <3>3. S = {r} => Cardinality(S) = 1
      BY FS_Singleton
    <3> QED BY <1>2, <3>1, <3>2, <3>3
  <2>3. Of(b)' = Of(b) /\ Of(b) \subseteq Members
    BY <1>1 DEF Of
  <2> PICK a : a = Cardinality(InStates(holder, member, {b}, {"ACCEPTED"}))
    OBVIOUS
  <2>4. a \in Nat
    BY StatesSize
  <2>5. Cardinality(InStates(holder, member', {b}, Unsettled)) = n - 1
    <3>1. \A x \in Of(b) : x \in InStates(holder, member', {b}, Unsettled) <=> x \in S \ {r}
      BY <1>1, <1>6, <2>1, <2>3 DEF InStates, Unsettled, Of
    <3>2. InStates(holder, member', {b}, Unsettled) \subseteq Of(b)
      BY DEF InStates, Of
    <3>3. InStates(holder, member', {b}, Unsettled) = S \ {r}
      BY <1>2, <3>1, <3>2
    <3> QED BY <2>2, <3>3
  <2>6. Cardinality(InStates(holder, member', {b}, {"ACCEPTED"})) = a + 1
    <3> DEFINE T == InStates(holder, member, {b}, {"ACCEPTED"})
    <3>1. T = Of(b) \ S /\ IsFiniteSet(T)
      BY <1>2, <1>8, StatesSize
    <3>2. InStates(holder, member', {b}, {"ACCEPTED"}) = T \cup {r}
      BY <1>2, <1>6, <2>1, <2>3 DEF InStates, Of
    <3>3. r \notin T
      BY <1>1, <3>1
    <3> HIDE DEF T
    <3>4. Cardinality(T \cup {r}) = Cardinality(T) + 1
      BY <3>1, <3>3, FS_AddElement
    <3> QED BY <3>2, <3>4 DEF T
  <2>7. k = 0 => batch[b].released = 0
    BY <1>2 DEF AcceptedFromReleased
  <2>8. k <= 1 /\ k <= batch[b].released
    BY <1>2, <1>3
  <2>9. batch'[b].released = batch[b].released - k /\ batch[b].released - k <= n - 1
    BY <1>2, <1>3, <1>4, <2>1, <2>2, <2>7, <2>8
  <2>10. BatchOK(b)'
    <3>1. ledger'[batch'[b].day].row = TRUE
      BY <1>2, <1>4, <1>5, <2>1
    <3>2. \A x \in Of(b) : member'[x] = IF x \in S /\ x # r THEN "MANUAL_REVIEW" ELSE "ACCEPTED"
      BY <1>1, <1>6, <2>1, <2>3
    <3>3. InReview(b)' = S \ {r}
      BY <1>2, <2>3, <3>2 DEF InReview, OfIn
    <3>4. batch'[b].released <= Cardinality(InReview(b)')
      BY <2>2, <2>9, <3>3
    <3>5. status = "ACCEPTED" => \A x \in Of(b) : member'[x] = "ACCEPTED"
      BY <3>2
    <3> QED BY <1>4, <2>3, <3>1, <3>2, <3>4, <3>5 DEF BatchOK
  <2>11. ledger[D].reserved >= n - batch[b].released /\ ledger[D].reserved \in Nat /\ ledger[D].accepted \in Nat
    <3>1. ledger[batch[b].day].reserved >= Cardinality(InStates(holder, member, {b}, Unsettled)) - Own(batch, b)
      BY <1>1, <1>8, EnoughReserved
    <3>2. ledger[D].reserved \in Nat /\ ledger[D].accepted \in Nat
      BY <1>1, <1>2 DEF ReviewTypeOK
    <3> QED BY <1>2, <2>1, <3>1, <3>2
  <2>12. /\ ledger'[D].reserved = ledger[D].reserved - (1 - k)
         /\ ledger'[D].accepted = ledger[D].accepted + (1 - k) + k
    <3>1. ledger[D].reserved >= 1 - k
      <4>1. k = 0 => ledger[D].reserved >= n
        BY <1>2, <2>7, <2>11
      <4> QED BY <1>2, <1>3, <2>2, <2>8, <2>11, <4>1
    <3> QED BY <1>2, <1>5, <2>1, <3>1
  <2>13. Own(batch', b) = IF n = 1 THEN 0 ELSE batch[b].released - k
    <3>1. CASE S = {r}
      BY <1>4, <2>2, <3>1 DEF Own
    <3>2. CASE S # {r}
      <4>1. Own(batch', b) = batch[b].released - k
        BY <1>4, <2>9, <3>2 DEF Own
      <4>2. n = 1 => batch[b].released - k = 0
        BY <1>2, <1>3, <2>1, <2>7, <2>8
      <4> QED BY <4>1, <4>2
    <3> QED BY <3>1, <3>2
  <2>14. /\ ledger'[D].reserved = ledger[D].reserved + ((n - 1) - Own(batch', b)) - (n - batch[b].released)
         /\ ledger'[D].accepted = ledger[D].accepted + (a + 1) - a /\ a + 1 \in Nat /\ n - 1 \in Nat
    <3>1. n = 1 => batch[b].released = k
      BY <1>2, <1>3, <2>1, <2>7, <2>8
    <3>2. Own(batch', b) = batch[b].released - k
      BY <1>2, <1>3, <2>13, <3>1
    <3> QED BY <1>2, <1>3, <2>2, <2>4, <2>11, <2>12, <3>2, SMTT(30)
  <2> QED BY <1>2, <2>4, <2>5, <2>6, <2>10, <2>14 DEF Accounted
<1>9. \A d \in Days : ledger'[d].row = ledger[d].row /\ (ledger[d].row = FALSE => ledger'[d] = ledger[d])
  BY <1>5
<1> QED BY <1>1, <1>7, <1>8, <1>9, ResolutionKeeps

LEMMA ReviewStarts == ReviewInit => ReviewInv
<1> SUFFICES ASSUME ReviewInit PROVE ReviewInv
  OBVIOUS
<1>1. ReviewTypeOK
  <2>1. 1 \in Days /\ 0 \in 0 .. MaxResolutions
    BY ReviewAssumption DEF ReviewAssumption, Days
  <2> QED BY <2>1 DEF ReviewInit, ReviewTypeOK, NoBatch, NoRow
<1>2. BatchesOK /\ RowsThere
    <2>1. \A b \in ReviewBatches : Of(b) = {}
    BY ReviewAssumption DEF ReviewInit, Of, ReviewAssumption
  <2> QED BY <2>1 DEF ReviewInit, BatchesOK, BatchOK, RowsThere, NoBatch, NoRow
<1>3. ASSUME NEW d \in Days PROVE Balanced(d)
  <2>1. OnDay(d) = {}
    BY DEF OnDay, ReviewInit, NoBatch
  <2>2. /\ InStates(holder, member, OnDay(d), Unsettled) = {} /\ InStates(holder, member, OnDay(d), {"ACCEPTED"}) = {}
        /\ Slots(batch, OnDay(d)) = {}
    BY <2>1 DEF InStates, Slots
  <2>3. ledger[d].reserved = 0 /\ ledger[d].accepted = 0 /\ stranded[d] = 0
    BY DEF ReviewInit, NoRow
  <2> QED BY <2>2, <2>3, FS_EmptySet DEF Balanced
<1> QED BY <1>1, <1>2, <1>3 DEF ReviewInv, Reconciled

\* Midnight moves no recipient and no row.
LEMMA StillKeeps ==
  ASSUME ReviewInv, UNCHANGED <<batch, member, holder, ledger, stranded, tainted>>, today' \in Days
  PROVE  ReviewInv'
<1>1. ReviewTypeOK'
  BY DEF ReviewInv, ReviewTypeOK
<1>2. BatchesOK' = BatchesOK
  BY DEF BatchesOK, BatchOK, Of, InReview, OfIn
<1>3. RowsThere' = RowsThere
  BY DEF RowsThere
<1>4. \A d \in Days : Balanced(d)' = Balanced(d)
  BY DEF Balanced, OnDay
<1> QED BY <1>1, <1>2, <1>3, <1>4 DEF ReviewInv, Reconciled

LEMMA ReviewStep == ReviewInv /\ [ReviewNext]_reviewVars => ReviewInv'
<1> SUFFICES ASSUME ReviewInv, [ReviewNext]_reviewVars PROVE ReviewInv'
  OBVIOUS
<1>1. ASSUME NEW b \in ReviewBatches, LoseAnswer(b) \/ RefuseForNow(b) \/ RefuseForGood(b) \/ RetryBatch(b)
      PROVE  ReviewInv'
  BY <1>1, LoseAnswerKeeps, RefuseForGoodKeeps, RetryKeeps
<1>2. ASSUME NEW b \in ReviewBatches, NEW A \in SUBSET Members, FinishBatch(b, A) PROVE ReviewInv'
  BY <1>2, FinishKeeps
<1>3. ASSUME NEW b \in ReviewBatches, NEW S \in SUBSET Members, ReserveBatch(b, S) PROVE ReviewInv'
  BY <1>3, ReserveKeeps
<1>4. CASE Midnight
  <2>1. today' \in Days
    BY <1>4, ReviewAssumption DEF Midnight, ReviewInv, ReviewTypeOK, Days, ReviewAssumption
  <2> QED BY <1>4, <2>1, StillKeeps DEF Midnight
<1>5. ASSUME NEW b \in ReviewBatches,
             ReleaseQuota(b) \/ MarkNotSent(b) \/ MarkAccepted(b) \/ SafeRetry(b) \/ KeepInReview(b)
      PROVE  ReviewInv'
  BY <1>5, ReleaseQuotaKeeps, MarkNotSentKeeps, MarkAcceptedKeeps, SafeRetryKeeps, KeepInReviewKeeps
<1>6. ASSUME NEW b \in ReviewBatches, NEW r \in Members, AttachProviderId(b, r) PROVE ReviewInv'
  BY <1>6, AttachKeeps
<1>7. CASE UNCHANGED reviewVars
  BY <1>7, StillKeeps DEF reviewVars, ReviewInv, ReviewTypeOK
<1>8. CASE ReserveNothing
  BY <1>8, NothingKeeps
<1> QED BY <1>1, <1>2, <1>3, <1>4, <1>5, <1>6, <1>7, <1>8 DEF ReviewNext

LEMMA ReviewReconciles == ReviewInv => BooksBalance
<1> SUFFICES ASSUME ReviewInv, ~tainted, NEW d \in Days
             PROVE  /\ ledger[d].reserved = Cardinality(OnDayIn(d, {"SENDING", "TEMPORARY_FAILED", "MANUAL_REVIEW"}))
                                             - Cardinality(ReleasedInReview(d)) + stranded[d]
                    /\ ledger[d].accepted = Cardinality(OnDayIn(d, {"ACCEPTED"}))
  BY DEF BooksBalance
<1>1. Balanced(d)
  BY DEF ReviewInv, Reconciled
<1>2. /\ InStates(holder, member, OnDay(d), Unsettled) = OnDayIn(d, {"SENDING", "TEMPORARY_FAILED", "MANUAL_REVIEW"})
      /\ InStates(holder, member, OnDay(d), {"ACCEPTED"}) = OnDayIn(d, {"ACCEPTED"})
      /\ Slots(batch, OnDay(d)) = ReleasedInReview(d)
  BY DEF InStates, OnDayIn, Unsettled, Slots, ReleasedInReview
<1> QED BY <1>1, <1>2 DEF Balanced

\* Whatever operators do with batches in review, for any campaign, batches,
\* daily limit and number of resolutions: outside the two sequences set apart,
\* each day's sender_daily_usage row says what its recipients say, and holds
\* beyond that exactly what second reservations of a recipient left behind
\* (the UPDATEs of modules/delivery/manualReview.ts, of finishBatch and of
\* reserveCampaignRecipients).
THEOREM BooksReconcile == ReviewSpec => []BooksBalance
<1>1. ReviewSpec => []ReviewInv
  BY ReviewStarts, ReviewStep, PTL DEF ReviewSpec
<1> QED BY <1>1, ReviewReconciles, PTL

\* The batches, their recipients and the rows of the days keep their types:
\* no count of a day is ever below zero, however a batch is resolved.
THEOREM ReviewTypeCorrect == ReviewSpec => []ReviewTypeOK
<1>1. ReviewInv => ReviewTypeOK
  BY DEF ReviewInv
<1> QED BY <1>1, ReviewStarts, ReviewStep, PTL DEF ReviewSpec

-----------------------------------------------------------------------------
(* MCRecords: each of the ten components moves as it does alone, so that     *)
(* what is proved of each holds of the model in which they stand side by    *)
(* side.                                                                     *)

\* A step of the whole is a step of one of them.
LEMMA StepsApart ==
  RecordsNext =>
    \/ ReviewMoves /\ ReviewNext
    \/ ImportMoves /\ ImportNext
    \/ SyncMoves /\ SyncNext
    \/ EstateMoves /\ EstateNext
    \/ MediaMoves /\ MediaNext
    \/ MigrationMoves /\ MigrationNext
    \/ IdentityMoves /\ IdentityNext
    \/ ComposerMoves /\ ComposerNext
    \/ StatsMoves /\ StatsNext
    \/ PagingMoves /\ PagingNext
BY ZenonT(60) DEF RecordsNext, ReviewNext, ImportNext, SyncNext, EstateNext, MediaNext, MigrationNext,
   IdentityNext, ComposerNext, StatsNext, PagingNext

LEMMA ReviewAlone == [RecordsNext]_recordsVars => [ReviewNext]_reviewVars
BY StepsApart DEF recordsVars, ImportMoves, SyncMoves, EstateMoves, MediaMoves, MigrationMoves,
   IdentityMoves, ComposerMoves, StatsMoves, PagingMoves

LEMMA ImportAlone == [RecordsNext]_recordsVars => [ImportNext]_importVars
BY StepsApart DEF recordsVars, ReviewMoves, SyncMoves, EstateMoves, MediaMoves, MigrationMoves,
   IdentityMoves, ComposerMoves, StatsMoves, PagingMoves

LEMMA SyncAlone == [RecordsNext]_recordsVars => [SyncNext]_syncVars
BY StepsApart DEF recordsVars, ReviewMoves, ImportMoves, EstateMoves, MediaMoves, MigrationMoves,
   IdentityMoves, ComposerMoves, StatsMoves, PagingMoves

LEMMA EstateAlone == [RecordsNext]_recordsVars => [EstateNext]_estateVars
BY StepsApart DEF recordsVars, ReviewMoves, ImportMoves, SyncMoves, MediaMoves, MigrationMoves,
   IdentityMoves, ComposerMoves, StatsMoves, PagingMoves

LEMMA MediaAlone == [RecordsNext]_recordsVars => [MediaNext]_mediaVars
BY StepsApart DEF recordsVars, ReviewMoves, ImportMoves, SyncMoves, EstateMoves, MigrationMoves,
   IdentityMoves, ComposerMoves, StatsMoves, PagingMoves

LEMMA MigrationAlone == [RecordsNext]_recordsVars => [MigrationNext]_migrationVars
BY StepsApart DEF recordsVars, ReviewMoves, ImportMoves, SyncMoves, EstateMoves, MediaMoves,
   IdentityMoves, ComposerMoves, StatsMoves, PagingMoves

LEMMA IdentityAlone == [RecordsNext]_recordsVars => [IdentityNext]_identityVars
BY StepsApart DEF recordsVars, ReviewMoves, ImportMoves, SyncMoves, EstateMoves, MediaMoves,
   MigrationMoves, ComposerMoves, StatsMoves, PagingMoves

LEMMA ComposerAlone == [RecordsNext]_recordsVars => [ComposerNext]_composerVars
BY StepsApart DEF recordsVars, ReviewMoves, ImportMoves, SyncMoves, EstateMoves, MediaMoves,
   MigrationMoves, IdentityMoves, StatsMoves, PagingMoves

LEMMA StatsAlone == [RecordsNext]_recordsVars => [StatsNext]_statsVars
BY StepsApart DEF recordsVars, ReviewMoves, ImportMoves, SyncMoves, EstateMoves, MediaMoves,
   MigrationMoves, IdentityMoves, ComposerMoves, PagingMoves

LEMMA PagingAlone == [RecordsNext]_recordsVars => [PagingNext]_pagingVars
BY StepsApart DEF recordsVars, ReviewMoves, ImportMoves, SyncMoves, EstateMoves, MediaMoves,
   MigrationMoves, IdentityMoves, ComposerMoves, StatsMoves

\* Whichever of the ten components moves keeps the types of its rows, and with
\* them the bounds and keys the types state: no component's own theorem is lost
\* when they are checked side by side.
THEOREM RecordsTyped == RecordsSpec => []RecordsTypeOK
<1>1. RecordsSpec => []ReviewTypeOK
  <2>1. RecordsInit => ReviewInit
    BY DEF RecordsInit
  <2> QED BY <2>1, ReviewAlone, ReviewTypeCorrect, PTL DEF RecordsSpec, ReviewSpec
<1>2. RecordsSpec => []ImportTypeOK
  <2>1. RecordsInit => ImportInit
    BY DEF RecordsInit
  <2> QED BY <2>1, ImportAlone, ImportTypeCorrect, PTL DEF RecordsSpec, ImportSpec
<1>3. RecordsSpec => []SyncTypeOK
  <2>1. RecordsInit => SyncInit
    BY DEF RecordsInit
  <2> QED BY <2>1, SyncAlone, SyncTypeCorrect, PTL DEF RecordsSpec, SyncSpec
<1>4. RecordsSpec => []EstateTypeOK
  <2>1. RecordsInit => EstateInit
    BY DEF RecordsInit
  <2> QED BY <2>1, EstateAlone, EstateTypeCorrect, PTL DEF RecordsSpec, EstateSpec
<1>5. RecordsSpec => []MediaTypeOK
  <2>1. RecordsInit => MediaInit
    BY DEF RecordsInit
  <2> QED BY <2>1, MediaAlone, MediaTypeCorrect, PTL DEF RecordsSpec, MediaSpec
<1>6. RecordsSpec => []MigrationTypeOK
  <2>1. RecordsInit => MigrationInit
    BY DEF RecordsInit
  <2> QED BY <2>1, MigrationAlone, MigrationTypeCorrect, PTL DEF RecordsSpec, MigrationSpec
<1>7. RecordsSpec => []IdentityTypeOK
  <2>1. RecordsInit => IdentityInit
    BY DEF RecordsInit
  <2> QED BY <2>1, IdentityAlone, IdentityTypeCorrect, PTL DEF RecordsSpec, IdentitySpec
<1>8. RecordsSpec => []ComposerTypeOK
  <2>1. RecordsInit => ComposerInit
    BY DEF RecordsInit
  <2> QED BY <2>1, ComposerAlone, ComposerTypeCorrect, PTL DEF RecordsSpec, ComposerSpec
<1>9. RecordsSpec => []StatsTypeOK
  <2>1. RecordsInit => StatsInit
    BY DEF RecordsInit
  <2> QED BY <2>1, StatsAlone, StatsTypeCorrect, PTL DEF RecordsSpec, StatsSpec
<1>10. RecordsSpec => []PagingTypeOK
  <2>1. RecordsInit => PagingInit
    BY DEF RecordsInit
  <2> QED BY <2>1, PagingAlone, PagingTypeCorrect, PTL DEF RecordsSpec, PagingSpec
<1>11. ReviewTypeOK /\ ImportTypeOK /\ SyncTypeOK /\ EstateTypeOK /\ MediaTypeOK
       /\ MigrationTypeOK /\ IdentityTypeOK /\ ComposerTypeOK /\ StatsTypeOK /\ PagingTypeOK
       => RecordsTypeOK
  BY DEF RecordsTypeOK
<1> QED BY <1>1, <1>2, <1>3, <1>4, <1>5, <1>6, <1>7, <1>8, <1>9, <1>10, <1>11, PTL
=============================================================================
