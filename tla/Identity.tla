------------------------------- MODULE Identity -------------------------------
(***************************************************************************)
(* Whose row of the users table a request acts as: sign-in with an Entra    *)
(* identity (modules/auth/service.ts), signed requests of the Homix Portal  *)
(* (web/routes/homix.ts), user administration (web/routes/v2.ts) and the    *)
(* script that repairs a mapping by hand (scripts/link-homix-portal-user).  *)
(*                                                                         *)
(* Sign-in and administration are Serializable transactions and one action *)
(* each.  The portal's middleware and the script run at READ COMMITTED      *)
(* under an advisory lock of their agent, which nobody else takes: each is  *)
(* a read and, later, a write.                                              *)
(***************************************************************************)
EXTENDS Naturals, FiniteSets

CONSTANTS
  Accounts,      \* rows of the users table
  PortalAgents,  \* agents of the portal
  Identities,    \* Entra object ids
  Addresses,     \* e-mail addresses
  BootstrapMail, \* addresses of bootstrapAdminEmails
  AutoProvision, \* does the configuration create an account at first sign-in?
  Nil,           \* null
  MaxAdministration \* bound on what administrators do

\* email_normalized is an address, or "portal-agent:<id>" for a row the
\* portal created or took over.
LoginKeys == Addresses \cup PortalAgents
UserRows == [portalAgentId : PortalAgents \cup {Nil}, entraObjectId : Identities \cup {Nil},
             key : LoginKeys, role : {"ADMIN", "MARKETER"}, isActive : BOOLEAN]

ASSUME IdentityAssumption ==
  /\ BootstrapMail \subseteq Addresses /\ AutoProvision \in BOOLEAN
  /\ MaxAdministration \in Nat
  /\ PortalAgents \cap (Addresses \cup Identities) = {} /\ Addresses \cap Identities = {}
  /\ Nil \notin Accounts /\ Nil \notin PortalAgents /\ Nil \notin Identities /\ Nil \notin UserRows

VARIABLES
  users,          \* row of each account, Nil before it exists
  locked,         \* what the holder of each agent's lock has read
  actedAs,        \* history: who has acted as each account
  administration  \* what administrators have done so far

identityVars == <<users, locked, actedAs, administration>>

Unlocked == [by |-> "nobody"]
UserLocks == {Unlocked} \cup [by : {"portal", "script"}, account : Accounts \cup {Nil}, detach : BOOLEAN,
                          mail : Addresses \cup {Nil}]

IdentityTypeOK ==
  /\ users \in [Accounts -> UserRows \cup {Nil}]
  /\ locked \in [PortalAgents -> UserLocks]
  /\ actedAs \in [Accounts -> SUBSET (PortalAgents \cup Identities)]
  /\ administration \in 0 .. MaxAdministration
  /\ \A x, y \in {z \in Accounts : users[z] # Nil} : x # y =>
       /\ users[x].key # users[y].key
       /\ users[x].portalAgentId = Nil \/ users[x].portalAgentId # users[y].portalAgentId
       /\ users[x].entraObjectId = Nil \/ users[x].entraObjectId # users[y].entraObjectId

IdentityInit ==
  /\ users = [x \in Accounts |-> Nil]
  /\ locked = [a \in PortalAgents |-> Unlocked]
  /\ actedAs = [x \in Accounts |-> {}]
  /\ administration = 0

Registered == {x \in Accounts : users[x] # Nil}
WithKey(k) == {x \in Registered : users[x].key = k}
OfAgent(a) == {x \in Registered : users[x].portalAgentId = a}
OfIdentity(o) == {x \in Registered : users[x].entraObjectId = o}
Unused == CHOOSE x \in Accounts : x \notin Registered
NewRow(k, r) ==
  [portalAgentId |-> Nil, entraObjectId |-> Nil, key |-> k, role |-> r, isActive |-> TRUE]

ActsAs(who, x) == actedAs' = [actedAs EXCEPT ![x] = @ \cup {who}]

-----------------------------------------------------------------------------
(* Sign-in with an Entra identity and the address it carries. *)

\* resolveAzureUser of an identity seen before: its row takes the address on.
SignInKnown(o, m) ==
  \E x \in OfIdentity(o) :
    /\ users[x].portalAgentId = Nil /\ users[x].isActive
    /\ WithKey(m) \subseteq {x}
    /\ users' = [users EXCEPT ![x].key = m]
    /\ ActsAs(o, x)
    /\ UNCHANGED <<locked, administration>>

\* The first sign-in of an account an administrator has provisioned.
SignInLinks(o, m) ==
  /\ OfIdentity(o) = {}
  /\ \E x \in WithKey(m) :
       /\ users[x].portalAgentId = Nil /\ users[x].isActive /\ users[x].entraObjectId = Nil
       /\ users' = [users EXCEPT ![x].entraObjectId = o]
       /\ ActsAs(o, x)
  /\ UNCHANGED <<locked, administration>>

SignInCreates(o, m) ==
  /\ OfIdentity(o) = {} /\ WithKey(m) = {} /\ Registered # Accounts
  /\ m \in BootstrapMail \/ AutoProvision
  /\ users' = [users EXCEPT ![Unused] =
       [NewRow(m, IF m \in BootstrapMail THEN "ADMIN" ELSE "MARKETER") EXCEPT !.entraObjectId = o]]
  /\ ActsAs(o, Unused)
  /\ UNCHANGED <<locked, administration>>

-----------------------------------------------------------------------------
(* A signed request of the portal. *)

\* A disabled account is refused.  A mapping to an administrator or to an
\* Entra identity is to be detached.
PortalReadsKept(a) ==
  /\ locked[a] = Unlocked
  /\ \A x \in OfAgent(a) : users[x].isActive
  /\ locked' = [locked EXCEPT ![a] =
       [by |-> "portal",
        account |-> IF OfAgent(a) = {} THEN Nil ELSE CHOOSE x \in OfAgent(a) : TRUE,
        detach |-> \E x \in OfAgent(a) : users[x].role = "ADMIN",
        mail |-> Nil]]
  /\ UNCHANGED <<users, actedAs, administration>>
PortalReads(a) ==
  /\ locked[a] = Unlocked
  /\ \A x \in OfAgent(a) : users[x].isActive
  /\ locked' = [locked EXCEPT ![a] =
       [by |-> "portal",
        account |-> IF OfAgent(a) = {} THEN Nil ELSE CHOOSE x \in OfAgent(a) : TRUE,
        detach |-> \E x \in OfAgent(a) : users[x].entraObjectId # Nil \/ users[x].role = "ADMIN",
        mail |-> Nil]]
  /\ UNCHANGED <<users, actedAs, administration>>

Unlocks(a) == locked' = [locked EXCEPT ![a] = Unlocked]

\* The mapped row is renamed into the portal's namespace.
PortalUpdates(a) ==
  /\ locked[a].by = "portal" /\ locked[a].account # Nil /\ ~locked[a].detach
  /\ WithKey(a) \subseteq {locked[a].account}
  /\ users' = [users EXCEPT ![locked[a].account].key = a]
  /\ ActsAs(a, locked[a].account)
  /\ Unlocks(a) /\ UNCHANGED administration

\* A row of the portal's own, next to the one it detaches.
PortalCreates(a) ==
  /\ locked[a].by = "portal" /\ (locked[a].account = Nil \/ locked[a].detach)
  /\ WithKey(a) = {} /\ Registered # Accounts
  /\ users' = [x \in Accounts |->
       IF x = Unused THEN [NewRow(a, "MARKETER") EXCEPT !.portalAgentId = a]
       ELSE IF x = locked[a].account THEN [users[x] EXCEPT !.portalAgentId = Nil] ELSE users[x]]
  /\ ActsAs(a, Unused)
  /\ Unlocks(a) /\ UNCHANGED administration

\* The unique key of the row to write is taken, as it is by a row of the
\* agent's own that an administrator has made ADMIN: the request fails, and
\* with it the detaching.
PortalFails(a) ==
  /\ locked[a].by = "portal"
  /\ WithKey(a) \ {x \in {locked[a].account} : ~locked[a].detach} # {}
  /\ Unlocks(a) /\ UNCHANGED <<users, actedAs, administration>>

-----------------------------------------------------------------------------
(* Administration. *)

Administers ==
  /\ administration < MaxAdministration
  /\ administration' = administration + 1
  /\ UNCHANGED actedAs

ProvisionUser(m, r) ==
  /\ WithKey(m) = {} /\ Registered # Accounts
  /\ users' = [users EXCEPT ![Unused] = NewRow(m, r)]
  /\ Administers /\ UNCHANGED locked

\* PATCH /users/:id, on any row of the table.
ChangeUser(x, r, on) ==
  /\ x \in Registered
  /\ users' = [users EXCEPT ![x].role = r, ![x].isActive = on]
  /\ users' # users
  /\ Administers /\ UNCHANGED locked

\* The script checks what it read and writes under a WHERE of its own, which
\* does not ask for an Entra identity.
ScriptReads(a, x) ==
  /\ locked[a] = Unlocked
  /\ x \in Registered /\ users[x].isActive /\ users[x].key \in Addresses
  /\ users[x].portalAgentId = Nil /\ OfAgent(a) = {}
  /\ locked' = [locked EXCEPT ![a] = [by |-> "script", account |-> x, detach |-> FALSE,
                                     mail |-> users[x].key]]
  /\ Administers /\ UNCHANGED users
ScriptWrites(a) ==
  /\ locked[a].by = "script"
  /\ LET x == locked[a].account IN
       users' = IF users[x].portalAgentId = Nil /\ users[x].key = locked[a].mail /\ users[x].isActive
                THEN [users EXCEPT ![x].portalAgentId = a] ELSE users
  /\ Unlocks(a) /\ UNCHANGED <<actedAs, administration>>

-----------------------------------------------------------------------------
IdentityNext ==
  \/ \E o \in Identities, m \in Addresses : SignInKnown(o, m)
  \/ \E o \in Identities, m \in Addresses : SignInLinks(o, m)
  \/ \E o \in Identities, m \in Addresses : SignInCreates(o, m)
  \/ \E a \in PortalAgents : PortalReads(a)
  \/ \E a \in PortalAgents : PortalUpdates(a)
  \/ \E a \in PortalAgents : PortalCreates(a)
  \/ \E a \in PortalAgents : PortalFails(a)
  \/ \E m \in Addresses, r \in {"ADMIN", "MARKETER"} : ProvisionUser(m, r)
  \/ \E x \in Accounts, r \in {"ADMIN", "MARKETER"}, on \in BOOLEAN : ChangeUser(x, r, on)
  \/ \E a \in PortalAgents, x \in Accounts : ScriptReads(a, x)
  \/ \E a \in PortalAgents : ScriptWrites(a)

IdentitySpec == IdentityInit /\ [][IdentityNext]_identityVars

-----------------------------------------------------------------------------
\* Nobody acts as an account somebody else has acted as: not two agents, not
\* two Entra identities, and no agent as the row of an Entra identity, however
\* mappings, addresses and roles are changed in between
\* (docs/homix-portal-integration.md:42, "A same-email native administrator
\* remains separate with its original role and login").
AccountNotShared == \A x \in Accounts : Cardinality(actedAs[x]) <= 1
=============================================================================
