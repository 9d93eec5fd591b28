---------------------------- MODULE OneKeyListing ----------------------------
(***************************************************************************)
(* One imported OneKey listing (modules/onekey/service.ts): the import and *)
(* the refresh that bind it to the local agent of its roster member, and   *)
(* the drafts written about it.  The provider answers first; the agent is  *)
(* looked up by member key, then by address, and written, in a transaction *)
(* that is READ COMMITTED and locks nothing it reads; the listing is bound *)
(* in another.  Requests and operators' edits interleave at each step.     *)
(***************************************************************************)
EXTENDS Naturals, FiniteSets

CONSTANTS
  AgentIds,  \* agents rows
  Roster,    \* member keys of the provider's roster
  Mails,     \* normalised addresses
  Requests,  \* requests about the listing that may be under way together
  Nobody,    \* null
  MaxEdits   \* bound on what operators and the provider change

ASSUME ImportedAssumption ==
  /\ MaxEdits \in Nat
  /\ Nobody \notin AgentIds \cup Roster \cup Mails

VARIABLES
  roster,   \* external: the listing's member and the address the roster gives each
  agents,   \* agents: address, source_agent_key, is_active
  estate,   \* the listings row: its agent, Nobody before the import
  draft,    \* reply_to_agent_id of a DRAFT campaign about it, Nobody when none
  requests, \* requests between their reads and their last transaction
  edits,
  bound,    \* history: which agent was bound to which member
  crossed,  \* history: one member's agent was written between another's look-up and write
  overlap   \* history: the last to write the draft, or the listing without it, was a
            \* request during which the listing's agent had been assigned

estateVars == <<roster, agents, estate, draft, requests, edits, bound, crossed, overlap>>

NoAgent == [mail |-> Nobody, member |-> Nobody, active |-> FALSE]
NoRequest == [kind |-> "none", before |-> Nobody, member |-> Nobody, mail |-> Nobody,
              step |-> "asks", agent |-> Nobody, late |-> FALSE]

EstateTypeOK ==
  /\ roster \in [listed : Roster, mail : [Roster -> Mails]]
  /\ agents \in [AgentIds -> [mail : Mails \cup {Nobody}, member : Roster \cup {Nobody}, active : BOOLEAN]]
  /\ estate \in AgentIds \cup {Nobody} /\ draft \in AgentIds \cup {Nobody}
  /\ requests \in [Requests -> [kind : {"none", "import", "refresh", "draft"}, before : AgentIds \cup {Nobody},
                                member : Roster \cup {Nobody}, mail : Mails \cup {Nobody},
                                step : {"asks", "member", "both", "bound"},
                                agent : AgentIds \cup {Nobody}, late : BOOLEAN]]
  /\ edits \in 0 .. MaxEdits /\ bound \subseteq AgentIds \X Roster
  /\ crossed \in BOOLEAN /\ overlap \in BOOLEAN

EstateInit ==
  /\ \E listed \in Roster, m \in [Roster -> Mails] : roster = [listed |-> listed, mail |-> m]
  /\ agents = [a \in AgentIds |-> NoAgent]
  /\ estate = Nobody /\ draft = Nobody
  /\ requests = [q \in Requests |-> NoRequest]
  /\ edits = 0 /\ bound = {} /\ crossed = FALSE /\ overlap = FALSE

Edit == edits < MaxEdits /\ edits' = edits + 1

-----------------------------------------------------------------------------
(* Around the listing. *)

\* The roster lists another member, or gives a member another address.
RosterChanges(m, e) ==
  /\ Edit
  /\ roster' = [listed |-> m, mail |-> [roster.mail EXCEPT ![m] = e]]
  /\ UNCHANGED <<agents, estate, draft, requests, bound, crossed, overlap>>

\* POST, PATCH and DELETE /agents; the address is unique.
SaveAgent(a, e, active) ==
  /\ Edit
  /\ \A b \in AgentIds \ {a} : agents[b].mail # e
  /\ agents' = [agents EXCEPT ![a].mail = e, ![a].active = active]
  /\ UNCHANGED <<roster, estate, draft, requests, bound, crossed, overlap>>

Done(q) == [requests EXCEPT ![q] = NoRequest]
\* A change of the listing's agent comes late for those who have read it.
Changes(a, R) ==
  /\ estate' = a
  /\ requests' = [q \in Requests |-> IF R[q].before = Nobody \/ a = estate THEN R[q]
                                     ELSE [R[q] EXCEPT !.late = TRUE]]
\* It takes the drafts with it.
Assign(a, R) ==
  /\ Changes(a, R)
  /\ draft' = IF draft = Nobody THEN Nobody ELSE a
  /\ overlap' = FALSE
\* updateListing
Reassign(a) ==
  /\ Edit
  /\ estate # Nobody /\ a # estate /\ agents[a].active
  /\ Assign(a, requests)
  /\ UNCHANGED <<roster, agents, bound, crossed>>
\* The draft is sent or deleted.
DraftLeaves ==
  /\ draft # Nobody
  /\ draft' = Nobody /\ overlap' = FALSE
  /\ UNCHANGED <<roster, agents, estate, requests, edits, bound, crossed>>

-----------------------------------------------------------------------------
(* Requests. *)

Begin(q, kind, before, member, mail) ==
  /\ requests[q] = NoRequest
  /\ requests' = [requests EXCEPT ![q] =
       [NoRequest EXCEPT !.kind = kind, !.before = before, !.member = member, !.mail = mail]]
  /\ UNCHANGED <<roster, agents, estate, draft, edits, bound, crossed, overlap>>
BeginImport(q) == Begin(q, "import", Nobody, roster.listed, roster.mail[roster.listed])
BeginRefresh(q) == estate # Nobody /\ Begin(q, "refresh", estate, roster.listed, roster.mail[roster.listed])
\* createCampaign reads the listing and inserts the draft; Serializable
\* protects it only from transactions that are Serializable too.
BeginDraft(q) == estate # Nobody /\ draft = Nobody /\ Begin(q, "draft", estate, Nobody, Nobody)

\* syncOneKeyListingAgent: findUnique by member key, then by address; the
\* conflicts throw.
Reached(q, step) == requests[q].kind \in {"import", "refresh"} /\ requests[q].step = step
WithMember(m) == {a \in AgentIds : agents[a].member = m}
WithMail(e) == {a \in AgentIds : agents[a].mail = e}
Unique(a, S) == IF S = {} THEN a = Nobody ELSE a \in S
Advances(q, step, a) ==
  /\ requests' = [requests EXCEPT ![q].step = step, ![q].agent = a]
  /\ UNCHANGED <<roster, estate, draft, edits, overlap>>
FindByMember(q, a) ==
  /\ Reached(q, "asks")
  /\ Unique(a, WithMember(requests[q].member))
  /\ Advances(q, "member", a) /\ UNCHANGED <<agents, bound, crossed>>
FindAnyByMail(q, a) ==
  /\ Reached(q, "member")
  /\ Unique(a, WithMail(requests[q].mail))
  /\ Advances(q, "both", IF requests[q].agent # Nobody THEN requests[q].agent ELSE a)
  /\ UNCHANGED <<agents, bound, crossed>>
FindByMail(q, a) ==
  /\ Reached(q, "member")
  /\ Unique(a, WithMail(requests[q].mail))
  /\ a # Nobody => requests[q].agent \in {Nobody, a} /\ agents[a].member \in {Nobody, requests[q].member}
  /\ Advances(q, "both", IF requests[q].agent # Nobody THEN requests[q].agent ELSE a)
  /\ UNCHANGED <<agents, bound, crossed>>
\* The update by id, with no other condition, or the create; address and
\* member key are unique, or it throws.
StoreAgent(q, a) ==
  LET m == requests[q].member
      e == requests[q].mail IN
  /\ Reached(q, "both")
  /\ IF requests[q].agent # Nobody THEN a = requests[q].agent ELSE agents[a] = NoAgent
  /\ WithMail(e) \cup WithMember(m) \subseteq {a}
  /\ agents' = [agents EXCEPT ![a] = [mail |-> e, member |-> m, active |-> TRUE]]
  /\ bound' = bound \cup {<<a, m>>}
  /\ crossed' = (crossed \/ \E p \in Requests : /\ Reached(p, "member") \/ Reached(p, "both")
                                               /\ requests[p].member # m)
  /\ Advances(q, "bound", a)
\* resolveImportAgent: an operator's agentId instead.
ChooseAgent(q, a) ==
  /\ requests[q].kind = "import" /\ Reached(q, "asks")
  /\ agents[a].active
  /\ Advances(q, "bound", a) /\ UNCHANGED <<agents, bound, crossed>>

\* An identity conflict, the provider or the database: a refresh only marks
\* the listing's source_sync_status.
RequestAborts(q) ==
  /\ requests[q] # NoRequest
  /\ requests' = Done(q)
  /\ UNCHANGED <<roster, agents, estate, draft, edits, bound, crossed, overlap>>

\* The import's transaction looks at the listing again: it creates it, or
\* binds it to another agent, or leaves it.
EndImport(q) ==
  LET a == requests[q].agent IN
  /\ requests[q].kind = "import" /\ Reached(q, "bound")
  /\ IF estate # a THEN Assign(a, Done(q)) ELSE requests' = Done(q) /\ UNCHANGED <<estate, draft, overlap>>
  /\ UNCHANGED <<roster, agents, edits, bound, crossed>>

\* The refresh compares the agent with the one it read before the provider
\* answered, and writes the listing's agent either way.
EndRefresh(q) ==
  LET a == requests[q].agent IN
  /\ requests[q].kind = "refresh" /\ Reached(q, "bound")
  /\ IF requests[q].before # a THEN Assign(a, Done(q))
     ELSE /\ Changes(a, Done(q))
          /\ overlap' = (overlap \/ requests[q].late)
          /\ UNCHANGED draft
  /\ UNCHANGED <<roster, agents, edits, bound, crossed>>
EndDraft(q) ==
  /\ requests[q].kind = "draft" /\ draft = Nobody
  /\ draft' = requests[q].before /\ overlap' = requests[q].late
  /\ requests' = Done(q)
  /\ UNCHANGED <<roster, agents, estate, edits, bound, crossed>>

EstateNext ==
  \/ \E m \in Roster, e \in Mails : RosterChanges(m, e)
  \/ \E a \in AgentIds, e \in Mails, active \in BOOLEAN : SaveAgent(a, e, active)
  \/ \E a \in AgentIds : Reassign(a)
  \/ DraftLeaves
  \/ \E q \in Requests : BeginImport(q) \/ BeginRefresh(q) \/ BeginDraft(q) \/ RequestAborts(q)
                          \/ EndImport(q) \/ EndRefresh(q) \/ EndDraft(q)
  \/ \E q \in Requests, a \in AgentIds \cup {Nobody} : FindByMember(q, a) \/ FindByMail(q, a)
  \/ \E q \in Requests, a \in AgentIds : StoreAgent(q, a) \/ ChooseAgent(q, a)
EstateSpec == EstateInit /\ [][EstateNext]_estateVars

-----------------------------------------------------------------------------
\* A draft's reply_to is the listing's agent while imports, refreshes and
\* operators reassign it (DATA_MODEL.md:32), and an agent never becomes
\* another member, nor a member two agents, however addresses move
\* (SECURITY.md:30).  The code does not keep either promise as the documents
\* word it, so set apart are: a draft, or a listing, written by a request
\* during which the listing's agent was assigned, until the next assignment;
\* and the agents, once one member's was written between the look-up and the
\* write of another's: two members that share an address then take the same
\* agent in turn.  A campaign past DRAFT keeps the agent it has.
ImportedListingCoherent ==
  /\ ~overlap => draft \in {Nobody, estate}
  /\ ~crossed => \A p, q \in bound : (p[1] = q[1]) <=> (p[2] = q[2])
=============================================================================
