---------------------------- MODULE ListingProofs ----------------------------
(***************************************************************************)
(* Theorems about the OneKey listings: the agent an imported listing is    *)
(* bound to (OneKeyListing), its photos (OneKeyMedia) and the local index  *)
(* of the provider's feed (OneKeySync).                                    *)
(***************************************************************************)
EXTENDS OneKeyListing, OneKeyMedia, OneKeySync, FiniteSetTheorems, SequenceTheorems,
        WellFoundedInduction, TLAPS

-----------------------------------------------------------------------------
(* OneKeyListing: a request carries what it read; what it found fits the   *)
(* member it was found for while no other member's agent is written.       *)

AgentType == [mail : Mails \cup {Nobody}, member : Roster \cup {Nobody}, active : BOOLEAN]
RequestType ==
  [kind : {"none", "import", "refresh", "draft"}, before : AgentIds \cup {Nobody},
   member : Roster \cup {Nobody}, mail : Mails \cup {Nobody},
   step : {"asks", "member", "both", "bound"}, agent : AgentIds \cup {Nobody}, late : BOOLEAN]

\* What a request under way has read of the roster and of the listing.
Carried(x) == /\ x.kind \in {"import", "refresh"} => x.member \in Roster /\ x.mail \in Mails
              /\ x.kind \in {"refresh", "draft"} => x.before \in AgentIds
Carries == \A q \in Requests : Carried(requests[q])
\* One that is not late has read the agent the listing still has.
InTime(x) == x.before # Nobody /\ ~x.late => x.before = estate
OnTime == \A q \in Requests : InTime(requests[q])
\* The agent that was found is the member's, or nobody's.
Fits(x) == x.kind \in {"import", "refresh"} /\ x.step \in {"member", "both"} /\ x.agent # Nobody =>
             agents[x.agent].member \in {Nobody, x.member}
Matches == ~crossed => \A q \in Requests : Fits(requests[q])
\* Two agents are never the same member, and an agent keeps the member it was
\* bound to.
MembersApart == \A a, b \in AgentIds : agents[a].member = agents[b].member =>
                  a = b \/ agents[a].member = Nobody
BoundStands == ~crossed => \A p \in bound : agents[p[1]].member = p[2]
DraftFollows == ~overlap => draft \in {Nobody, estate}
EstateInv ==
  EstateTypeOK /\ Carries /\ OnTime /\ Matches /\ MembersApart /\ BoundStands /\ DraftFollows

EstateTyped == /\ agents \in [AgentIds -> AgentType] /\ requests \in [Requests -> RequestType]
               /\ roster \in [listed : Roster, mail : [Roster -> Mails]]
               /\ estate \in AgentIds \cup {Nobody} /\ draft \in AgentIds \cup {Nobody}
               /\ edits \in 0 .. MaxEdits /\ bound \subseteq AgentIds \X Roster
               /\ crossed \in BOOLEAN /\ overlap \in BOOLEAN
LEMMA EstateTypes == (EstateTyped <=> EstateTypeOK) /\ (EstateTyped <=> EstateTypeOK)'
BY DEF EstateTyped, EstateTypeOK, AgentType, RequestType

LEMMA NobodyAsks ==
  /\ NoRequest \in RequestType /\ Carried(NoRequest)
  /\ NoRequest.kind = "none" /\ NoRequest.before = Nobody /\ NoAgent \in AgentType
BY DEF NoRequest, NoAgent, RequestType, AgentType, Carried

\* StoreAgent: the write by id keeps the agents apart, and takes nobody's
\* member away unless another member's write came between.
LEMMA SyncBindsOnce ==
  ASSUME EstateInv, NEW q \in Requests, NEW a \in AgentIds, StoreAgent(q, a)
  PROVE  EstateInv'
<1> DEFINE m == requests[q].member
           e == requests[q].mail
           x == [requests[q] EXCEPT !.step = "bound", !.agent = a]
<1>1. /\ EstateTyped /\ m \in Roster /\ e \in Mails /\ Nobody \notin Roster
      /\ requests[q] \in RequestType /\ requests[q].step = "both"
      /\ requests[q].kind \in {"import", "refresh"}
  BY EstateTypes, ImportedAssumption DEF EstateInv, EstateTyped, Carries, Carried, StoreAgent, Reached
<1>2. /\ IF requests[q].agent # Nobody THEN a = requests[q].agent ELSE agents[a] = NoAgent
      /\ WithMail(e) \cup WithMember(m) \subseteq {a}
      /\ agents' = [agents EXCEPT ![a] = [mail |-> e, member |-> m, active |-> TRUE]]
      /\ bound' = bound \cup {<<a, m>>}
      /\ crossed' = (crossed \/ \E p \in Requests : /\ Reached(p, "member") \/ Reached(p, "both")
                                                   /\ requests[p].member # m)
      /\ requests' = [requests EXCEPT ![q].step = "bound", ![q].agent = a]
      /\ UNCHANGED <<roster, estate, draft, edits, overlap>>
  BY DEF StoreAgent, Advances
<1>3. /\ x \in RequestType /\ x.kind = requests[q].kind /\ x.member = m /\ x.mail = e
      /\ x.before = requests[q].before /\ x.late = requests[q].late /\ x.step = "bound"
  BY <1>1 DEF RequestType
<1>4. \A p \in Requests : requests'[p] = IF p = q THEN x ELSE requests[p]
  BY <1>1, <1>2, <1>3 DEF EstateTyped, RequestType
<1> HIDE DEF x
<1>5. /\ agents' \in [AgentIds -> AgentType]
      /\ \A b \in AgentIds : agents'[b].member = IF b = a THEN m ELSE agents[b].member
  BY <1>1, <1>2 DEF EstateTyped, AgentType
<1>6. requests' \in [Requests -> RequestType]
  <2>1. requests' = [p \in Requests |-> IF p = q THEN x ELSE requests[p]]
    BY <1>1, <1>2, <1>3 DEF x, EstateTyped, RequestType
  <2> QED BY <1>1, <1>3, <2>1 DEF EstateTyped
<1>7. EstateTypeOK'
  BY <1>1, <1>2, <1>5, <1>6, EstateTypes DEF EstateTyped
<1>8. Carries' /\ OnTime'
  BY <1>2, <1>3, <1>4 DEF EstateInv, Carries, Carried, OnTime, InTime
<1>9. \A b \in AgentIds : b # a => agents[b].member # m
  BY <1>2 DEF WithMember
<1>10. MembersApart'
  BY <1>5, <1>9 DEF EstateInv, MembersApart
<1>11. ~crossed => agents[a].member \in {Nobody, m}
  BY <1>1, <1>2 DEF EstateInv, Matches, Fits, NoAgent
<1>12. BoundStands'
  <2> SUFFICES ASSUME ~crossed', NEW p \in bound' PROVE agents'[p[1]].member = p[2]
    BY DEF BoundStands
  <2>1. CASE p = <<a, m>>
    BY <1>5, <2>1
  <2>2. CASE p \in bound
    <3>1. p[1] \in AgentIds /\ p[2] \in Roster /\ agents[p[1]].member = p[2] /\ ~crossed
      BY <1>1, <1>2, <2>2 DEF EstateInv, EstateTyped, BoundStands
    <3> QED BY <1>1, <1>5, <1>11, <3>1
  <2> QED BY <1>2, <2>1, <2>2
<1>13. Matches'
  <2> SUFFICES ASSUME ~crossed', NEW p \in Requests, requests'[p].kind \in {"import", "refresh"},
                      requests'[p].step \in {"member", "both"}, requests'[p].agent # Nobody
               PROVE  agents'[requests'[p].agent].member \in {Nobody, requests'[p].member}
    BY DEF Matches, Fits
  <2>1. requests'[p] = requests[p] /\ requests[p].agent \in AgentIds
    BY <1>1, <1>3, <1>4 DEF EstateTyped, RequestType
  <2>2. requests[p].member = m /\ ~crossed
    BY <1>2, <2>1 DEF Reached
  <2>3. agents[requests[p].agent].member \in {Nobody, m}
    BY <2>1, <2>2 DEF EstateInv, Matches, Fits
  <2> QED BY <1>5, <2>1, <2>2, <2>3
<1>14. DraftFollows'
  BY <1>2 DEF EstateInv, DraftFollows
<1> QED BY <1>7, <1>8, <1>10, <1>12, <1>13, <1>14 DEF EstateInv

\* A step that leaves the members and the bindings alone.
LEMMA MembersKept ==
  ASSUME EstateInv, EstateTyped', \A b \in AgentIds : agents'[b].member = agents[b].member,
         UNCHANGED <<bound, crossed>>, Carries', OnTime', DraftFollows',
         ~crossed => \A q \in Requests : Fits(requests[q])'
  PROVE  EstateInv'
<1>1. \A p \in bound : p[1] \in AgentIds
  BY DEF EstateInv, EstateTypeOK
<1>2. MembersApart' /\ BoundStands'
  BY <1>1 DEF EstateInv, MembersApart, BoundStands
<1> QED BY <1>2, EstateTypes DEF EstateInv, Matches

\* A step of one request that leaves the agents and the listing's agent alone.
LEMMA RequestMoves ==
  ASSUME EstateInv, NEW q \in Requests, NEW x \in RequestType, requests' = [requests EXCEPT ![q] = x],
         UNCHANGED <<roster, agents, estate, edits, bound, crossed>>,
         draft' \in AgentIds \cup {Nobody}, overlap' \in BOOLEAN, DraftFollows',
         Carried(x), InTime(x), ~crossed => Fits(x)
  PROVE  EstateInv'
<1>1. EstateTyped /\ Carries /\ OnTime /\ Matches
  BY EstateTypes DEF EstateInv
<1>2. /\ requests' \in [Requests -> RequestType]
      /\ \A p \in Requests : requests'[p] = IF p = q THEN x ELSE requests[p]
  BY <1>1 DEF EstateTyped
<1>3. EstateTyped'
  BY <1>1, <1>2 DEF EstateTyped
<1>4. Carries' /\ OnTime'
  BY <1>1, <1>2 DEF Carries, OnTime, Carried, InTime
<1>5. ~crossed => \A p \in Requests : Fits(requests[p])'
  BY <1>1, <1>2 DEF Matches, Fits
<1> QED BY <1>3, <1>4, <1>5, MembersKept

\* The listing's agent is written: those who have read another are late.
LEMMA AgentAssigned ==
  ASSUME EstateInv, NEW a \in AgentIds \cup {Nobody}, NEW R, R \in [Requests -> RequestType],
         \A q \in Requests : R[q] = requests[q] \/ R[q] = NoRequest, Changes(a, R),
         UNCHANGED <<roster, agents, bound, crossed>>, edits' \in 0 .. MaxEdits,
         draft' \in AgentIds \cup {Nobody}, overlap' \in BOOLEAN, DraftFollows'
  PROVE  EstateInv'
<1>1. EstateTyped /\ Carries /\ OnTime /\ Matches
  BY EstateTypes DEF EstateInv
<1>2. /\ estate' = a
      /\ requests' = [q \in Requests |-> IF R[q].before = Nobody \/ a = estate THEN R[q]
                                         ELSE [R[q] EXCEPT !.late = TRUE]]
  BY DEF Changes
<1>3. ASSUME NEW q \in Requests
      PROVE  /\ requests'[q] \in RequestType /\ Carried(requests'[q]) /\ InTime(requests[q])'
             /\ ~crossed => Fits(requests[q])'
  <2>1. R[q] \in RequestType /\ Carried(R[q]) /\ InTime(R[q]) /\ (~crossed => Fits(R[q]))
    <3>1. CASE R[q] = requests[q]
      BY <1>1, <3>1 DEF EstateTyped, Carries, OnTime, Matches
    <3>2. CASE R[q] = NoRequest
      BY <3>2, NobodyAsks DEF InTime, Fits
    <3> QED BY <3>1, <3>2
  <2>2. CASE R[q].before = Nobody \/ a = estate
    <3>1. requests'[q] = R[q]
      BY <1>2, <2>2
    <3> QED BY <1>2, <2>1, <2>2, <3>1 DEF InTime, Fits
  <2>3. CASE ~(R[q].before = Nobody \/ a = estate)
    <3> DEFINE y == [R[q] EXCEPT !.late = TRUE]
    <3>1. requests'[q] = y
      BY <1>2, <2>3
    <3>2. /\ y \in RequestType /\ y.kind = R[q].kind /\ y.before = R[q].before /\ y.member = R[q].member
          /\ y.mail = R[q].mail /\ y.step = R[q].step /\ y.agent = R[q].agent /\ y.late = TRUE
      BY <2>1 DEF RequestType
    <3> HIDE DEF y
    <3> QED BY <2>1, <3>1, <3>2 DEF Carried, InTime, Fits
  <2> QED BY <2>2, <2>3
<1>4. requests' \in [Requests -> RequestType]
  BY <1>2, <1>3
<1>5. EstateTyped'
  BY <1>1, <1>2, <1>4 DEF EstateTyped
<1>6. Carries' /\ OnTime' /\ (~crossed => \A q \in Requests : Fits(requests[q])')
  BY <1>3 DEF Carries, OnTime, Carried
<1> QED BY <1>5, <1>6, MembersKept

\* A request finds an agent, or is given one.
LEMMA RequestFinds ==
  ASSUME EstateInv, NEW q \in Requests, NEW step \in {"member", "both", "bound"},
         NEW a \in AgentIds \cup {Nobody}, Advances(q, step, a), UNCHANGED <<agents, bound, crossed>>,
         ~crossed /\ a # Nobody /\ step # "bound" => agents[a].member \in {Nobody, requests[q].member}
  PROVE  EstateInv'
<1> DEFINE x == [requests[q] EXCEPT !.step = step, !.agent = a]
<1>1. EstateTyped /\ Carries /\ OnTime /\ DraftFollows
  BY EstateTypes DEF EstateInv
<1>2. /\ requests' = [requests EXCEPT ![q].step = step, ![q].agent = a]
      /\ UNCHANGED <<roster, estate, draft, edits, overlap>>
  BY DEF Advances
<1>3. requests[q] \in RequestType /\ requests' = [requests EXCEPT ![q] = x]
  BY <1>1, <1>2 DEF EstateTyped, RequestType
<1>4. /\ x \in RequestType /\ x.kind = requests[q].kind /\ x.member = requests[q].member
      /\ x.mail = requests[q].mail /\ x.before = requests[q].before /\ x.late = requests[q].late
      /\ x.step = step /\ x.agent = a
  BY <1>3 DEF RequestType
<1> HIDE DEF x
<1>5. Carried(x) /\ InTime(x) /\ (~crossed => Fits(x))
  BY <1>1, <1>4 DEF Carries, OnTime, Carried, InTime, Fits
<1>6. DraftFollows' /\ draft' \in AgentIds \cup {Nobody} /\ overlap' \in BOOLEAN
  BY <1>1, <1>2 DEF EstateTyped, DraftFollows
<1> QED BY <1>2, <1>3, <1>4, <1>5, <1>6, RequestMoves

LEMMA RequestLookups ==
  ASSUME EstateInv, NEW q \in Requests, NEW a \in AgentIds \cup {Nobody},
         FindByMember(q, a) \/ FindByMail(q, a) \/ (a # Nobody /\ ChooseAgent(q, a))
  PROVE  EstateInv'
<1>1. EstateTyped /\ Matches
  BY EstateTypes DEF EstateInv
<1>2. CASE FindByMember(q, a)
  <2>1. /\ Advances(q, "member", a) /\ UNCHANGED <<agents, bound, crossed>>
        /\ a # Nobody => a \in WithMember(requests[q].member)
    BY <1>2 DEF FindByMember, Unique
  <2>2. a # Nobody => agents[a].member \in {Nobody, requests[q].member}
    BY <2>1 DEF WithMember
  <2> QED BY <2>1, <2>2, RequestFinds
<1>3. CASE FindByMail(q, a)
  <2> DEFINE b == IF requests[q].agent # Nobody THEN requests[q].agent ELSE a
  <2>1. /\ Advances(q, "both", b) /\ UNCHANGED <<agents, bound, crossed>>
        /\ a # Nobody => agents[a].member \in {Nobody, requests[q].member}
        /\ Reached(q, "member")
    BY <1>3 DEF FindByMail
  <2>2. requests[q].agent \in AgentIds \cup {Nobody}
    BY <1>1 DEF EstateTyped, RequestType
  <2>3. ~crossed /\ requests[q].agent # Nobody => agents[requests[q].agent].member \in {Nobody, requests[q].member}
    BY <1>1, <2>1 DEF Matches, Fits, Reached
  <2>4. b \in AgentIds \cup {Nobody} /\ (~crossed /\ b # Nobody => agents[b].member \in {Nobody, requests[q].member})
    BY <2>1, <2>2, <2>3
  <2> HIDE DEF b
  <2> QED BY <2>1, <2>4, RequestFinds
<1>4. CASE ChooseAgent(q, a)
  <2>1. Advances(q, "bound", a) /\ UNCHANGED <<agents, bound, crossed>>
    BY <1>4 DEF ChooseAgent
  <2> QED BY <2>1, RequestFinds
<1> QED BY <1>2, <1>3, <1>4

LEMMA RequestBegins ==
  ASSUME EstateInv, NEW q \in Requests, BeginImport(q) \/ BeginRefresh(q) \/ BeginDraft(q)
  PROVE  EstateInv'
<1>1. EstateTyped /\ DraftFollows
  BY EstateTypes DEF EstateInv
<1>2. roster.listed \in Roster /\ roster.mail[roster.listed] \in Mails
  BY <1>1 DEF EstateTyped
<1>3. PICK kind \in {"import", "refresh", "draft"}, before \in {Nobody, estate}, member \in Roster \cup {Nobody},
           mail \in Mails \cup {Nobody} :
        /\ Begin(q, kind, before, member, mail)
        /\ kind \in {"import", "refresh"} => member \in Roster /\ mail \in Mails
        /\ kind \in {"refresh", "draft"} => before = estate /\ estate # Nobody
  BY <1>2 DEF BeginImport, BeginRefresh, BeginDraft
<1> DEFINE x == [NoRequest EXCEPT !.kind = kind, !.before = before, !.member = member, !.mail = mail]
<1>4. /\ requests' = [requests EXCEPT ![q] = x]
      /\ UNCHANGED <<roster, agents, estate, draft, edits, bound, crossed, overlap>>
  BY <1>3 DEF Begin
<1>5. /\ x \in RequestType /\ x.kind = kind /\ x.before = before /\ x.member = member /\ x.mail = mail
      /\ x.step = "asks"
  BY <1>1, <1>3 DEF EstateTyped, NoRequest, RequestType
<1> HIDE DEF x
<1>6. Carried(x) /\ InTime(x) /\ Fits(x)
  BY <1>1, <1>3, <1>5 DEF EstateTyped, Carried, InTime, Fits
<1>7. DraftFollows' /\ draft' \in AgentIds \cup {Nobody} /\ overlap' \in BOOLEAN
  BY <1>1, <1>4 DEF EstateTyped, DraftFollows
<1> QED BY <1>4, <1>5, <1>6, <1>7, RequestMoves

LEMMA RequestEnds ==
  ASSUME EstateInv, NEW q \in Requests,
         RequestAborts(q) \/ EndImport(q) \/ EndRefresh(q) \/ EndDraft(q)
  PROVE  EstateInv'
<1> DEFINE a == requests[q].agent
           R == Done(q)
<1>1. EstateTyped /\ Carries /\ OnTime /\ DraftFollows
  BY EstateTypes DEF EstateInv
<1>2. /\ requests[q] \in RequestType /\ a \in AgentIds \cup {Nobody} /\ requests[q].late \in BOOLEAN
      /\ requests[q].before \in AgentIds \cup {Nobody} /\ Nobody \notin AgentIds
      /\ InTime(requests[q]) /\ Carried(requests[q])
  BY <1>1, ImportedAssumption DEF EstateTyped, RequestType, Carries, OnTime
<1>3. /\ R = [requests EXCEPT ![q] = NoRequest] /\ R \in [Requests -> RequestType]
      /\ \A p \in Requests : R[p] = requests[p] \/ R[p] = NoRequest
  BY <1>1, NobodyAsks DEF Done, EstateTyped
<1> HIDE DEF R
<1>4. ASSUME requests' = R, UNCHANGED <<roster, agents, estate, edits, bound, crossed>>,
             draft' \in AgentIds \cup {Nobody}, overlap' \in BOOLEAN, DraftFollows'
      PROVE  EstateInv'
  <2>1. NoRequest \in RequestType /\ Carried(NoRequest) /\ InTime(NoRequest) /\ Fits(NoRequest)
    BY NobodyAsks DEF InTime, Fits
  <2> QED BY <1>3, <1>4, <2>1, RequestMoves
<1>5. ASSUME Assign(a, R), UNCHANGED <<roster, agents, edits, bound, crossed>> PROVE EstateInv'
  <2>1. Changes(a, R) /\ draft' \in AgentIds \cup {Nobody} /\ overlap' \in BOOLEAN /\ DraftFollows'
    BY <1>2, <1>5 DEF Assign, Changes, DraftFollows
  <2>2. edits' \in 0 .. MaxEdits
    BY <1>1, <1>5 DEF EstateTyped
  <2> QED BY <1>2, <1>3, <1>5, <2>1, <2>2, AgentAssigned
<1>6. CASE RequestAborts(q)
  BY <1>1, <1>4, <1>6 DEF RequestAborts, R, EstateTyped, DraftFollows
<1>7. CASE EndImport(q)
  BY <1>1, <1>4, <1>5, <1>7 DEF EndImport, R, EstateTyped, DraftFollows
<1>8. CASE EndRefresh(q)
  <2>1. CASE requests[q].before # a
    BY <1>5, <1>8, <2>1 DEF EndRefresh, R
  <2>2. CASE requests[q].before = a
    <3>1. /\ Changes(a, R) /\ overlap' = (overlap \/ requests[q].late)
          /\ UNCHANGED <<roster, agents, draft, edits, bound, crossed>> /\ requests[q].kind = "refresh"
      BY <1>8, <2>2 DEF EndRefresh, R
    <3>2. ~overlap' => a = estate /\ ~overlap
      BY <1>2, <2>2, <3>1 DEF InTime, Carried
    <3>3. DraftFollows' /\ draft' \in AgentIds \cup {Nobody} /\ overlap' \in BOOLEAN /\ edits' \in 0 .. MaxEdits
      BY <1>1, <1>2, <3>1, <3>2 DEF EstateTyped, DraftFollows, Changes
    <3> QED BY <1>2, <1>3, <3>1, <3>3, AgentAssigned
  <2> QED BY <2>1, <2>2
<1>9. CASE EndDraft(q)
  <2>1. /\ draft' = requests[q].before /\ overlap' = requests[q].late /\ requests' = R
        /\ UNCHANGED <<roster, agents, estate, edits, bound, crossed>> /\ requests[q].kind = "draft"
    BY <1>9 DEF EndDraft, R
  <2>2. DraftFollows'
    BY <1>2, <2>1 DEF InTime, Carried, DraftFollows
  <2> QED BY <1>2, <1>4, <2>1, <2>2
<1> QED BY <1>6, <1>7, <1>8, <1>9

LEMMA EstateStep == EstateInv /\ [EstateNext]_estateVars => EstateInv'
<1> SUFFICES ASSUME EstateInv, [EstateNext]_estateVars PROVE EstateInv'
  OBVIOUS
<1>0. EstateTyped /\ Carries /\ OnTime /\ Matches /\ DraftFollows /\ MaxEdits \in Nat
  BY EstateTypes, ImportedAssumption DEF EstateInv
<1>e. Edit => edits' \in 0 .. MaxEdits
  BY <1>0 DEF Edit, EstateTyped
<1>q. ASSUME EstateTyped', DraftFollows', \A b \in AgentIds : agents'[b].member = agents[b].member,
             UNCHANGED <<estate, requests, bound, crossed>>
      PROVE  EstateInv'
  <2>1. Carries' /\ OnTime'
    BY <1>0, <1>q DEF Carries, OnTime, InTime
  <2>2. ~crossed => \A q \in Requests : Fits(requests[q])'
    <3>1. \A q \in Requests : requests[q].agent \in AgentIds \cup {Nobody}
      BY <1>0 DEF EstateTyped, RequestType
    <3> QED BY <1>0, <1>q, <3>1 DEF Matches, Fits
  <2> QED BY <1>q, <2>1, <2>2, MembersKept
<1>1. CASE \E m \in Roster, e \in Mails : RosterChanges(m, e)
  <2>1. EstateTyped'
    BY <1>0, <1>1, <1>e DEF RosterChanges, EstateTyped
  <2> QED BY <1>0, <1>1, <1>q, <2>1 DEF RosterChanges, DraftFollows
<1>2. CASE \E a \in AgentIds, e \in Mails, active \in BOOLEAN : SaveAgent(a, e, active)
  <2> PICK a \in AgentIds, e \in Mails, active \in BOOLEAN : SaveAgent(a, e, active)
    BY <1>2
  <2>1. agents' \in [AgentIds -> AgentType] /\ \A b \in AgentIds : agents'[b].member = agents[b].member
    BY <1>0, ZenonT(60) DEF SaveAgent, AgentType, EstateTyped
  <2>2. EstateTyped' /\ DraftFollows'
    BY <1>0, <1>e, <2>1 DEF SaveAgent, EstateTyped, DraftFollows
  <2> QED BY <1>q, <2>1, <2>2 DEF SaveAgent
<1>3. CASE \E a \in AgentIds : Reassign(a)
  <2> PICK a \in AgentIds : Reassign(a)
    BY <1>3
  <2>1. /\ Changes(a, requests) /\ draft' \in AgentIds \cup {Nobody} /\ overlap' \in BOOLEAN /\ DraftFollows'
        /\ UNCHANGED <<roster, agents, bound, crossed>> /\ edits' \in 0 .. MaxEdits
    BY <1>0, <1>e DEF Reassign, Assign, Changes, DraftFollows
  <2>2. requests \in [Requests -> RequestType]
    BY <1>0 DEF EstateTyped
  <2> QED BY <2>1, <2>2, AgentAssigned
<1>4. CASE DraftLeaves
  <2>1. EstateTyped' /\ DraftFollows'
    BY <1>0, <1>4 DEF DraftLeaves, EstateTyped, DraftFollows
  <2> QED BY <1>4, <1>q, <2>1 DEF DraftLeaves
<1>5. CASE UNCHANGED estateVars
  <2>1. EstateTyped' /\ DraftFollows'
    BY <1>0, <1>5 DEF estateVars, EstateTyped, DraftFollows
  <2> QED BY <1>5, <1>q, <2>1 DEF estateVars
<1>6. ASSUME NEW q \in Requests, NEW a \in AgentIds \cup {Nobody},
             FindByMember(q, a) \/ FindByMail(q, a) \/ (a \in AgentIds /\ ChooseAgent(q, a))
      PROVE  EstateInv'
  BY <1>6, RequestLookups, ImportedAssumption
<1> QED BY <1>1, <1>2, <1>3, <1>4, <1>5, <1>6, RequestBegins, RequestEnds, SyncBindsOnce DEF EstateNext

LEMMA EstateStart == EstateInit => EstateInv
<1> SUFFICES ASSUME EstateInit PROVE EstateInv
  OBVIOUS
<1>1. roster \in [listed : Roster, mail : [Roster -> Mails]]
  BY DEF EstateInit
<1>2. /\ agents \in [AgentIds -> AgentType] /\ requests \in [Requests -> RequestType]
      /\ \A q \in Requests : requests[q] = NoRequest
  BY NobodyAsks DEF EstateInit
<1>3. EstateTypeOK
  <2>1. edits \in 0 .. MaxEdits
    BY ImportedAssumption DEF EstateInit
  <2>2. /\ estate \in AgentIds \cup {Nobody} /\ draft \in AgentIds \cup {Nobody}
        /\ bound \subseteq AgentIds \X Roster /\ crossed \in BOOLEAN /\ overlap \in BOOLEAN
    BY DEF EstateInit
  <2> QED BY <1>1, <1>2, <2>1, <2>2, EstateTypes DEF EstateTyped
<1>4. Carries /\ OnTime /\ Matches
  BY <1>2, NobodyAsks DEF Carries, OnTime, Matches, InTime, Fits
<1> QED BY <1>3, <1>4 DEF EstateInit, EstateInv, MembersApart, BoundStands, DraftFollows, NoAgent

\* The draft about an imported listing answers to the listing's agent, until a
\* request writes it, or the listing, during which that agent was assigned;
\* and members and agents are bound one to one, until one member's agent is
\* written between the look-up and the write of another's (FindByMember,
\* FindByMail, StoreAgent, EndImport, EndRefresh, EndDraft): for any agents,
\* members, addresses and requests under way together.
THEOREM ListingCoherent == EstateSpec => []ImportedListingCoherent
<1>1. EstateInv => ImportedListingCoherent
  <2> SUFFICES ASSUME EstateInv PROVE ImportedListingCoherent
    OBVIOUS
  <2>1. ASSUME ~crossed, NEW p \in bound, NEW r \in bound PROVE (p[1] = r[1]) <=> (p[2] = r[2])
    <3>1. /\ p[1] \in AgentIds /\ r[1] \in AgentIds /\ p[2] \in Roster /\ Nobody \notin Roster
          /\ agents[p[1]].member = p[2] /\ agents[r[1]].member = r[2]
      BY <2>1, ImportedAssumption DEF EstateInv, EstateTypeOK, BoundStands
    <3> QED BY <3>1 DEF EstateInv, MembersApart
  <2> QED BY <2>1 DEF EstateInv, DraftFollows, ImportedListingCoherent
<1> QED BY <1>1, EstateStart, EstateStep, PTL DEF EstateSpec

\* The roster, the agents, the listing's draft and the requests under way keep
\* their types, and what was bound is an agent and a member of the roster.
THEOREM EstateTypeCorrect == EstateSpec => []EstateTypeOK
<1>1. EstateInv => EstateTypeOK
  BY DEF EstateInv
<1> QED BY <1>1, EstateStart, EstateStep, PTL DEF EstateSpec

-----------------------------------------------------------------------------
(* OneKeyMedia: what one execution of the job has read stays true of the   *)
(* photos it has still to copy.                                            *)

PhotoType == [photo : 0 .. Photos, hero : HeroOf, copy : Nat]
CopierType == [at : 0 .. Photos + 1, seen : SUBSET Urls, hero : BOOLEAN,
               imported : 0 .. Photos, warned : BOOLEAN]
MediaTyped ==
  /\ gallery \subseteq PhotoType /\ IsFiniteSet(gallery)
  /\ copiers \in [Copiers -> CopierType]
  /\ sync \in {"CURRENT", "FAILED"} /\ photoEdits \in 0 .. MaxPhotoEdits
  /\ crowded \in BOOLEAN /\ pressed \in BOOLEAN
  /\ \A c \in Copiers : copiers[c].imported < copiers[c].at \/ copiers[c].imported = 0

OneCopier == \A c, d \in Copiers : copiers[c].at > 0 /\ copiers[d].at > 0 => c = d
PhotosOnce == \A g, h \in gallery : g.photo = h.photo => g = h \/ g.photo = 0
OneHero == \A g, h \in JobHeroes : g = h
Alone == ~pressed => \A g \in JobHeroes, h \in Heroes : g = h
\* A photo that is live and still ahead of the execution is one it has seen;
\* a hero that the job made, or any while operators leave it alone, is one it
\* knows of, or its own.
HeroKnown(x, G) == \/ x.hero \/ x.imported > 0
                   \/ \A g \in G : g.hero # "job" /\ (pressed \/ g.hero = "nobody")
Foreseen(x, G) ==
  x.at > 0 => (\A g \in G : g.photo >= x.at => g.photo \in x.seen) /\ HeroKnown(x, G)
GalleryOK ==
  OneCopier /\ PhotosOnce /\ OneHero /\ Alone /\ \A c \in Copiers : Foreseen(copiers[c], gallery)
MediaInv == MediaTyped /\ (~crowded => GalleryOK)

LEMMA AsleepTyped == Asleep \in CopierType /\ Asleep.at = 0 /\ Asleep.imported = 0
BY MediaAssumption DEF Asleep, CopierType, Urls

\* Steps of an execution that add no photo.
LEMMA CopierKeeps ==
  ASSUME MediaInv, NEW c \in Copiers, copiers' \in [Copiers -> CopierType],
         \A d \in Copiers : d # c => copiers'[d] = copiers[d],
         copiers'[c].imported < copiers'[c].at \/ copiers'[c].imported = 0,
         UNCHANGED <<gallery, photoEdits, pressed>>, crowded' \in BOOLEAN, sync' \in {"CURRENT", "FAILED"},
         ~crowded' => /\ ~crowded
                      /\ copiers'[c].at > 0 /\ copiers[c].at = 0 => \A d \in Copiers : copiers[d].at = 0
                      /\ Foreseen(copiers'[c], gallery)
  PROVE  MediaInv'
<1>1. /\ copiers \in [Copiers -> CopierType] /\ \A f \in Copiers : copiers[f].at \in Nat
  BY DEF MediaInv, MediaTyped, CopierType
<1>2. MediaTyped'
  BY <1>1 DEF MediaInv, MediaTyped
<1>3. ASSUME ~crowded' PROVE GalleryOK'
  <2>0. GalleryOK /\ Heroes' = Heroes /\ JobHeroes' = JobHeroes
    BY <1>3 DEF MediaInv, Heroes, JobHeroes
  <2>1. OneCopier'
    <3> SUFFICES ASSUME NEW d \in Copiers, NEW e \in Copiers,
                        copiers'[d].at > 0, copiers'[e].at > 0
                 PROVE  d = e
      BY DEF OneCopier
    <3> QED BY <1>1, <1>3, <2>0 DEF GalleryOK, OneCopier
  <2>2. PhotosOnce' /\ OneHero' /\ Alone'
    BY <2>0 DEF GalleryOK, PhotosOnce, OneHero, Alone
  <2>3. \A d \in Copiers : Foreseen(copiers[d], gallery)'
    BY <1>1, <1>3, <2>0 DEF GalleryOK, Foreseen, HeroKnown
  <2> QED BY <2>1, <2>2, <2>3 DEF GalleryOK
<1> QED BY <1>2, <1>3 DEF MediaInv

LEMMA MediaStartCopy ==
  ASSUME MediaInv, NEW c \in Copiers, StartCopy(c)
  PROVE  MediaInv'
<1> DEFINE seen == {g.photo : g \in gallery} \ {0}
           hero == Heroes # {}
           x == [Asleep EXCEPT !.at = 1, !.hero = hero, !.seen = seen]
<1>1. /\ \A g \in gallery : g.photo \in 0 .. Photos /\ g.hero \in HeroOf
      /\ Photos \in Nat /\ \A d \in Copiers : copiers[d].at \in Nat
      /\ copiers \in [Copiers -> CopierType]
      /\ crowded \in BOOLEAN /\ sync \in {"CURRENT", "FAILED"}
  BY MediaAssumption DEF MediaInv, MediaTyped, PhotoType, CopierType
<1>2. /\ copiers' = [copiers EXCEPT ![c] = x]
      /\ UNCHANGED <<gallery, sync, photoEdits, pressed>>
      /\ crowded' = (crowded \/ Awake # {})
  BY DEF StartCopy
<1>3. /\ seen \subseteq Urls /\ hero \in BOOLEAN
      /\ \A g \in gallery : g.photo >= 1 => g.photo \in seen
      /\ (\A g \in gallery : g.hero = "nobody") \/ hero
  <2>1. seen \subseteq Urls /\ \A g \in gallery : g.photo >= 1 => g.photo \in seen
    BY <1>1 DEF Urls
  <2>2. hero \in BOOLEAN
    BY Zenon
  <2>3. (\A g \in gallery : g.hero = "nobody") \/ hero
    BY DEF Heroes
  <2> QED BY <2>1, <2>2, <2>3
<1> HIDE DEF seen, hero
<1>8. Asleep \in [at : Nat, seen : SUBSET Urls, hero : BOOLEAN, imported : Nat, warned : BOOLEAN]
  BY DEF Asleep
<1>9. x \in CopierType
  <2>1. 1 \in 0 .. Photos + 1 /\ Asleep \in CopierType
    BY <1>1, AsleepTyped
  <2> QED BY <1>3, <2>1 DEF CopierType
<1>5. x.at = 1 /\ x.imported = 0 /\ x.seen = seen
  BY DEF Asleep
<1>10. x.hero = hero
  BY <1>3, <1>8
<1>4. Foreseen(x, gallery)
  BY <1>3, <1>5, <1>10 DEF Foreseen, HeroKnown
<1> HIDE DEF x
<1>6. /\ copiers' \in [Copiers -> CopierType] /\ copiers'[c] = x
      /\ \A d \in Copiers : d # c => copiers'[d] = copiers[d]
  BY <1>1, <1>2, <1>9
<1>7. ~crowded' => ~crowded /\ \A d \in Copiers : copiers[d].at = 0
  <2>1. ~crowded' => ~crowded /\ Awake = {}
    BY <1>2
  <2> QED BY <1>1, <2>1 DEF Awake
<1> QED BY <1>1, <1>2, <1>4, <1>5, <1>6, <1>7, CopierKeeps

\* The execution goes past one photo without a copy of it.
LEMMA PassesPhoto ==
  ASSUME MediaInv, NEW c \in Copiers, copiers[c].at \in Urls, NEW warned \in BOOLEAN,
         copiers' = [copiers EXCEPT ![c].at = @ + 1, ![c].warned = warned],
         UNCHANGED <<gallery, sync, photoEdits, crowded, pressed>>
  PROVE  MediaInv'
<1>1. /\ copiers \in [Copiers -> CopierType] /\ Photos \in Nat /\ crowded \in BOOLEAN
      /\ sync \in {"CURRENT", "FAILED"} /\ copiers[c] \in CopierType
      /\ copiers[c].imported < copiers[c].at \/ copiers[c].imported = 0
      /\ \A g \in gallery : g.photo \in Nat
  BY MediaAssumption DEF MediaInv, MediaTyped, PhotoType
<1>2. copiers[c].at \in Nat \ {0} /\ copiers[c].at + 1 \in 0 .. Photos + 1 /\ copiers[c].imported \in Nat
  BY <1>1 DEF CopierType, Urls
<1>3. /\ copiers'[c].at = copiers[c].at + 1 /\ copiers'[c].imported = copiers[c].imported
      /\ copiers'[c].seen = copiers[c].seen /\ copiers'[c].hero = copiers[c].hero
      /\ \A d \in Copiers : d # c => copiers'[d] = copiers[d]
  BY <1>1 DEF CopierType
<1>4. copiers' \in [Copiers -> CopierType]
  BY <1>1, <1>2 DEF CopierType
<1>5. ~crowded => Foreseen(copiers'[c], gallery)
  BY <1>1, <1>2, <1>3 DEF MediaInv, GalleryOK, Foreseen, HeroKnown
<1> QED BY <1>1, <1>2, <1>3, <1>4, <1>5, CopierKeeps

LEMMA MediaAdvance ==
  ASSUME MediaInv, NEW c \in Copiers, SkipPhoto(c) \/ MissPhoto(c) \/ EndCopy(c) \/ LoseCopier(c)
  PROVE  MediaInv'
<1>1. /\ copiers \in [Copiers -> CopierType] /\ copiers[c] \in CopierType
      /\ crowded \in BOOLEAN /\ sync \in {"CURRENT", "FAILED"}
  BY DEF MediaInv, MediaTyped
<1>2. CASE EndCopy(c) \/ LoseCopier(c)
  <2>1. /\ copiers' = [copiers EXCEPT ![c] = Asleep] /\ UNCHANGED <<gallery, photoEdits, crowded, pressed>>
        /\ sync' \in {"CURRENT", "FAILED"}
    BY <1>1, <1>2 DEF EndCopy, LoseCopier
  <2>2. /\ copiers' \in [Copiers -> CopierType] /\ copiers'[c] = Asleep
        /\ \A d \in Copiers : d # c => copiers'[d] = copiers[d]
    BY <1>1, <2>1, AsleepTyped
  <2>3. Foreseen(copiers'[c], gallery)
    BY <2>2, AsleepTyped DEF Foreseen
  <2> QED BY <1>1, <2>1, <2>2, <2>3, AsleepTyped, CopierKeeps
<1>3. CASE SkipPhoto(c)
  <2>1. /\ copiers[c].at \in Urls /\ copiers' = [copiers EXCEPT ![c].at = @ + 1]
        /\ UNCHANGED <<gallery, sync, photoEdits, crowded, pressed>>
    BY <1>1, <1>3 DEF SkipPhoto, CopierType
  <2>2. copiers' = [copiers EXCEPT ![c].at = @ + 1, ![c].warned = copiers[c].warned]
        /\ copiers[c].warned \in BOOLEAN
    BY <1>1, <2>1 DEF CopierType
  <2> QED BY <2>1, <2>2, PassesPhoto
<1>4. CASE MissPhoto(c)
  <2>1. /\ copiers[c].at \in Urls /\ copiers' = [copiers EXCEPT ![c].at = @ + 1, ![c].warned = TRUE]
        /\ UNCHANGED <<gallery, sync, photoEdits, crowded, pressed>>
    BY <1>4 DEF MissPhoto, Wanted
  <2> QED BY <2>1, PassesPhoto
<1> QED BY <1>2, <1>3, <1>4

LEMMA MediaCopyPhoto ==
  ASSUME MediaInv, NEW c \in Copiers, CopyPhoto(c)
  PROVE  MediaInv'
<1> DEFINE y == copiers[c]
           x == [y EXCEPT !.at = @ + 1, !.imported = @ + 1]
           new == [photo |-> y.at,
                   hero |-> IF y.hero \/ y.imported > 0 THEN "nobody" ELSE "job",
                   copy |-> Cardinality(Copies(y.at))]
<1>1. /\ y \in CopierType /\ Photos \in Nat /\ copiers \in [Copiers -> CopierType]
      /\ y.imported < y.at \/ y.imported = 0
      /\ gallery \subseteq PhotoType /\ IsFiniteSet(gallery)
      /\ \A d \in Copiers : copiers[d].at \in Nat
  BY MediaAssumption DEF MediaInv, MediaTyped, CopierType
<1>2. /\ y.at \in Urls \ y.seen /\ gallery' = gallery \cup {new}
      /\ copiers' = [copiers EXCEPT ![c] = x] /\ UNCHANGED <<sync, photoEdits, crowded, pressed>>
  BY DEF CopyPhoto, Wanted
<1>3. /\ x \in CopierType /\ x.at = y.at + 1 /\ x.imported = y.imported + 1
      /\ x.seen = y.seen /\ x.hero = y.hero /\ y.at \in Nat \ {0} /\ y.imported \in Nat
      /\ x.imported < x.at
  <2>1. /\ y.at \in Nat \ {0} /\ y.at + 1 \in 0 .. Photos + 1 /\ y.imported \in Nat
        /\ y.imported + 1 \in 0 .. Photos /\ y.imported + 1 < y.at + 1
    BY <1>1, <1>2 DEF CopierType, Urls
  <2>2. /\ x.at = y.at + 1 /\ x.imported = y.imported + 1 /\ x.seen = y.seen /\ x.hero = y.hero
        /\ x \in CopierType
    BY <1>1, <2>1 DEF CopierType
  <2> QED BY <2>1, <2>2
<1>4. Cardinality(Copies(y.at)) \in Nat
  BY <1>1, FS_Subset, FS_CardinalityType DEF Copies
<1>5. /\ new \in PhotoType /\ new.photo = y.at
      /\ new.hero = "job" \/ (new.hero = "nobody" /\ (y.hero \/ y.imported > 0))
      /\ new.hero = "job" => ~y.hero /\ ~(y.imported > 0)
  BY <1>2, <1>4 DEF PhotoType, Urls, HeroOf
<1> HIDE DEF x, new
<1>6. IsFiniteSet(gallery')
  BY <1>1, <1>2, FS_AddElement
<1>7. \A d \in Copiers : copiers'[d] = IF d = c THEN x ELSE copiers[d]
  BY <1>1, <1>2
<1>8. MediaTyped'
  BY <1>1, <1>2, <1>3, <1>5, <1>6, <1>7 DEF MediaInv, MediaTyped
<1>9. ASSUME ~crowded' PROVE GalleryOK'
  <2>0. GalleryOK /\ Foreseen(y, gallery)
    BY <1>2, <1>9 DEF MediaInv, GalleryOK
  <2>p. \A g \in gallery : g.photo \in 0 .. Photos
    BY <1>1 DEF PhotoType
  <2>1. OneCopier'
    BY <1>1, <1>3, <1>7, <2>0 DEF GalleryOK, OneCopier
  <2>2. \A g \in gallery : g.photo # y.at
    BY <1>2, <1>3, <2>0, <2>p DEF Foreseen
  <2>3. PhotosOnce'
    BY <1>2, <1>5, <2>0, <2>2 DEF GalleryOK, PhotosOnce
  <2>4. /\ JobHeroes' = IF new.hero = "job" THEN JobHeroes \cup {new} ELSE JobHeroes
        /\ Heroes' = IF new.hero = "job" THEN Heroes \cup {new} ELSE Heroes
    BY <1>2, <1>5 DEF Heroes, JobHeroes
  <2>5. new.hero = "job" => JobHeroes = {} /\ (pressed \/ Heroes = {})
    BY <1>3, <1>5, <2>0 DEF Foreseen, HeroKnown, Heroes, JobHeroes
  <2>6. OneHero' /\ Alone'
    BY <1>2, <2>0, <2>4, <2>5 DEF GalleryOK, OneHero, Alone
  <2>7. Foreseen(x, gallery')
    BY <1>2, <1>3, <1>5, <2>0, <2>p DEF Foreseen, HeroKnown
  <2>8. \A d \in Copiers : copiers'[d].at > 0 => d = c
    BY <1>1, <1>3, <1>7, <2>0 DEF GalleryOK, OneCopier
  <2>9. \A d \in Copiers : Foreseen(copiers[d], gallery)'
    <3> SUFFICES ASSUME NEW d \in Copiers PROVE Foreseen(copiers[d], gallery)'
      OBVIOUS
    <3>1. CASE d = c
      <4>1. copiers'[d] = x /\ pressed' = pressed
        BY <1>2, <1>7, <3>1
      <4> QED BY <2>7, <4>1 DEF Foreseen, HeroKnown
    <3>2. CASE d # c
      BY <2>8, <3>2 DEF Foreseen
    <3> QED BY <3>1, <3>2
  <2> QED BY <2>1, <2>3, <2>6, <2>9 DEF GalleryOK
<1> QED BY <1>8, <1>9 DEF MediaInv

\* Operators' changes: they add no photo of the provider's and no hero of the
\* job's, and while they leave the job alone no hero beside it.
LEMMA MediaEdited ==
  ASSUME MediaInv, PhotoEdit, UNCHANGED <<copiers, sync, crowded>>, pressed' \in BOOLEAN,
         gallery' \subseteq PhotoType, IsFiniteSet(gallery'), pressed => pressed',
         JobHeroes' \subseteq JobHeroes,
         \A g \in gallery' : g.photo = 0 \/ \E h \in gallery : h.photo = g.photo,
         ~crowded => PhotosOnce',
         ~pressed' => Heroes' \subseteq Heroes \/ (Awake = {} /\ JobHeroes' = {})
  PROVE  MediaInv'
<1>1. MediaTyped'
  BY MediaAssumption DEF MediaInv, MediaTyped, PhotoEdit
<1>2. ASSUME ~crowded' PROVE GalleryOK'
  <2>0. GalleryOK /\ OneCopier' /\ PhotosOnce'
    BY <1>2 DEF MediaInv, GalleryOK, OneCopier
  <2>1. OneHero' /\ Alone'
    BY <2>0 DEF GalleryOK, OneHero, Alone
  <2>2. ASSUME NEW d \in Copiers PROVE Foreseen(copiers[d], gallery)'
    <3>1. CASE copiers[d].at > 0
      <4>1. copiers[d].at \in Nat /\ Awake # {} /\ copiers'[d] = copiers[d]
        BY <3>1 DEF MediaInv, MediaTyped, CopierType, Awake
      <4>2. Foreseen(copiers[d], gallery)
        BY <2>0 DEF GalleryOK
      <4>3. \A g \in gallery' : g.photo >= copiers[d].at => g.photo \in copiers[d].seen
        BY <3>1, <4>1, <4>2 DEF Foreseen
      <4>4. HeroKnown(copiers[d], gallery)'
        <5>1. CASE copiers[d].hero \/ copiers[d].imported > 0
          BY <4>1, <5>1 DEF HeroKnown
        <5>2. CASE ~(copiers[d].hero \/ copiers[d].imported > 0)
          <6>1. JobHeroes = {} /\ (pressed \/ Heroes = {})
            BY <3>1, <4>2, <5>2 DEF Foreseen, HeroKnown, Heroes, JobHeroes
          <6>2. JobHeroes' = {} /\ (pressed' \/ Heroes' = {})
            BY <4>1, <6>1
          <6> QED BY <6>2 DEF HeroKnown, Heroes, JobHeroes
        <5> QED BY <5>1, <5>2
      <4> QED BY <4>1, <4>3, <4>4 DEF Foreseen
    <3>2. CASE ~(copiers[d].at > 0)
      BY <3>2 DEF Foreseen
    <3> QED BY <3>1, <3>2
  <2> QED BY <2>0, <2>1, <2>2 DEF GalleryOK
<1> QED BY <1>1, <1>2 DEF MediaInv

LEMMA MediaUpload ==
  ASSUME MediaInv, NEW hero \in {"nobody", "operator"}, UploadPhoto(hero)
  PROVE  MediaInv'
<1> DEFINE new == [photo |-> 0, hero |-> hero, copy |-> photoEdits]
<1>1. /\ gallery \subseteq PhotoType /\ IsFiniteSet(gallery) /\ gallery' = gallery \cup {new}
      /\ PhotoEdit /\ UNCHANGED <<copiers, sync, crowded>> /\ pressed \in BOOLEAN
      /\ pressed' = (pressed \/ (hero = "operator" /\ (Awake # {} \/ JobHeroes # {})))
  BY DEF MediaInv, MediaTyped, UploadPhoto
<1>2. new \in PhotoType /\ new.photo = 0 /\ new.hero = hero
  BY MediaAssumption DEF MediaInv, MediaTyped, PhotoType, HeroOf
<1> HIDE DEF new
<1>3. IsFiniteSet(gallery')
  BY <1>1, FS_AddElement
<1>4. /\ Heroes' = IF hero = "operator" THEN Heroes \cup {new} ELSE Heroes
      /\ JobHeroes' = JobHeroes
  BY <1>1, <1>2 DEF Heroes, JobHeroes
<1>5. ~crowded => PhotosOnce'
  BY <1>1, <1>2 DEF MediaInv, GalleryOK, PhotosOnce
<1> QED BY <1>1, <1>2, <1>3, <1>4, <1>5, MediaEdited

LEMMA MediaDelete ==
  ASSUME MediaInv, NEW g \in gallery, DeletePhoto(g)
  PROVE  MediaInv'
<1>1. /\ gallery \subseteq PhotoType /\ IsFiniteSet(gallery) /\ gallery' = gallery \ {g}
      /\ PhotoEdit /\ UNCHANGED <<copiers, sync, crowded, pressed>>
      /\ Heroes' \subseteq Heroes /\ JobHeroes' \subseteq JobHeroes /\ pressed \in BOOLEAN
  BY DEF MediaInv, MediaTyped, DeletePhoto, Heroes, JobHeroes
<1>2. IsFiniteSet(gallery')
  BY <1>1, FS_Subset
<1>3. ~crowded => PhotosOnce'
  BY <1>1 DEF MediaInv, GalleryOK, PhotosOnce
<1> QED BY <1>1, <1>2, <1>3, MediaEdited

LEMMA MediaReorder ==
  ASSUME MediaInv, NEW H \in SUBSET gallery, NEW G \in SUBSET gallery, Reorder(H, G)
  PROVE  MediaInv'
<1>1. /\ gallery \subseteq PhotoType /\ IsFiniteSet(gallery)
      /\ gallery' = {SentAs(g, H, G) : g \in gallery}
      /\ PhotoEdit /\ UNCHANGED <<copiers, sync, crowded>> /\ pressed \in BOOLEAN
      /\ pressed' = (pressed \/ (H # {} /\ (Awake # {} \/ JobHeroes \ (H \cup G) # {})))
  BY DEF MediaInv, MediaTyped, Reorder
<1>2. \A g \in gallery : /\ SentAs(g, H, G) \in PhotoType /\ SentAs(g, H, G).photo = g.photo
                         /\ g \in H => SentAs(g, H, G).hero = "operator"
                         /\ g \in G \ H => SentAs(g, H, G).hero = "nobody"
                         /\ g \notin H \cup G => SentAs(g, H, G) = g
  BY <1>1 DEF PhotoType, HeroOf, SentAs
<1>3. IsFiniteSet(gallery')
  <2>1. [g \in gallery |-> SentAs(g, H, G)] \in Surjection(gallery, gallery')
    BY <1>1 DEF Surjection
  <2> QED BY <1>1, <2>1, FS_Surjection DEF ExistsSurjection
<1>4. JobHeroes' = JobHeroes \ (H \cup G)
  <2>1. ASSUME NEW g \in JobHeroes' PROVE g \in JobHeroes \ (H \cup G)
    <3> PICK h \in gallery : g = SentAs(h, H, G)
      BY <1>1, <2>1 DEF JobHeroes
    <3> QED BY <1>2, <2>1 DEF JobHeroes
  <2>2. ASSUME NEW g \in JobHeroes \ (H \cup G) PROVE g \in JobHeroes'
    BY <1>1, <1>2, <2>2 DEF JobHeroes
  <2> QED BY <2>1, <2>2
<1>5. H = {} => Heroes' \subseteq Heroes
  <2> SUFFICES ASSUME H = {}, NEW g \in Heroes' PROVE g \in Heroes
    OBVIOUS
  <2> PICK h \in gallery : g = SentAs(h, H, G)
    BY <1>1 DEF Heroes
  <2> QED BY <1>2 DEF Heroes
<1>6. ~crowded => PhotosOnce'
  <2> SUFFICES ASSUME GalleryOK, NEW g \in gallery', NEW h \in gallery', g.photo = h.photo, g.photo # 0
               PROVE  g = h
    BY DEF MediaInv, PhotosOnce
  <2> PICK x \in gallery, y \in gallery : g = SentAs(x, H, G) /\ h = SentAs(y, H, G)
    BY <1>1
  <2> QED BY <1>2 DEF GalleryOK, PhotosOnce
<1>7. gallery' \subseteq PhotoType /\ \A g \in gallery' : \E h \in gallery : h.photo = g.photo
  BY <1>1, <1>2
<1> QED BY <1>1, <1>3, <1>4, <1>5, <1>6, <1>7, MediaEdited

LEMMA MediaStep == MediaInv /\ [MediaNext]_mediaVars => MediaInv'
<1> SUFFICES ASSUME MediaInv, [MediaNext]_mediaVars PROVE MediaInv'
  OBVIOUS
<1>1. CASE UNCHANGED mediaVars
  BY <1>1 DEF mediaVars, MediaInv, MediaTyped, GalleryOK, OneCopier, PhotosOnce, OneHero, Alone, Heroes,
              JobHeroes, Foreseen, HeroKnown
<1> QED BY <1>1, MediaStartCopy, MediaAdvance, MediaCopyPhoto, MediaUpload, MediaDelete, MediaReorder
        DEF MediaNext

LEMMA MediaBegins == MediaInit => MediaInv
<1> SUFFICES ASSUME MediaInit PROVE MediaInv
  OBVIOUS
<1>1. copiers \in [Copiers -> CopierType] /\ \A c \in Copiers : copiers[c] = Asleep
  BY AsleepTyped DEF MediaInit
<1>2. IsFiniteSet(gallery) /\ gallery \subseteq PhotoType
  BY FS_EmptySet DEF MediaInit
<1>4. photoEdits \in 0 .. MaxPhotoEdits
  BY MediaAssumption DEF MediaInit
<1>5. MediaTyped
  BY <1>1, <1>2, <1>4, AsleepTyped DEF MediaInit, MediaTyped
<1>3. GalleryOK
  BY <1>1, AsleepTyped DEF MediaInit, GalleryOK, OneCopier, PhotosOnce, OneHero, Alone, Heroes, JobHeroes, Foreseen
<1> QED BY <1>3, <1>5 DEF MediaInv

\* A photo is live once, and the job made one hero at most (importOneKeyMedia),
\* the only one unless an operator asked for another beside it or while the
\* job ran: for any number of photos, executions that do not meet, and any
\* uploads, reorders and deletions by operators.
THEOREM GalleryCorrect == MediaSpec => []GalleryOnce
<1>1. ASSUME NEW S, \A a, b \in S : a = b PROVE Cardinality(S) <= 1
  <2>1. CASE S = {}
    BY <2>1, FS_EmptySet
  <2>2. CASE S # {}
    <3> PICK s : s \in S
      BY <2>2
    <3>1. S = {s}
      BY <1>1
    <3>2. Cardinality({s}) = 1
      BY FS_Singleton
    <3> QED BY <3>1, <3>2
  <2> QED BY <2>1, <2>2
<1>2. MediaInv => GalleryOnce
  <2> SUFFICES ASSUME MediaInv, ~crowded PROVE GalleryOnce
    BY DEF GalleryOnce
  <2>1. /\ Cardinality(JobHeroes) <= 1
        /\ ~pressed /\ JobHeroes # {} => Heroes = JobHeroes
    <3>1. JobHeroes \subseteq Heroes
      BY DEF JobHeroes, Heroes
    <3> QED BY <1>1, <3>1 DEF MediaInv, GalleryOK, OneHero, Alone
  <2>2. ASSUME NEW u \in Urls PROVE Cardinality(Copies(u)) <= 1
    <3>1. \A g, h \in Copies(u) : g = h
      BY DEF Copies, Urls, MediaInv, GalleryOK, PhotosOnce
    <3> QED BY <1>1, <3>1
  <2> QED BY <2>1, <2>2 DEF GalleryOnce
<1> QED BY <1>2, MediaBegins, MediaStep, PTL DEF MediaSpec

\* The photos, the executions of the media job and their counts keep their
\* types; an execution never counts more photos than it was given.
THEOREM MediaTypeCorrect == MediaSpec => []MediaTypeOK
<1>1. MediaInv => MediaTypeOK
  <2> SUFFICES ASSUME MediaInv PROVE MediaTypeOK
    OBVIOUS
  <2>1. \A g \in gallery : g.photo \in 0 .. Photos /\ g.hero \in HeroOf /\ g.copy \in Nat
    BY DEF MediaInv, MediaTyped, PhotoType
  <2> QED BY <2>1 DEF MediaInv, MediaTyped, CopierType, MediaTypeOK
<1> QED BY <1>1, MediaBegins, MediaStep, PTL DEF MediaSpec

-----------------------------------------------------------------------------
(* Facts about numbers, sets and the feed that OneKeySync rests on.        *)

\* A set of naturals that is not empty has a least element.
LEMMA LeastOf ==
  ASSUME NEW S \in SUBSET Nat, S # {}
  PROVE  \E m \in S : \A n \in S : m <= n
<1> DEFINE R == OpToRel(<, Nat)
<1>1. IsWellFoundedOn(R, Nat)
  BY NatLessThanWellFounded
<1>2. \A x, y \in Nat : y < x => <<y, x>> \in R
  BY DEF OpToRel
<1> HIDE DEF R
<1>3. PICK x \in S : \A y \in S : ~(<<y, x>> \in R)
  BY <1>1, WFMin
<1>4. \A y \in S : x \in Nat /\ y \in Nat /\ ~(y < x)
  BY <1>2, <1>3
<1> QED BY <1>4

\* ... and a greatest one, when it has a bound.
LEMMA MaxIsGreatest ==
  ASSUME NEW n \in Nat, NEW S \in SUBSET (0 .. n), S # {}
  PROVE  Max(S) \in S /\ \A i \in S : i <= Max(S)
<1> DEFINE T == {n - i : i \in S}
<1>1. T \in SUBSET Nat /\ T # {}
  <2>1. \A i \in S : i \in 0 .. n /\ n - i \in Nat
    OBVIOUS
  <2> QED BY <2>1
<1> HIDE DEF T
<1>2. PICK m \in T : \A t \in T : m <= t
  BY <1>1, LeastOf
<1>3. PICK j \in S : m = n - j
  BY DEF T
<1>4. \A i \in S : n - i \in T
  BY DEF T
<1>5. \A i \in S : j >= i
  BY <1>2, <1>3, <1>4
<1> QED BY <1>5 DEF Max

LEMMA MaxOfTwo ==
  ASSUME NEW a \in Nat, NEW b \in Nat
  PROVE  Max({a, b}) = IF a >= b THEN a ELSE b
BY DEF Max
LEMMA MinOfTwo ==
  ASSUME NEW a \in Nat, NEW b \in Nat
  PROVE  Min({a, b}) = IF a <= b THEN a ELSE b
BY DEF Min

\* SetToSeq lists every element of a finite set.
LEMMA SetToSeqLists ==
  ASSUME NEW S, IsFiniteSet(S)
  PROVE  /\ SetToSeq(S) \in Seq(S)
         /\ \A e \in S : \E i \in 1 .. Len(SetToSeq(S)) : SetToSeq(S)[i] = e
<1> DEFINE n == Cardinality(S)
           f == SetToSeq(S)
<1>1. n \in Nat /\ ExistsBijection(1 .. n, S)
  BY FS_CardinalityType
<1>2. \E g \in [1 .. n -> S] : IsInjective(g)
  BY <1>1 DEF ExistsBijection, Bijection, Injection
<1>3. f \in [1 .. n -> S] /\ IsInjective(f)
  BY <1>2 DEF SetToSeq
<1> HIDE DEF f
<1>4. f \in Injection(1 .. n, S)
  BY <1>3 DEF Injection
<1>5. Cardinality(1 .. n) = n
  BY <1>1, FS_Interval
<1>6. f \in Surjection(1 .. n, S)
  BY <1>4, <1>5, FS_Injection
<1>7. f \in Seq(S) /\ Len(f) = n
  BY <1>1, <1>3
<1> QED BY <1>6, <1>7 DEF f, Surjection

\* The versions of a key count its events: they grow with the prefix.
LEMMA VersionGrows ==
  ASSUME NEW k, NEW n \in Nat, NEW m \in 0 .. n
  PROVE  Version(k, m) \in Nat /\ Version(k, n) \in Nat /\ Version(k, m) <= Version(k, n)
<1> DEFINE E(j) == {i \in 1 .. j : feed[i] = k}
<1>1. \A j \in Nat : IsFiniteSet(1 .. j)
  BY FS_Interval
<1>2. \A j \in Nat : IsFiniteSet(E(j))
  BY <1>1, FS_Subset
<1>3. E(m) \subseteq E(n) /\ m \in Nat
  OBVIOUS
<1> HIDE DEF E
<1>4. Cardinality(E(m)) \in Nat /\ Cardinality(E(n)) \in Nat /\ Cardinality(E(m)) <= Cardinality(E(n))
  BY <1>2, <1>3, FS_Subset, FS_CardinalityType
<1> QED BY <1>4 DEF E, Version

-----------------------------------------------------------------------------
(* OneKeySync: a page of the search never reaches past the feed.           *)

LEMMA PublishedSize ==
  ASSUME feed \in Seq(Listings)
  PROVE  /\ IsFiniteSet(Published) /\ Cardinality(Published) <= Len(feed)
         /\ Published = {feed[i] : i \in 1 .. Len(feed)} /\ Published \subseteq Listings
         /\ Len(feed) \in Nat /\ DOMAIN feed = 1 .. Len(feed)
<1>1. Len(feed) \in Nat /\ DOMAIN feed = 1 .. Len(feed) /\ \A i \in 1 .. Len(feed) : feed[i] \in Listings
  BY LenProperties
<1>2. Published = {feed[i] : i \in 1 .. Len(feed)}
  BY <1>1 DEF Published, Range
<1> DEFINE f == [i \in 1 .. Len(feed) |-> feed[i]]
<1>3. f \in Surjection(1 .. Len(feed), Published)
  BY <1>2 DEF Surjection
<1>4. IsFiniteSet(1 .. Len(feed)) /\ Cardinality(1 .. Len(feed)) = Len(feed)
  <2>1. 1 \in Int /\ Len(feed) \in Int
    BY <1>1
  <2>2. /\ IsFiniteSet(1 .. Len(feed))
        /\ Cardinality(1 .. Len(feed)) = IF 1 > Len(feed) THEN 0 ELSE Len(feed) - 1 + 1
    BY <2>1, FS_Interval, Zenon
  <2> QED BY <1>1, <2>2
<1> HIDE DEF f
<1>5. IsFiniteSet(Published) /\ Cardinality(Published) <= Len(feed)
  BY <1>3, <1>4, FS_Surjection
<1> QED BY <1>1, <1>2, <1>5

LEMMA LastEventIs ==
  ASSUME feed \in Seq(Listings), NEW k \in Published
  PROVE  LastEvent(k) \in 1 .. Len(feed) /\ feed[LastEvent(k)] = k
<1> DEFINE S == {i \in DOMAIN feed : feed[i] = k}
<1>1. S \in SUBSET (0 .. Len(feed)) /\ S # {} /\ S \subseteq 1 .. Len(feed) /\ Len(feed) \in Nat
  BY PublishedSize
<1>2. Max(S) \in S
  BY <1>1, MaxIsGreatest
<1> QED BY <1>1, <1>2 DEF LastEvent

\* The newer of two listings has fewer listings before it.
LEMMA RankFalls ==
  ASSUME feed \in Seq(Listings), NEW j \in Published, NEW k \in Published,
         LastEvent(j) < LastEvent(k)
  PROVE  Cardinality(NewerThan(k)) < Cardinality(NewerThan(j))
<1>1. \A l \in Published : LastEvent(l) \in Nat
  BY LastEventIs, PublishedSize
<1>2. /\ NewerThan(k) \subseteq NewerThan(j) /\ k \in NewerThan(j) /\ k \notin NewerThan(k)
      /\ NewerThan(j) \subseteq Published
  BY <1>1 DEF NewerThan
<1>3. IsFiniteSet(NewerThan(j))
  BY <1>2, PublishedSize, FS_Subset
<1>4. /\ Cardinality(NewerThan(k)) <= Cardinality(NewerThan(j))
      /\ Cardinality(NewerThan(k)) # Cardinality(NewerThan(j))
      /\ IsFiniteSet(NewerThan(k))
  BY <1>2, <1>3, FS_Subset
<1>5. Cardinality(NewerThan(k)) \in Nat /\ Cardinality(NewerThan(j)) \in Nat
  BY <1>3, <1>4, FS_CardinalityType
<1> QED BY <1>4, <1>5

\* The ranks of the published listings are 0, 1, ... up to their number.
LEMMA FeedRanked ==
  ASSUME feed \in Seq(Listings)
  PROVE  /\ Cardinality(Published) \in Nat
         /\ [k \in Published |-> Cardinality(NewerThan(k))] \in
              Bijection(Published, 0 .. Cardinality(Published) - 1)
<1> DEFINE P == Cardinality(Published)
           rank == [k \in Published |-> Cardinality(NewerThan(k))]
<1>1. /\ IsFiniteSet(Published) /\ P \in Nat /\ Len(feed) \in Nat
  BY PublishedSize, FS_CardinalityType
<1>2. \A k \in Published : Cardinality(NewerThan(k)) \in 0 .. P - 1
  <2> TAKE k \in Published
  <2>1. NewerThan(k) \subseteq Published \ {k}
    <3>1. LastEvent(k) \in Nat
      BY LastEventIs, <1>1
    <3> QED BY <3>1 DEF NewerThan
  <2>2. IsFiniteSet(Published \ {k}) /\ Cardinality(Published \ {k}) = P - 1
    BY <1>1, FS_RemoveElement
  <2>3. IsFiniteSet(NewerThan(k)) /\ Cardinality(NewerThan(k)) <= Cardinality(Published \ {k})
    BY <2>1, <2>2, FS_Subset
  <2>4. Cardinality(NewerThan(k)) \in Nat
    BY <2>3, FS_CardinalityType
  <2> QED BY <1>1, <2>2, <2>3, <2>4
<1>3. \A j, k \in Published : Cardinality(NewerThan(j)) = Cardinality(NewerThan(k)) => j = k
  <2> SUFFICES ASSUME NEW j \in Published, NEW k \in Published,
                      Cardinality(NewerThan(j)) = Cardinality(NewerThan(k)), j # k
               PROVE  FALSE
    OBVIOUS
  <2>1. /\ LastEvent(j) \in Nat /\ LastEvent(k) \in Nat /\ feed[LastEvent(j)] = j
        /\ feed[LastEvent(k)] = k /\ Cardinality(NewerThan(j)) \in Nat
    BY <1>1, <1>2, LastEventIs
  <2>2. CASE LastEvent(j) < LastEvent(k)
    BY <2>1, <2>2, RankFalls
  <2>3. CASE LastEvent(k) < LastEvent(j)
    BY <2>1, <2>3, RankFalls
  <2> QED BY <2>1, <2>2, <2>3
<1>4. rank \in Injection(Published, 0 .. P - 1)
  BY <1>2, <1>3 DEF Injection, IsInjective
<1>5. Cardinality(0 .. P - 1) = P /\ IsFiniteSet(0 .. P - 1)
  <2>1. 0 \in Int /\ P - 1 \in Int
    BY <1>1
  <2>2. /\ IsFiniteSet(0 .. P - 1)
        /\ Cardinality(0 .. P - 1) = IF 0 > P - 1 THEN 0 ELSE P - 1 - 0 + 1
    BY <2>1, FS_Interval, Zenon
  <2> QED BY <1>1, <2>2
<1> HIDE DEF rank, P
<1>6. rank \in Surjection(Published, 0 .. P - 1)
  BY <1>4, <1>5, FS_Injection DEF P
<1> QED BY <1>1, <1>4, <1>6 DEF Bijection, rank, P

LEMMA RankAbove ==
  ASSUME feed \in Seq(Listings), NEW k \in Published
  PROVE  Cardinality(NewerThan(k)) \in Nat
<1> DEFINE P == Cardinality(Published)
           rank == [j \in Published |-> Cardinality(NewerThan(j))]
<1>1. rank \in [Published -> 0 .. P - 1] /\ P \in Nat
  BY FeedRanked DEF Bijection, Injection
<1>2. rank[k] = Cardinality(NewerThan(k))
  OBVIOUS
<1> HIDE DEF rank, P
<1> QED BY <1>1, <1>2

\* A page holds the listings of its ranks: PageSize of them, or all that are left.
LEMMA PageWithin ==
  ASSUME feed \in Seq(Listings), NEW offset \in 0 .. Len(feed)
  PROVE  /\ SearchPage(offset) \subseteq Published
         /\ Cardinality(SearchPage(offset)) \in 0 .. PageSize
         /\ offset + Cardinality(SearchPage(offset)) <= Len(feed)
         /\ Cardinality(SearchPage(offset)) # PageSize =>
              \A k \in Published : Cardinality(NewerThan(k)) < offset + Cardinality(SearchPage(offset))
<1> DEFINE P == Cardinality(Published)
           page == SearchPage(offset)
           rank == [k \in Published |-> Cardinality(NewerThan(k))]
           end == IF offset + PageSize <= P THEN offset + PageSize ELSE P
           T == offset .. end - 1
           f == [k \in page |-> Cardinality(NewerThan(k))]
<1>1. /\ P \in Nat /\ P <= Len(feed) /\ Len(feed) \in Nat /\ offset \in Nat /\ offset <= Len(feed)
      /\ PageSize \in Nat /\ PageSize > 0 /\ end \in Nat
  BY PublishedSize, FeedRanked, SyncAssumption
<1>2. page = {k \in Published : Cardinality(NewerThan(k)) \in offset .. offset + PageSize - 1}
  BY DEF SearchPage
<1>3. rank \in Bijection(Published, 0 .. P - 1)
  BY FeedRanked
<1>4. /\ \A k \in Published : Cardinality(NewerThan(k)) \in 0 .. P - 1
      /\ \A j, k \in Published : Cardinality(NewerThan(j)) = Cardinality(NewerThan(k)) => j = k
      /\ \A r \in 0 .. P - 1 : \E k \in Published : Cardinality(NewerThan(k)) = r
  <2>1. /\ rank \in [Published -> 0 .. P - 1] /\ \A r \in 0 .. P - 1 : \E k \in Published : rank[k] = r
        /\ \A j, k \in Published : rank[j] = rank[k] => j = k
    BY <1>3 DEF Bijection, Injection, Surjection, IsInjective
  <2>2. \A k \in Published : rank[k] = Cardinality(NewerThan(k))
    OBVIOUS
  <2> HIDE DEF rank, P
  <2> QED BY <2>1, <2>2
<1> HIDE DEF rank, P, page, end
<1>5. \A r \in T : r \in 0 .. P - 1 /\ r \in offset .. offset + PageSize - 1
  BY <1>1 DEF end
<1>6. \A k \in page : k \in Published /\ Cardinality(NewerThan(k)) \in T
  BY <1>1, <1>2, <1>4 DEF end
<1>7. f \in Injection(page, T)
  BY <1>4, <1>6 DEF Injection, IsInjective
<1>8. f \in Surjection(page, T)
  <2>1. ASSUME NEW r \in T PROVE \E k \in page : Cardinality(NewerThan(k)) = r
    BY <1>2, <1>4, <1>5, <2>1
  <2>2. \A r \in T : \E k \in page : f[k] = r
    BY <2>1
  <2>3. f \in [page -> T]
    BY <1>6
  <2> HIDE DEF f, T
  <2> QED BY <2>2, <2>3 DEF Surjection
<1>9. IsFiniteSet(T) /\ Cardinality(T) = IF offset > end - 1 THEN 0 ELSE end - 1 - offset + 1
  <2>1. offset \in Int /\ end - 1 \in Int
    BY <1>1
  <2> QED BY <2>1, FS_Interval, Zenon
<1> HIDE DEF f, T
<1>10. Cardinality(page) = Cardinality(T)
  <2>1. IsFiniteSet(page) /\ Cardinality(page) <= Cardinality(T)
    BY <1>7, <1>9, FS_Injection
  <2>2. Cardinality(T) <= Cardinality(page)
    BY <1>8, <2>1, FS_Surjection
  <2>3. Cardinality(page) \in Nat /\ Cardinality(T) \in Nat
    BY <1>9, <2>1, FS_CardinalityType
  <2> QED BY <2>1, <2>2, <2>3
<1>11. Cardinality(page) = IF offset > end - 1 THEN 0 ELSE end - offset
  BY <1>1, <1>9, <1>10
<1>12. Cardinality(page) \in 0 .. PageSize /\ offset + Cardinality(page) <= Len(feed)
  BY <1>1, <1>11 DEF end
<1>13. ASSUME Cardinality(page) # PageSize, NEW k \in Published
       PROVE  Cardinality(NewerThan(k)) < offset + Cardinality(page)
  <2>1. Cardinality(NewerThan(k)) \in 0 .. P - 1
    BY <1>4
  <2> QED BY <1>1, <1>11, <1>13, <2>1 DEF end
<1>14. page \subseteq Published
  BY <1>6
<1> QED BY <1>12, <1>13, <1>14 DEF page

-----------------------------------------------------------------------------
(* OneKeySync: what is before a position is in the index, or in the hands  *)
(* of the execution that holds the position.                               *)

Fetches == [key : Listings, version : Nat]
SyncerType == [pc : {"idle", "page", "delta", "initial"}, keys : Seq(Listings), next : Nat,
               pages : 0 .. MaxPages, more : BOOLEAN, got : SUBSET Fetches]
SyncTyped ==
  /\ feed \in Seq(Listings) /\ index \in [Listings -> Nat] /\ skewed \in BOOLEAN
  /\ cursor \in 0 .. Len(feed) /\ fetch \subseteq Fetches
  /\ syncing \in [Syncers -> SyncerType]
  /\ \A s \in Syncers : /\ syncing[s].next <= Len(feed)
                        /\ syncing[s].pc = "delta" /\ syncing[s].got # {} => syncing[s].keys # <<>>
                        /\ syncing[s].pc = "page" => syncing[s].pages < MaxPages

\* The i-th event is in the index, at its version or a newer one.
Covers(i) == index[feed[i]] >= Version(feed[i], i)
Pending(x, i) == \E j \in 1 .. Len(x.keys) : x.keys[j] = feed[i]
\* An initial sync has, in the index or in its hands, what it has paged over:
\* everything, after a short page.
Held(x, k) == index[k] >= Current(k) \/ \E g \in x.got : g.key = k
Read(x, k) == /\ Cardinality(NewerThan(k)) < x.next => Held(x, k)
              /\ ~x.more => Cardinality(NewerThan(k)) < x.next
              /\ \A g \in x.got : g.key = k => g.version >= Current(k)
InHand(x) ==
  /\ x.pc = "page" => \A i \in 1 .. x.next : Covers(i)
  /\ x.pc = "delta" => /\ \A i \in 1 .. x.next : Covers(i) \/ Pending(x, i)
                       /\ \A g \in x.got : g.key = Head(x.keys) /\ g.version >= Version(g.key, x.next)
  /\ x.pc = "initial" => \A k \in Published : Read(x, k)
LEMMA InitialHolds ==
  ASSUME NEW x, x.pc = "initial", \A k \in Published : Read(x, k)
  PROVE  InHand(x)
BY DEF InHand
Caught == (\A i \in 1 .. cursor : Covers(i)) /\ \A s \in Syncers : InHand(syncing[s])
SyncInv == SyncTyped /\ (~skewed => Caught)

FeedGrows == feed' = feed \/ \E k \in Listings : feed' = Append(feed, k)
IndexRises == \A k \in Listings : index'[k] >= index[k]

\* The events there are keep their place, and what covers them stays.
LEMMA FeedKept ==
  ASSUME feed \in Seq(Listings), FeedGrows
  PROVE  /\ feed' \in Seq(Listings) /\ Len(feed') \in Nat /\ Len(feed') >= Len(feed)
         /\ \A i \in 1 .. Len(feed) : feed'[i] = feed[i]
         /\ \A n \in 0 .. Len(feed) : \A k : Version(k, n)' = Version(k, n)
<1>1. /\ feed' \in Seq(Listings) /\ Len(feed') \in Nat /\ Len(feed') >= Len(feed)
      /\ \A i \in 1 .. Len(feed) : feed'[i] = feed[i]
  BY DEF FeedGrows
<1>2. ASSUME NEW n \in 0 .. Len(feed), NEW k PROVE Version(k, n)' = Version(k, n)
  <2>1. {i \in 1 .. n : feed'[i] = k} = {i \in 1 .. n : feed[i] = k}
    BY <1>1
  <2> QED BY <2>1 DEF Version
<1> QED BY <1>1, <1>2

LEMMA CoverStays ==
  ASSUME SyncTyped, FeedGrows, IndexRises, index' \in [Listings -> Nat],
         NEW i \in 1 .. Len(feed), Covers(i)
  PROVE  Covers(i)'
<1>1. feed[i] \in Listings /\ i \in 0 .. Len(feed) /\ i \in Nat
  BY LenProperties DEF SyncTyped
<1>2. feed'[i] = feed[i] /\ Version(feed[i], i)' = Version(feed[i], i)
  BY <1>1, FeedKept DEF SyncTyped
<1>3. Version(feed[i], i) \in Nat
  BY <1>1, VersionGrows
<1>4. index'[feed[i]] >= index[feed[i]] /\ index'[feed[i]] \in Nat /\ index[feed[i]] \in Nat
  BY <1>1 DEF SyncTyped, IndexRises
<1>5. Covers(i)' = (index'[feed'[i]] >= Version(feed[i], i)')
  BY <1>2 DEF Covers, Version
<1> QED BY <1>2, <1>3, <1>4, <1>5 DEF Covers

LEMMA HandStays ==
  ASSUME SyncTyped, FeedGrows, IndexRises, index' \in [Listings -> Nat],
         NEW s \in Syncers, syncing'[s] = syncing[s], InHand(syncing[s]),
         syncing[s].pc = "initial" => feed' = feed
  PROVE  InHand(syncing[s])'
<1> DEFINE x == syncing[s]
<1>1. x \in SyncerType /\ x.next \in 0 .. Len(feed) /\ Len(feed) \in Nat
  BY LenProperties DEF SyncTyped, SyncerType
<1>2. \A i \in 1 .. x.next : i \in 1 .. Len(feed)
  BY <1>1
<1>3. \A i \in 1 .. x.next : (Covers(i) => Covers(i)') /\ feed'[i] = feed[i]
  BY <1>2, CoverStays, FeedKept DEF SyncTyped
<1>4. \A k : Version(k, x.next)' = Version(k, x.next)
  <2>1. \A n \in 0 .. Len(feed) : \A k : Version(k, n)' = Version(k, n)
    BY FeedKept DEF SyncTyped
  <2>2. \A k : Version(k, x.next)' = Cardinality({i \in 1 .. x.next' : feed'[i] = k})
    BY DEF Version
  <2>3. \A k : Cardinality({i \in 1 .. x.next : feed'[i] = k}) = Version(k, x.next)
    BY <1>1, <2>1 DEF Version
  <2> QED BY <2>2, <2>3
<1>5. \A i \in 1 .. x.next : Pending(x, i) => Pending(x, i)'
  BY <1>3 DEF Pending
<1>6. ASSUME x.pc = "initial", NEW k \in Published PROVE Read(x, k)'
  <2>1. /\ NewerThan(k)' = NewerThan(k) /\ Current(k)' = Current(k)
    BY <1>6 DEF NewerThan, LastEvent, Published, Current, Version
  <2>2. k \in Listings /\ Current(k) \in Nat
    <3>1. k \in Listings /\ Len(feed) \in 0 .. Len(feed)
      BY <1>1, PublishedSize DEF SyncTyped
    <3> QED BY <1>1, <3>1, VersionGrows DEF Current
  <2>3. index[k] \in Nat /\ index'[k] \in Nat /\ index'[k] >= index[k]
    BY <2>2 DEF SyncTyped, IndexRises
  <2>4. Read(x, k)
    BY <1>6 DEF InHand
  <2>5. Held(x, k) => Held(x, k)'
    BY <2>1, <2>2, <2>3 DEF Held
  <2>6. x' = x
    OBVIOUS
  <2> QED BY <2>1, <2>4, <2>5, <2>6 DEF Read
<1>7. x.pc = "initial" => Published' = Published
  BY DEF Published
<1> QED BY <1>3, <1>4, <1>5, <1>6, <1>7 DEF InHand

\* A step that moves the feed or the index forward and leaves to each
\* execution what it has to do.
LEMMA SyncAdvances ==
  ASSUME SyncInv, SyncTyped', FeedGrows,
         ~skewed' => /\ ~skewed /\ IndexRises
                     /\ cursor' = cursor \/ \A i \in 1 .. cursor' : Covers(i)'
                     /\ feed' = feed \/ \A s \in Syncers : syncing[s].pc # "initial"
                     /\ \A s \in Syncers : syncing'[s] = syncing[s] \/ InHand(syncing[s])'
  PROVE  SyncInv'
<1> SUFFICES ASSUME ~skewed' PROVE Caught'
  BY DEF SyncInv
<1>1. SyncTyped /\ Caught /\ index' \in [Listings -> Nat] /\ IndexRises
  BY DEF SyncInv, SyncTyped
<1>2. \A i \in 1 .. cursor' : Covers(i)'
  <2>1. CASE cursor' = cursor
    <3>1. \A i \in 1 .. cursor : i \in 1 .. Len(feed)
      BY <1>1, LenProperties DEF SyncTyped
    <3> QED BY <1>1, <2>1, <3>1, CoverStays DEF Caught
  <2> QED BY <2>1
<1>3. \A s \in Syncers : InHand(syncing[s])'
  BY <1>1, HandStays DEF Caught
<1> QED BY <1>2, <1>3 DEF Caught

\* Writing what was fetched puts a version of it in the index.
LEMMA CacheEffect ==
  ASSUME SyncTyped, NEW got \in SUBSET Fetches, Cache(got)
  PROVE  /\ index' \in [Listings -> Nat] /\ skewed' \in BOOLEAN
         /\ ~skewed' => ~skewed /\ IndexRises
         /\ \A g \in got : \E h \in got : h.key = g.key /\ index'[g.key] = h.version
<1> DEFINE chosen(k) == CHOOSE g \in got : g.key = k
<1>1. \A g \in got : chosen(g.key) \in got /\ chosen(g.key).key = g.key
  OBVIOUS
<1>2. /\ index \in [Listings -> Nat] /\ skewed \in BOOLEAN
      /\ \A g \in got : g.key \in Listings /\ g.version \in Nat
  BY DEF SyncTyped, Fetches
<1>3. /\ index' = [k \in Listings |-> IF \E g \in got : g.key = k THEN chosen(k).version ELSE index[k]]
      /\ skewed' = (skewed \/ \E g \in got : g.version < index[g.key])
  BY DEF Cache
<1> HIDE DEF chosen
<1>4. \A k \in Listings : IF \E g \in got : g.key = k
                          THEN index'[k] = chosen(k).version /\ chosen(k) \in got /\ chosen(k).key = k
                          ELSE index'[k] = index[k]
  BY <1>1, <1>3
<1>5. index' \in [Listings -> Nat]
  BY <1>1, <1>2, <1>3
<1>6. skewed' \in BOOLEAN /\ (~skewed' => ~skewed /\ \A g \in got : ~(g.version < index[g.key]))
  BY <1>2, <1>3
<1>7. ASSUME ~skewed' PROVE IndexRises
  <2> SUFFICES ASSUME NEW k \in Listings PROVE index'[k] >= index[k]
    BY DEF IndexRises
  <2> QED BY <1>2, <1>4, <1>6, <1>7
<1>8. \A g \in got : \E h \in got : h.key = g.key /\ index'[g.key] = h.version
  BY <1>2, <1>4
<1> QED BY <1>5, <1>6, <1>7, <1>8

LEMMA AtRestTyped ==
  /\ AtRest \in SyncerType /\ AtRest.next = 0 /\ AtRest.got = {} /\ AtRest.pc = "idle"
  /\ AtRest.keys = <<>> /\ AtRest.pages = 0
BY EmptySeq, SyncAssumption DEF AtRest, SyncerType

\* The current version of a listing, as a fetch brings it.
LEMMA FetchedCurrent ==
  ASSUME feed \in Seq(Listings), NEW k \in Listings
  PROVE  /\ Fetched(k) \in Fetches /\ Fetched(k).key = k
         /\ \A n \in 0 .. Len(feed) : Version(k, n) <= Fetched(k).version
<1>1. Len(feed) \in Nat
  BY LenProperties
<1>2. \A n \in 0 .. Len(feed) : Version(k, n) <= Current(k) /\ Current(k) \in Nat
  BY <1>1, VersionGrows DEF Current
<1>3. Current(k) \in Nat
  BY <1>1, <1>2
<1> QED BY <1>2, <1>3 DEF Fetched, Fetches

\* An execution moves on and nothing else changes.
LEMMA SyncerMoves ==
  ASSUME SyncInv, NEW s \in Syncers, UNCHANGED <<feed, index, fetch>>,
         syncing' \in [Syncers -> SyncerType], \A r \in Syncers : r # s => syncing'[r] = syncing[r],
         syncing'[s].next <= Len(feed), skewed' \in BOOLEAN, cursor' \in 0 .. Len(feed),
         syncing'[s].pc = "delta" /\ syncing'[s].got # {} => syncing'[s].keys # <<>>,
         syncing'[s].pc = "page" => syncing'[s].pages < MaxPages,
         ~skewed' => /\ ~skewed /\ InHand(syncing'[s])
                     /\ cursor' = cursor \/ \A i \in 1 .. cursor' : Covers(i)
  PROVE  SyncInv'
<1>1. SyncTyped' /\ FeedGrows
  BY DEF SyncInv, SyncTyped, FeedGrows
<1>2. IndexRises
  BY DEF SyncInv, SyncTyped, IndexRises
<1>3. \A i : Covers(i) => Covers(i)'
  BY DEF Covers, Version
<1>4. InHand(syncing'[s]) => InHand(syncing[s])'
  <2>1. Published' = Published /\ \A k : Read(syncing'[s], k) <=> Read(syncing[s], k)'
    BY DEF Read, Held, Current, Version, NewerThan, LastEvent, Published
  <2> QED BY <2>1 DEF InHand, Covers, Version, Pending
<1> QED BY <1>1, <1>2, <1>3, <1>4, SyncAdvances

LEMMA AskChangesStep ==
  ASSUME SyncInv, NEW s \in Syncers, AskChanges(s)
  PROVE  SyncInv'
<1> DEFINE from == syncing[s].next
           last == Max({from, Min({from + PageSize, Len(feed)})})
           more == last < Len(feed)
           S == {feed[i] : i \in from + 1 .. last}
           pages == syncing[s].pages + 1
           x == [AtRest EXCEPT !.pc = "delta", !.next = last, !.pages = pages, !.more = more,
                               !.keys = SetToSeq(S)]
<1>1. /\ feed \in Seq(Listings) /\ Len(feed) \in Nat /\ from \in 0 .. Len(feed) /\ from \in Nat
      /\ \A i \in 1 .. Len(feed) : feed[i] \in Listings
      /\ syncing \in [Syncers -> SyncerType] /\ skewed \in BOOLEAN /\ cursor \in 0 .. Len(feed)
      /\ PageSize \in Nat
  BY LenProperties, SyncAssumption DEF SyncInv, SyncTyped, SyncerType
<1>2. /\ syncing[s].pc = "page" /\ syncing' = [syncing EXCEPT ![s] = x]
      /\ UNCHANGED <<feed, index, cursor, fetch, skewed>>
  BY DEF AskChanges, DeltaFrom
<1>3. last \in from .. Len(feed)
  <2>1. Min({from + PageSize, Len(feed)}) \in 0 .. Len(feed)
    BY <1>1, MinOfTwo
  <2> DEFINE m == Min({from + PageSize, Len(feed)})
  <2>2. m \in Nat /\ m <= Len(feed)
    BY <1>1, <2>1
  <2> HIDE DEF m
  <2>3. Max({from, m}) = IF from >= m THEN from ELSE m
    BY <1>1, <2>2, MaxOfTwo
  <2>4. last = Max({from, m})
    BY DEF m
  <2> HIDE DEF last
  <2> QED BY <1>1, <2>2, <2>3, <2>4
<1>4. IsFiniteSet(S) /\ S \subseteq Listings
  <2> DEFINE f == [i \in from + 1 .. last |-> feed[i]]
  <2>1. f \in Surjection(from + 1 .. last, S)
    BY DEF Surjection
  <2>2. IsFiniteSet(from + 1 .. last)
    <3>1. from + 1 \in Int /\ last \in Int
      BY <1>1, <1>3
    <3> QED BY <3>1, FS_Interval
  <2>3. IsFiniteSet(S)
    BY <2>1, <2>2, FS_Surjection
  <2> QED BY <1>1, <1>3, <2>3
<1>5. /\ SetToSeq(S) \in Seq(Listings)
      /\ \A i \in from + 1 .. last : \E j \in 1 .. Len(SetToSeq(S)) : SetToSeq(S)[j] = feed[i]
  <2>1. SetToSeq(S) \in Seq(S) /\ \A e \in S : \E j \in 1 .. Len(SetToSeq(S)) : SetToSeq(S)[j] = e
    BY <1>4, SetToSeqLists
  <2>2. \A i \in from + 1 .. last : feed[i] \in S
    OBVIOUS
  <2> HIDE DEF S
  <2> QED BY <1>4, <2>1, <2>2, SeqMonotonic
<1>6. more \in BOOLEAN /\ pages \in 0 .. MaxPages
  BY <1>2, SyncAssumption DEF SyncInv, SyncTyped, SyncerType
<1> HIDE DEF last, more, S, pages
<1>7. /\ x \in SyncerType /\ x.pc = "delta" /\ x.next = last /\ x.keys = SetToSeq(S) /\ x.got = {}
  <2> DEFINE keys == SetToSeq(S)
  <2>1. last \in Nat /\ keys \in Seq(Listings)
    BY <1>1, <1>3, <1>5
  <2>2. x = [AtRest EXCEPT !.pc = "delta", !.next = last, !.pages = pages, !.more = more,
                           !.keys = keys]
    OBVIOUS
  <2> HIDE DEF x, keys
  <2>3. /\ x \in SyncerType /\ x.pc = "delta" /\ x.next = last /\ x.keys = keys /\ x.got = {}
    BY <1>6, <2>1, <2>2, AtRestTyped DEF SyncerType
  <2> QED BY <2>3 DEF keys
<1> HIDE DEF x
<1>8. /\ syncing' \in [Syncers -> SyncerType] /\ syncing'[s] = x
      /\ \A r \in Syncers : r # s => syncing'[r] = syncing[r]
  BY <1>1, <1>2, <1>7
<1>9. ~skewed => InHand(x)
  <2> SUFFICES ASSUME ~skewed, NEW i \in 1 .. last PROVE Covers(i) \/ Pending(x, i)
    BY <1>7 DEF InHand
  <2>1. CASE i \in 1 .. from
    BY <1>2, <2>1 DEF SyncInv, Caught, InHand
  <2>2. CASE i \in from + 1 .. last
    BY <1>5, <1>7, <2>2 DEF Pending
  <2> QED BY <1>1, <1>3, <2>1, <2>2
<1> QED BY <1>1, <1>2, <1>3, <1>7, <1>8, <1>9, SyncerMoves

\* What the steps of an execution find.
LEMMA SyncerTyped ==
  ASSUME SyncInv, NEW s \in Syncers
  PROVE  /\ feed \in Seq(Listings) /\ Len(feed) \in Nat /\ syncing \in [Syncers -> SyncerType]
         /\ syncing[s] \in SyncerType /\ syncing[s].next \in 0 .. Len(feed)
         /\ skewed \in BOOLEAN /\ cursor \in 0 .. Len(feed) /\ fetch \subseteq Fetches
         /\ \A i \in 1 .. Len(feed) : feed[i] \in Listings
         /\ ~skewed => InHand(syncing[s])
BY LenProperties DEF SyncInv, SyncTyped, SyncerType, Caught

LEMMA SyncerStarts ==
  ASSUME SyncInv, NEW s \in Syncers, StartDelta(s) \/ StopSync(s) \/ StartInitial(s)
  PROVE  SyncInv'
<1>1. UNCHANGED <<feed, index, cursor, fetch, skewed>>
  BY DEF StartDelta, StopSync, StartInitial
<1>2. ASSUME NEW x \in SyncerType, syncing' = [syncing EXCEPT ![s] = x], x.got = {},
             x.next <= Len(feed), x.pc # "delta",
             x.pc = "page" => x.next = cursor /\ x.pages < MaxPages,
             x.pc = "initial" => x.next = 0 /\ x.more
      PROVE  SyncInv'
  <2>1. /\ syncing' \in [Syncers -> SyncerType] /\ syncing'[s] = x
        /\ \A r \in Syncers : r # s => syncing'[r] = syncing[r]
    BY <1>2, SyncerTyped
  <2>2. x.pc = "initial" => \A k \in Published : Read(x, k)
    <3>1. \A k \in Published : Cardinality(NewerThan(k)) \in Nat
      BY SyncerTyped, RankAbove
    <3> QED BY <1>2, <3>1 DEF Read
  <2>3. ~skewed => InHand(x)
    BY <1>2, <2>2 DEF SyncInv, Caught, InHand
  <2> QED BY <1>1, <1>2, <2>1, <2>3, SyncerMoves, SyncerTyped
<1>3. CASE StartDelta(s)
  <2> DEFINE x == [AtRest EXCEPT !.pc = "page", !.next = cursor]
  <2>0. cursor \in Nat
    BY SyncerTyped
  <2>1. x \in SyncerType /\ x.got = {} /\ x.next = cursor /\ x.pc = "page" /\ x.pages = 0
    BY <2>0, AtRestTyped DEF SyncerType
  <2>4. 0 < MaxPages
    BY SyncAssumption
  <2>2. syncing' = [syncing EXCEPT ![s] = x]
    BY <1>3 DEF StartDelta
  <2> HIDE DEF x
  <2>3. x.next <= Len(feed)
    BY <2>1, SyncerTyped
  <2> QED BY <1>2, <2>1, <2>2, <2>3, <2>4
<1>4. CASE StopSync(s)
  <2>1. AtRest.next <= Len(feed)
    BY AtRestTyped, SyncerTyped
  <2>2. syncing' = [syncing EXCEPT ![s] = AtRest]
    BY <1>4 DEF StopSync
  <2> QED BY <1>2, <2>1, <2>2, AtRestTyped
<1>5. CASE StartInitial(s)
  <2> DEFINE x == [AtRest EXCEPT !.pc = "initial", !.more = TRUE]
  <2>1. x \in SyncerType /\ x.got = {} /\ x.next = 0 /\ x.pc = "initial" /\ x.more
    BY AtRestTyped DEF SyncerType
  <2>2. syncing' = [syncing EXCEPT ![s] = x]
    BY <1>5 DEF StartInitial
  <2> HIDE DEF x
  <2>3. x.next <= Len(feed)
    BY <2>1, SyncerTyped
  <2> QED BY <1>2, <2>1, <2>2, <2>3
<1> QED BY <1>3, <1>4, <1>5

LEMMA FetchNextStep ==
  ASSUME SyncInv, NEW s \in Syncers, FetchNext(s)
  PROVE  SyncInv'
<1> DEFINE x == syncing[s]
           k == Head(x.keys)
<1>1. /\ x.pc = "delta" /\ x.keys # <<>> /\ x.got = {}
      /\ syncing' = [syncing EXCEPT ![s].got = {Fetched(k)}]
      /\ UNCHANGED <<feed, index, cursor, fetch, skewed>>
  BY DEF FetchNext
<1>2. k \in Listings
  BY <1>1, SyncerTyped, HeadTailProperties DEF SyncerType
<1>3. /\ Fetched(k) \in Fetches /\ Fetched(k).key = k
      /\ Version(k, x.next) <= Fetched(k).version
  BY <1>2, FetchedCurrent, SyncerTyped
<1>4. /\ syncing' \in [Syncers -> SyncerType]
      /\ \A r \in Syncers : r # s => syncing'[r] = syncing[r]
      /\ syncing'[s].pc = "delta" /\ syncing'[s].keys = x.keys /\ syncing'[s].next = x.next
      /\ syncing'[s].got = {Fetched(k)}
  BY <1>1, <1>3, SyncerTyped DEF SyncerType
<1>5. ~skewed => InHand(syncing'[s])
  <2>1. Version(k, x.next) \in Nat /\ Fetched(k).version \in Nat
    BY <1>3, SyncerTyped, VersionGrows DEF Fetches
  <2>2. \A g \in {Fetched(k)} : g.key = k /\ g.version >= Version(g.key, x.next)
    BY <1>3, <2>1
  <2> QED BY <1>1, <1>4, <2>2, SyncerTyped DEF InHand, Pending
<1>6. cursor' = cursor /\ cursor' \in 0 .. Len(feed) /\ skewed' \in BOOLEAN /\ x.next <= Len(feed)
  BY <1>1, SyncerTyped
<1> HIDE DEF x, k
<1> QED BY <1>1, <1>4, <1>5, <1>6, SyncerMoves DEF x

LEMMA SaveCursorStep ==
  ASSUME SyncInv, NEW s \in Syncers, SaveCursor(s)
  PROVE  SyncInv'
<1> DEFINE x == syncing[s]
           y == TurnPage(x)
<1>1. /\ x.pc = "delta" /\ x.keys = <<>> /\ cursor' = x.next
      /\ syncing' = [syncing EXCEPT ![s] = y]
      /\ UNCHANGED <<feed, index, fetch, skewed>>
  BY DEF SaveCursor
<1>2. /\ y \in SyncerType /\ y.got = {} /\ y.pc \in {"page", "idle"}
      /\ y.next = 0 \/ y.next = x.next
      /\ y.pc = "page" => y.next = x.next /\ y.pages < MaxPages
  BY AtRestTyped, SyncerTyped DEF SyncerType, TurnPage
<1> HIDE DEF y
<1>3. ~skewed => \A i \in 1 .. x.next : Covers(i)
  BY <1>1, SyncerTyped DEF InHand, Pending
<1>4. /\ syncing' \in [Syncers -> SyncerType] /\ syncing'[s] = y
      /\ \A r \in Syncers : r # s => syncing'[r] = syncing[r]
  BY <1>1, <1>2, SyncerTyped
<1>5. ~skewed => InHand(y)
  BY <1>2, <1>3 DEF InHand
<1>6. y.next <= Len(feed)
  BY <1>2, SyncerTyped
<1> QED BY <1>1, <1>2, <1>3, <1>4, <1>5, <1>6, SyncerMoves, SyncerTyped

LEMMA FetchPageStep ==
  ASSUME SyncInv, NEW s \in Syncers, FetchPage(s)
  PROVE  SyncInv'
<1> DEFINE x == syncing[s]
           page == SearchPage(x.next)
           got == {Fetched(k) : k \in page}
           more == Cardinality(page) = PageSize
           next == x.next + Cardinality(page)
           pages == x.pages + 1
           y == [x EXCEPT !.next = next, !.pages = pages, !.got = got, !.more = more]
<1>1. /\ x.pc = "initial" /\ x.got = {} /\ x.more /\ x.pages < MaxPages
      /\ UNCHANGED <<feed, index, cursor, fetch, skewed>>
      /\ syncing' = [syncing EXCEPT ![s].next = @ + Cardinality(page), ![s].pages = @ + 1,
                                    ![s].got = got, ![s].more = more]
  BY DEF FetchPage
<1>2. /\ page \subseteq Published /\ page \subseteq Listings /\ next \in Nat /\ next <= Len(feed)
      /\ next <= x.next + PageSize /\ x.next \in Nat
      /\ ~more => \A k \in Published : Cardinality(NewerThan(k)) < next
  <2>1. /\ page \subseteq Published /\ Cardinality(page) \in 0 .. PageSize
        /\ x.next + Cardinality(page) <= Len(feed)
        /\ ~more => \A k \in Published : Cardinality(NewerThan(k)) < x.next + Cardinality(page)
    BY SyncerTyped, PageWithin
  <2>2. Published \subseteq Listings /\ x.next \in Nat /\ PageSize \in Nat
    BY SyncerTyped, PublishedSize, SyncAssumption
  <2> HIDE DEF page, x
  <2> QED BY <2>1, <2>2
<1>3. got \subseteq Fetches /\ \A k \in page : Fetched(k).key = k /\ Fetched(k).version = Current(k)
  BY <1>2, FetchedCurrent, SyncerTyped DEF Fetched
<1>4. more \in BOOLEAN /\ pages \in 0 .. MaxPages
  <2>1. x.pages \in 0 .. MaxPages
    BY SyncerTyped DEF SyncerType
  <2>2. x.pages < MaxPages
    BY <1>1
  <2>3. more \in BOOLEAN
    OBVIOUS
  <2> HIDE DEF x, more
  <2> QED BY <2>1, <2>2, <2>3, SyncAssumption
<1>5. syncing' = [syncing EXCEPT ![s] = y]
  BY <1>1, SyncerTyped
<1>p. \A k \in Published : Cardinality(NewerThan(k)) < next =>
        Cardinality(NewerThan(k)) < x.next \/ k \in page
  <2> SUFFICES ASSUME NEW k \in Published, Cardinality(NewerThan(k)) < next,
                      ~(Cardinality(NewerThan(k)) < x.next)
               PROVE  k \in page
    OBVIOUS
  <2>1. Cardinality(NewerThan(k)) \in Nat
    BY SyncerTyped, RankAbove
  <2> HIDE DEF next
  <2> QED BY <1>2, <2>1, SyncAssumption DEF SearchPage
<1>c. \A k \in page : Current(k) \in Nat
  <2>1. \A k \in Listings : Version(k, Len(feed)) \in Nat
    BY SyncerTyped, VersionGrows
  <2> QED BY <1>2, <2>1 DEF Current
<1>g. /\ \A k \in page : \E g \in got : g.key = k
      /\ \A g \in got : \E k \in page : g.key = k /\ g.version = Current(k)
  BY <1>3
<1> HIDE DEF got, more, next, pages
<1>6. /\ y \in SyncerType /\ y.pc = "initial" /\ y.next = next /\ y.got = got /\ y.more = more
  BY <1>1, <1>2, <1>3, <1>4, SyncerTyped DEF SyncerType
<1> HIDE DEF y, page
<1>7. /\ syncing' \in [Syncers -> SyncerType] /\ syncing'[s] = y
      /\ \A r \in Syncers : r # s => syncing'[r] = syncing[r]
  BY <1>5, <1>6, SyncerTyped
<1>8. ASSUME ~skewed, NEW k \in Published PROVE Read(y, k)
  <2>1. Read(x, k)
    BY <1>1, <1>8, SyncerTyped DEF InHand
  <2>2. Cardinality(NewerThan(k)) < next => Held(y, k)
    BY <1>1, <1>p, <1>g, <1>6, <2>1 DEF Read, Held
  <2>3. \A g \in got : g.key = k => g.version >= Current(k)
    BY <1>c, <1>g
  <2> QED BY <1>2, <1>6, <2>2, <2>3 DEF Read
<1>9. ~skewed => InHand(y)
  <2>1. ~skewed => \A k \in Published : Read(y, k)
    BY <1>8
  <2>2. y.pc = "initial"
    BY <1>6
  <2> QED BY <2>1, <2>2, InitialHolds
<1>10. /\ UNCHANGED <<feed, index, fetch>> /\ cursor' = cursor /\ skewed' = skewed
       /\ skewed' \in BOOLEAN /\ cursor' \in 0 .. Len(feed)
       /\ syncing'[s].next <= Len(feed) /\ syncing'[s].pc = "initial"
  BY <1>1, <1>2, <1>6, <1>7, SyncerTyped
<1>11. ~skewed' => InHand(syncing'[s])
  BY <1>7, <1>9, <1>10
<1> QED BY <1>7, <1>10, <1>11, SyncerMoves

\* A sync that read a short page has everything published in the index: the
\* number of records it read is no more than the number of events.
LEMMA FinishInitialStep ==
  ASSUME SyncInv, NEW s \in Syncers, FinishInitial(s)
  PROVE  SyncInv'
<1> DEFINE n == syncing[s].next
<1>1. /\ cursor' = n /\ syncing' = [syncing EXCEPT ![s] = AtRest]
      /\ syncing[s].pc = "initial" /\ syncing[s].got = {}
      /\ skewed' = (skewed \/ syncing[s].more)
      /\ UNCHANGED <<feed, index, fetch>>
  BY DEF FinishInitial
<1>2. skewed' \in BOOLEAN
  BY <1>1, SyncerTyped DEF SyncerType
<1>3. ASSUME ~skewed' PROVE ~skewed /\ \A i \in 1 .. n : Covers(i)
  <2>1. ~skewed /\ ~syncing[s].more
    BY <1>1, <1>3
  <2>2. \A k \in Published : index[k] >= Current(k)
    BY <1>1, <2>1, SyncerTyped DEF InHand, Read, Held
  <2>3. ASSUME NEW i \in 1 .. n PROVE Covers(i)
    <3>1. i \in 1 .. Len(feed) /\ i \in 0 .. Len(feed) /\ feed[i] \in Listings
      BY SyncerTyped
    <3>2. feed[i] \in Published
      BY <3>1, SyncerTyped, PublishedSize
    <3>3. /\ Version(feed[i], i) \in Nat /\ Current(feed[i]) \in Nat
          /\ Version(feed[i], i) <= Current(feed[i])
      BY <3>1, SyncerTyped, VersionGrows DEF Current
    <3>4. index[feed[i]] \in Nat
      BY <3>1 DEF SyncInv, SyncTyped
    <3> QED BY <2>2, <3>2, <3>3, <3>4 DEF Covers
  <2> QED BY <2>1, <2>3
<1>4. /\ syncing' \in [Syncers -> SyncerType] /\ syncing'[s] = AtRest
      /\ \A r \in Syncers : r # s => syncing'[r] = syncing[r]
  BY <1>1, AtRestTyped, SyncerTyped
<1>5. InHand(AtRest) /\ AtRest.next <= Len(feed)
  BY AtRestTyped, SyncerTyped DEF InHand
<1> QED BY <1>1, <1>2, <1>3, <1>4, <1>5, AtRestTyped, SyncerMoves, SyncerTyped

LEMMA CacheNextStep ==
  ASSUME SyncInv, NEW s \in Syncers, CacheNext(s)
  PROVE  SyncInv'
<1> DEFINE x == syncing[s]
           k == Head(x.keys)
<1>1. /\ x.pc = "delta" /\ x.got # {} /\ Cache(x.got) /\ x.keys # <<>>
      /\ syncing' = [syncing EXCEPT ![s].keys = Tail(@), ![s].got = {}]
      /\ UNCHANGED <<feed, cursor, fetch>>
  BY DEF CacheNext, SyncInv, SyncTyped
<1>2. /\ x \in SyncerType /\ x.next \in 0 .. Len(feed) /\ Len(feed) \in Nat
      /\ syncing \in [Syncers -> SyncerType]
      /\ (~skewed => InHand(x))
      /\ x.got \in SUBSET Fetches
  BY SyncerTyped DEF SyncerType
<1>3. /\ k \in Listings /\ Tail(x.keys) \in Seq(Listings) /\ Len(Tail(x.keys)) = Len(x.keys) - 1
      /\ \A j \in 1 .. Len(Tail(x.keys)) : Tail(x.keys)[j] = x.keys[j + 1]
      /\ Len(x.keys) \in Nat /\ k = x.keys[1]
  BY <1>1, <1>2, HeadTailProperties, LenProperties DEF SyncerType
<1>4. /\ index' \in [Listings -> Nat] /\ skewed' \in BOOLEAN
      /\ (~skewed' => ~skewed /\ IndexRises)
      /\ \A g \in x.got : \E h \in x.got : h.key = g.key /\ index'[g.key] = h.version
  BY <1>1, <1>2, CacheEffect DEF SyncInv
<1>5. /\ syncing' \in [Syncers -> SyncerType]
      /\ \A r \in Syncers : r # s => syncing'[r] = syncing[r]
      /\ syncing'[s].pc = "delta" /\ syncing'[s].next = x.next
      /\ syncing'[s].keys = Tail(x.keys) /\ syncing'[s].got = {}
  <2> DEFINE rest == Tail(x.keys)
             y == [x EXCEPT !.keys = rest, !.got = {}]
  <2>1. syncing' = [syncing EXCEPT ![s] = y]
    BY <1>1, <1>2 DEF SyncerType
  <2>2. rest \in Seq(Listings)
    BY <1>3
  <2> HIDE DEF rest
  <2>3. y \in SyncerType /\ y.pc = x.pc /\ y.next = x.next /\ y.keys = rest /\ y.got = {}
    BY <1>2, <2>2 DEF SyncerType
  <2> HIDE DEF y
  <2> QED BY <1>1, <1>2, <2>1, <2>3 DEF rest
<1>6. SyncTyped'
  BY <1>1, <1>2, <1>4, <1>5 DEF SyncInv, SyncTyped
<1>7. ASSUME ~skewed' PROVE InHand(syncing[s])'
  <2>0. ~skewed /\ IndexRises /\ InHand(x)
    BY <1>2, <1>4, <1>7
  <2>1. index'[k] \in Nat /\ index'[k] >= Version(k, x.next)
    <3>1. PICK g \in x.got : TRUE
      BY <1>1
    <3>2. PICK h \in x.got : h.key = g.key /\ index'[g.key] = h.version
      BY <1>4
    <3>3. g.key = k /\ h.key = k /\ h.version >= Version(h.key, x.next)
      BY <1>1, <2>0, <3>2 DEF InHand
    <3> QED BY <1>3, <1>4, <3>2, <3>3
  <2>2. ASSUME NEW i \in 1 .. x.next PROVE Covers(i)' \/ Pending(syncing[s], i)'
    <3>0. i \in 1 .. Len(feed) /\ i \in Nat /\ x.next \in Nat /\ i \in 0 .. x.next /\ i \in 0 .. Len(feed)
      BY <1>2
    <3>1. CASE Covers(i)
      BY <1>1, <1>4, <2>0, <3>0, <3>1, CoverStays DEF SyncInv, FeedGrows
    <3>2. ASSUME NEW j \in 1 .. Len(x.keys), x.keys[j] = feed[i]
          PROVE  Covers(i)' \/ Pending(syncing[s], i)'
      <4>1. CASE j = 1
        <5>1. feed[i] = k
          BY <1>3, <3>2, <4>1
        <5>2. Version(k, i) \in Nat /\ Version(k, x.next) \in Nat /\ Version(k, i) <= Version(k, x.next)
          BY <3>0, VersionGrows
        <5>3. index'[feed[i]] >= Version(feed[i], i)
          BY <2>1, <5>1, <5>2
        <5> QED BY <1>1, <5>3 DEF Covers, Version
      <4>2. CASE j # 1
        <5>1. j - 1 \in 1 .. Len(Tail(x.keys)) /\ Tail(x.keys)[j - 1] = x.keys[j]
          BY <1>3, <4>2
        <5> QED BY <1>1, <1>5, <3>2, <5>1 DEF Pending
      <4> QED BY <4>1, <4>2
    <3> QED BY <1>1, <2>0, <3>1, <3>2 DEF InHand, Pending
  <2> QED BY <1>5, <2>2 DEF InHand
<1>8. FeedGrows /\ cursor' = cursor /\ feed' = feed
  BY <1>1 DEF FeedGrows
<1> QED BY <1>4, <1>5, <1>6, <1>7, <1>8, SyncAdvances

LEMMA CachePageStep ==
  ASSUME SyncInv, NEW s \in Syncers, CachePage(s)
  PROVE  SyncInv'
<1> DEFINE x == syncing[s]
<1>1. /\ x.pc = "initial" /\ Cache(x.got) /\ syncing' = [syncing EXCEPT ![s].got = {}]
      /\ UNCHANGED <<feed, cursor, fetch>>
  BY DEF CachePage
<1>2. /\ x \in SyncerType /\ x.next \in 0 .. Len(feed) /\ syncing \in [Syncers -> SyncerType]
      /\ x.got \in SUBSET Fetches
  BY SyncerTyped DEF SyncerType
<1>3. /\ index' \in [Listings -> Nat] /\ skewed' \in BOOLEAN
      /\ ~skewed' => ~skewed /\ IndexRises
      /\ \A g \in x.got : \E h \in x.got : h.key = g.key /\ index'[g.key] = h.version
  BY <1>1, <1>2, CacheEffect DEF SyncInv
<1>4. /\ syncing' \in [Syncers -> SyncerType]
      /\ \A r \in Syncers : r # s => syncing'[r] = syncing[r]
      /\ syncing'[s].pc = "initial" /\ syncing'[s].next = x.next /\ syncing'[s].got = {}
      /\ syncing'[s].more = x.more
  BY <1>1, <1>2 DEF SyncerType
<1>5. SyncTyped'
  BY <1>1, <1>2, <1>3, <1>4 DEF SyncInv, SyncTyped
<1>6. FeedGrows /\ cursor' = cursor /\ feed' = feed
  BY <1>1 DEF FeedGrows
<1>7. ASSUME ~skewed', NEW k \in Published PROVE Read(syncing[s], k)'
  <2>1. ~skewed /\ IndexRises /\ Read(x, k)
    BY <1>1, <1>3, <1>7, SyncerTyped DEF InHand
  <2>2. /\ NewerThan(k)' = NewerThan(k) /\ Current(k)' = Current(k)
    BY <1>6 DEF NewerThan, LastEvent, Published, Current, Version
  <2>3. k \in Listings /\ Current(k) \in Nat
    <3>1. k \in Listings /\ Len(feed) \in 0 .. Len(feed)
      BY SyncerTyped, PublishedSize
    <3> QED BY <3>1, SyncerTyped, VersionGrows DEF Current
  <2>4. index[k] \in Nat /\ index'[k] \in Nat /\ index'[k] >= index[k]
    BY <1>3, <2>1, <2>3 DEF SyncInv, SyncTyped, IndexRises
  <2>5. Cardinality(NewerThan(k)) < x.next => index'[k] >= Current(k)
    <3>1. ASSUME NEW g \in x.got, g.key = k PROVE index'[k] >= Current(k)
      <4>1. PICK h \in x.got : h.key = k /\ index'[k] = h.version
        BY <1>3, <3>1
      <4> QED BY <2>1, <4>1 DEF Read
    <3> QED BY <2>1, <2>3, <2>4, <3>1 DEF Read, Held
  <2> QED BY <1>4, <2>1, <2>2, <2>5 DEF Read, Held
<1>8. Published' = Published
  BY <1>6 DEF Published
<1>9. ~skewed' => InHand(syncing[s])'
  BY <1>4, <1>7, <1>8 DEF InHand
<1> QED BY <1>3, <1>4, <1>5, <1>6, <1>9, SyncAdvances

LEMMA OnDemandStep ==
  ASSUME SyncInv, CacheOnDemand \/ \E k \in Listings : Publish(k) \/ FetchOnDemand(k)
  PROVE  SyncInv'
<1>0. /\ feed \in Seq(Listings) /\ index \in [Listings -> Nat] /\ fetch \subseteq Fetches
      /\ skewed \in BOOLEAN /\ cursor \in 0 .. Len(feed) /\ Len(feed) \in Nat
      /\ \A s \in Syncers : syncing[s].next \in Nat
  BY LenProperties DEF SyncInv, SyncTyped, SyncerType
<1>r. index' = index => IndexRises
  BY <1>0 DEF IndexRises
<1>1. CASE CacheOnDemand
  <2>1. /\ index' \in [Listings -> Nat] /\ skewed' \in BOOLEAN
        /\ ~skewed' => ~skewed /\ IndexRises
        /\ fetch' = {} /\ UNCHANGED <<feed, cursor, syncing>>
    BY <1>0, <1>1, CacheEffect DEF CacheOnDemand, SyncInv
  <2>2. SyncTyped' /\ FeedGrows
    BY <2>1 DEF SyncInv, SyncTyped, FeedGrows
  <2> QED BY <2>1, <2>2, SyncAdvances
<1>2. ASSUME NEW k \in Listings, FetchOnDemand(k) PROVE SyncInv'
  <2>1. fetch' = {Fetched(k)} /\ UNCHANGED <<feed, index, cursor, syncing, skewed>>
    BY <1>2 DEF FetchOnDemand
  <2>2. fetch' \subseteq Fetches
    BY <1>0, <2>1, FetchedCurrent
  <2>3. SyncTyped' /\ FeedGrows
    BY <2>1, <2>2 DEF SyncInv, SyncTyped, FeedGrows
  <2> QED BY <1>r, <2>1, <2>3, SyncAdvances
<1>3. ASSUME NEW k \in Listings, Publish(k) PROVE SyncInv'
  <2>1. /\ feed' = Append(feed, k) /\ UNCHANGED <<index, cursor, syncing, fetch>>
        /\ skewed' = (skewed \/ \E s \in Syncers : syncing[s].pc = "initial")
    BY <1>3 DEF Publish
  <2>5. /\ skewed' \in BOOLEAN
        /\ ~skewed' => ~skewed /\ \A s \in Syncers : syncing[s].pc # "initial"
    BY <1>0, <2>1
  <2>2. FeedGrows
    BY <2>1 DEF FeedGrows
  <2>3. feed' \in Seq(Listings) /\ Len(feed') \in Nat /\ Len(feed') >= Len(feed)
    BY <1>0, <2>2, FeedKept
  <2>4. SyncTyped'
    BY <1>0, <2>1, <2>3, <2>5 DEF SyncInv, SyncTyped
  <2> QED BY <1>r, <2>1, <2>2, <2>4, <2>5, SyncAdvances
<1> QED BY <1>1, <1>2, <1>3

LEMMA SyncStep == SyncInv /\ [SyncNext]_syncVars => SyncInv'
<1> SUFFICES ASSUME SyncInv, [SyncNext]_syncVars PROVE SyncInv'
  OBVIOUS
<1>1. CASE UNCHANGED syncVars
  <2>1. SyncTyped' /\ FeedGrows /\ feed' = feed /\ cursor' = cursor /\ skewed' = skewed
    BY <1>1 DEF syncVars, SyncInv, SyncTyped, FeedGrows
  <2>2. IndexRises /\ syncing' = syncing
    BY <1>1 DEF syncVars, SyncInv, SyncTyped, IndexRises
  <2> QED BY <2>1, <2>2, SyncAdvances
<1>2. ASSUME NEW s \in Syncers,
             StartDelta(s) \/ AskChanges(s) \/ FetchNext(s) \/ CacheNext(s) \/ SaveCursor(s)
               \/ StopSync(s) \/ StartInitial(s) \/ FetchPage(s) \/ CachePage(s) \/ FinishInitial(s)
      PROVE  SyncInv'
  BY <1>2, SyncerStarts, AskChangesStep, FetchNextStep, CacheNextStep, SaveCursorStep, FetchPageStep,
     CachePageStep, FinishInitialStep
<1> QED BY <1>1, <1>2, OnDemandStep DEF SyncNext

LEMMA SyncBegins == SyncInit => SyncInv
<1> SUFFICES ASSUME SyncInit PROVE SyncInv
  OBVIOUS
<1>1. feed = <<>> /\ feed \in Seq(Listings) /\ Len(feed) = 0
  BY EmptySeq DEF SyncInit
<1>2. /\ syncing \in [Syncers -> SyncerType]
      /\ \A s \in Syncers : syncing[s] = AtRest
  BY AtRestTyped DEF SyncInit
<1>3. SyncTyped
  <2>1. 0 \in Nat /\ 0 \in 0 .. 0 /\ AtRest.next = 0
    BY DEF AtRest
  <2>2. index \in [Listings -> Nat] /\ cursor \in 0 .. Len(feed) /\ skewed \in BOOLEAN /\ fetch = {}
    BY <1>1, <2>1 DEF SyncInit
  <2>3. \A s \in Syncers : syncing[s].next <= Len(feed)
    BY <1>1, <1>2, <2>1
  <2>4. \A s \in Syncers : syncing[s].got = {} /\ syncing[s].pc = "idle"
    BY <1>2, AtRestTyped
  <2> QED BY <1>1, <1>2, <2>2, <2>3, <2>4 DEF SyncTyped
<1>4. Caught
  BY <1>2, AtRestTyped DEF SyncInit, Caught, InHand
<1> QED BY <1>3, <1>4 DEF SyncInv

\* Every event before the saved cursor is in the index at its version or a
\* newer one: for any listings, page size, page cap, log and executions of
\* either sync that run beside each other, searches and imports, as long as no
\* late write went over a newer one, the feed stood still under an initial sync
\* and no initial sync was cut short by the cap.
THEOREM NothingLost == SyncSpec => []SyncLosesNothing
<1>1. SyncInv => SyncLosesNothing
  BY DEF SyncInv, Caught, Covers, SyncLosesNothing
<1> QED BY <1>1, SyncBegins, SyncStep, PTL DEF SyncSpec

-----------------------------------------------------------------------------
(* OneKeySync: nobody holds, and the index never shows, a version that the  *)
(* provider has not published.                                             *)

Real(got) == \A g \in got : g.version <= Current(g.key)
NoneAhead ==
  /\ Len(feed) <= MaxPublished
  /\ \A k \in Listings : index[k] <= Current(k)
  /\ Real(fetch) /\ \A s \in Syncers : Real(syncing[s].got)

\* A listing's version counts its events, of which there are no more than all.
LEMMA CurrentFits ==
  ASSUME feed \in Seq(Listings), NEW k
  PROVE  Current(k) \in Nat /\ Current(k) <= Len(feed)
<1> PICK n : n = Len(feed)
  OBVIOUS
<1> PICK E : E = {i \in 1 .. n : feed[i] = k}
  OBVIOUS
<1>1. n \in Nat
  BY LenProperties
<1>2. IsFiniteSet(1 .. n) /\ Cardinality(1 .. n) = IF 1 > n THEN 0 ELSE n - 1 + 1
  <2>1. 1 \in Int /\ n \in Int
    BY <1>1
  <2> QED BY <2>1, FS_Interval, Zenon
<1>3. IsFiniteSet(E) /\ Cardinality(E) <= Cardinality(1 .. n) /\ Cardinality(E) \in Nat
  BY <1>2, FS_Subset, FS_CardinalityType
<1>4. Current(k) = Cardinality(E)
  BY DEF Current, Version
<1> QED BY <1>1, <1>2, <1>3, <1>4

LEMMA CurrentRises ==
  ASSUME feed \in Seq(Listings), FeedGrows, NEW k
  PROVE  Current(k) \in Nat /\ Current(k)' \in Nat /\ Current(k) <= Current(k)'
<1> PICK n, m : n = Len(feed) /\ m = Len(feed')
  OBVIOUS
<1> PICK E, F : E = {i \in 1 .. n : feed[i] = k} /\ F = {i \in 1 .. m : feed'[i] = k}
  OBVIOUS
<1>1. n \in Nat /\ m \in Nat /\ n <= m /\ \A i \in 1 .. n : feed'[i] = feed[i]
  BY LenProperties, FeedKept
<1>2. IsFiniteSet(1 .. m)
  BY <1>1, FS_Interval
<1>3. E \subseteq F /\ F \subseteq 1 .. m
  BY <1>1
<1>4. IsFiniteSet(F) /\ Cardinality(F) \in Nat
  BY <1>2, <1>3, FS_Subset, FS_CardinalityType
<1>5. IsFiniteSet(E) /\ Cardinality(E) \in Nat /\ Cardinality(E) <= Cardinality(F)
  BY <1>3, <1>4, FS_Subset, FS_CardinalityType
<1>6. Current(k) = Cardinality(E) /\ Current(k)' = Cardinality(F)
  BY DEF Current, Version
<1> QED BY <1>4, <1>5, <1>6

LEMMA FetchedReal ==
  ASSUME feed \in Seq(Listings), NEW k
  PROVE  Fetched(k).version <= Current(k) /\ Fetched(k).key = k
BY CurrentFits DEF Fetched

\* What was real stays real.
LEMMA RealStays ==
  ASSUME feed \in Seq(Listings), FeedGrows, NEW got \in SUBSET Fetches, Real(got)
  PROVE  \A g \in got : g.version <= Current(g.key)'
<1> SUFFICES ASSUME NEW g \in got PROVE g.version <= Current(g.key)'
  OBVIOUS
<1>1. g.version \in Nat /\ g.version <= Current(g.key)
  BY DEF Fetches, Real
<1>2. Current(g.key) \in Nat /\ Current(g.key)' \in Nat /\ Current(g.key) <= Current(g.key)'
  BY CurrentRises
<1> QED BY <1>1, <1>2

\* What is written is what was fetched.
LEMMA CacheReal ==
  ASSUME SyncTyped, NEW got \in SUBSET Fetches, Cache(got), Real(got),
         \A k \in Listings : index[k] <= Current(k)
  PROVE  \A k \in Listings : index'[k] <= Current(k)
<1> DEFINE chosen(k) == CHOOSE g \in got : g.key = k
<1>1. \A g \in got : chosen(g.key) \in got /\ chosen(g.key).key = g.key
  OBVIOUS
<1>2. index' = [k \in Listings |-> IF \E g \in got : g.key = k THEN chosen(k).version ELSE index[k]]
  BY DEF Cache
<1> HIDE DEF chosen
<1>3. ASSUME NEW k \in Listings PROVE index'[k] <= Current(k)
  <2>1. CASE \E g \in got : g.key = k
    BY <1>1, <1>2, <2>1 DEF Real
  <2>2. CASE ~\E g \in got : g.key = k
    BY <1>2, <2>2
  <2> QED BY <2>1, <2>2
<1> QED BY <1>3

\* An execution moves on, with what it has fetched now.
LEMMA SyncerReal ==
  ASSUME SyncInv, NoneAhead, NEW s \in Syncers, UNCHANGED <<feed, fetch>>,
         \A k \in Listings : index'[k] <= Current(k),
         \A r \in Syncers : r # s => syncing'[r] = syncing[r], Real(syncing'[s].got)
  PROVE  NoneAhead'
<1>1. \A k : Current(k)' = Current(k)
  BY DEF Current, Version
<1>2. Real(fetch)'
  BY <1>1 DEF NoneAhead, Real
<1>3. \A r \in Syncers : Real(syncing[r].got)'
  BY <1>1 DEF NoneAhead, Real
<1> QED BY <1>1, <1>2, <1>3 DEF NoneAhead

LEMMA ExecutionsReal ==
  ASSUME SyncInv, NoneAhead, NEW s \in Syncers,
         StartDelta(s) \/ AskChanges(s) \/ FetchNext(s) \/ CacheNext(s) \/ SaveCursor(s)
           \/ StopSync(s) \/ StartInitial(s) \/ FetchPage(s) \/ CachePage(s) \/ FinishInitial(s)
  PROVE  NoneAhead'
<1>0. /\ SyncTyped /\ feed \in Seq(Listings) /\ syncing \in [Syncers -> SyncerType]
      /\ syncing[s] \in SyncerType /\ syncing[s].got \in SUBSET Fetches /\ Real(syncing[s].got)
      /\ \A k \in Listings : index[k] <= Current(k)
  BY SyncerTyped DEF SyncInv, NoneAhead, SyncerType
<1>1. ASSUME NEW x, syncing' = [syncing EXCEPT ![s] = x], Real(x.got), UNCHANGED <<feed, fetch, index>>
      PROVE  NoneAhead'
  <2>1. syncing'[s] = x /\ \A r \in Syncers : r # s => syncing'[r] = syncing[r]
    BY <1>0, <1>1
  <2> QED BY <1>0, <1>1, <2>1, SyncerReal
<1>2. Real({})
  BY DEF Real
<1>3. ASSUME StartDelta(s) \/ StopSync(s) \/ StartInitial(s) \/ SaveCursor(s) \/ FinishInitial(s) \/ AskChanges(s)
      PROVE  NoneAhead'
  <2> DEFINE more == TurnPage(syncing[s])
             begun == [AtRest EXCEPT !.pc = "page", !.next = cursor]
             first == [AtRest EXCEPT !.pc = "initial", !.more = TRUE]
             delta == DeltaFrom(syncing[s].next, syncing[s].pages + 1)
  <2>0. more.got = {} /\ begun.got = {} /\ first.got = {} /\ delta.got = {} /\ AtRest.got = {}
    BY DEF AtRest, DeltaFrom, TurnPage
  <2> HIDE DEF more, begun, first, delta
  <2>r. \/ syncing' = [syncing EXCEPT ![s] = more] \/ syncing' = [syncing EXCEPT ![s] = begun]
        \/ syncing' = [syncing EXCEPT ![s] = first] \/ syncing' = [syncing EXCEPT ![s] = delta]
        \/ syncing' = [syncing EXCEPT ![s] = AtRest]
    BY <1>3 DEF StartDelta, StopSync, StartInitial, SaveCursor, FinishInitial, AskChanges, more, begun, first, delta
  <2>1. \E x : syncing' = [syncing EXCEPT ![s] = x] /\ x.got = {}
    BY <2>0, <2>r
  <2>2. UNCHANGED <<feed, fetch, index>>
    BY <1>3 DEF StartDelta, StopSync, StartInitial, SaveCursor, FinishInitial, AskChanges
  <2> QED BY <1>1, <1>2, <2>1, <2>2
<1>4. CASE FetchNext(s)
  <2> PICK k : k = Head(syncing[s].keys)
    OBVIOUS
  <2>1. /\ syncing' = [syncing EXCEPT ![s] = [syncing[s] EXCEPT !.got = {Fetched(k)}]]
        /\ UNCHANGED <<feed, fetch, index>>
    BY <1>0, <1>4 DEF FetchNext
  <2>2. [syncing[s] EXCEPT !.got = {Fetched(k)}].got = {Fetched(k)}
    BY <1>0 DEF SyncerType
  <2>3. Real({Fetched(k)})
    BY <1>0, FetchedReal DEF Real
  <2> QED BY <1>1, <2>1, <2>2, <2>3
<1>5. CASE FetchPage(s)
  <2> PICK T, n, m, p : /\ p = syncing[s].pages + 1
                     /\ T = {Fetched(k) : k \in SearchPage(syncing[s].next)}
                     /\ n = syncing[s].next + Cardinality(SearchPage(syncing[s].next))
                     /\ m = (Cardinality(SearchPage(syncing[s].next)) = PageSize)
    OBVIOUS
  <2>1. /\ syncing' = [syncing EXCEPT ![s] = [syncing[s] EXCEPT !.next = n, !.pages = p, !.got = T, !.more = m]]
        /\ UNCHANGED <<feed, fetch, index>>
    BY <1>0, <1>5 DEF FetchPage
  <2>2. [syncing[s] EXCEPT !.next = n, !.pages = p, !.got = T, !.more = m].got = T
    BY <1>0 DEF SyncerType
  <2>3. Real(T)
    BY <1>0, FetchedReal DEF Real
  <2> QED BY <1>1, <2>1, <2>2, <2>3
<1>6. CASE CacheNext(s) \/ CachePage(s)
  <2>1. /\ Cache(syncing[s].got) /\ UNCHANGED <<feed, fetch>>
        /\ syncing'[s].got = {} /\ \A r \in Syncers : r # s => syncing'[r] = syncing[r]
    <3>1. CASE CacheNext(s)
      BY <1>0, <3>1 DEF CacheNext, SyncerType
    <3>2. CASE CachePage(s)
      BY <1>0, <3>2 DEF CachePage, SyncerType
    <3> QED BY <1>6, <3>1, <3>2
  <2> QED BY <1>0, <1>2, <2>1, CacheReal, SyncerReal
<1> QED BY <1>3, <1>4, <1>5, <1>6

LEMMA OnDemandReal ==
  ASSUME SyncInv, NoneAhead, CacheOnDemand \/ \E k \in Listings : Publish(k) \/ FetchOnDemand(k)
  PROVE  NoneAhead'
<1>0. /\ SyncTyped /\ feed \in Seq(Listings) /\ Len(feed) \in Nat /\ fetch \in SUBSET Fetches
      /\ \A k \in Listings : index[k] <= Current(k) /\ index[k] \in Nat
      /\ \A s \in Syncers : syncing[s].got \in SUBSET Fetches /\ Real(syncing[s].got)
      /\ Real(fetch) /\ Len(feed) <= MaxPublished
  BY LenProperties DEF SyncInv, SyncTyped, SyncerType, NoneAhead
<1>1. ASSUME feed' = feed PROVE \A k : Current(k)' = Current(k)
  BY <1>1 DEF Current, Version
<1>2. CASE CacheOnDemand
  <2>1. /\ Cache(fetch) /\ fetch' = {} /\ UNCHANGED <<feed, syncing>>
    BY <1>2 DEF CacheOnDemand
  <2>2. \A k \in Listings : index'[k] <= Current(k)
    BY <1>0, <2>1, CacheReal
  <2> QED BY <1>0, <1>1, <2>1, <2>2 DEF NoneAhead, Real
<1>3. ASSUME NEW k \in Listings, FetchOnDemand(k) PROVE NoneAhead'
  <2>1. fetch' = {Fetched(k)} /\ UNCHANGED <<feed, index, syncing>>
    BY <1>3 DEF FetchOnDemand
  <2>2. Real(fetch)'
    BY <1>0, <1>1, <2>1, FetchedReal DEF Real
  <2> QED BY <1>0, <1>1, <2>1, <2>2 DEF NoneAhead, Real
<1>4. ASSUME NEW k \in Listings, Publish(k) PROVE NoneAhead'
  <2>1. feed' = Append(feed, k) /\ Len(feed) < MaxPublished /\ UNCHANGED <<index, syncing, fetch>> /\ FeedGrows
    BY <1>4 DEF Publish, FeedGrows
  <2>2. Len(feed') = Len(feed) + 1
    BY <1>0, <2>1
  <2>3. Len(feed') <= MaxPublished
    BY <1>0, <2>1, <2>2, SyncAssumption DEF SyncAssumption
  <2>4. \A j \in Listings : index[j] <= Current(j)'
    BY <1>0, <2>1, CurrentRises
  <2>5. Real(fetch)' /\ \A s \in Syncers : Real(syncing[s].got)'
    BY <1>0, <2>1, RealStays DEF Real
  <2> QED BY <2>1, <2>3, <2>4, <2>5 DEF NoneAhead
<1> QED BY <1>2, <1>3, <1>4

LEMMA NoneAheadStep == SyncInv /\ NoneAhead /\ [SyncNext]_syncVars => NoneAhead'
<1> SUFFICES ASSUME SyncInv, NoneAhead, [SyncNext]_syncVars PROVE NoneAhead'
  OBVIOUS
<1>1. CASE UNCHANGED syncVars
  BY <1>1 DEF syncVars, NoneAhead, Real, Current, Version
<1> QED BY <1>1, ExecutionsReal, OnDemandReal DEF SyncNext

LEMMA NoneAheadStart == SyncInit => NoneAhead
<1> SUFFICES ASSUME SyncInit PROVE NoneAhead
  OBVIOUS
<1>1. feed \in Seq(Listings) /\ Len(feed) = 0 /\ MaxPublished \in Nat
  BY EmptySeq, SyncAssumption DEF SyncInit, SyncAssumption
<1>2. \A k \in Listings : index[k] = 0 /\ Current(k) \in Nat
  BY <1>1, CurrentFits DEF SyncInit
<1>3. fetch = {} /\ \A s \in Syncers : syncing[s].got = {}
  BY AtRestTyped DEF SyncInit
<1> QED BY <1>1, <1>2, <1>3 DEF NoneAhead, Real

\* The index never shows a version of a listing that the provider has not
\* published, and a position never lies past the provider's log, whatever
\* executions, searches and imports write beside each other.
THEOREM SyncTypeCorrect == SyncSpec => []SyncTypeOK
<1>1. SyncInv /\ NoneAhead => SyncTypeOK
  <2> SUFFICES ASSUME SyncInv, NoneAhead PROVE SyncTypeOK
    OBVIOUS
  <2> DEFINE Bounded == [key : Listings, version : 0 .. MaxPublished]
  <2>0. feed \in Seq(Listings) /\ Len(feed) \in Nat /\ MaxPublished \in Nat /\ Len(feed) <= MaxPublished
    BY LenProperties, SyncAssumption DEF SyncInv, SyncTyped, NoneAhead, SyncAssumption
  <2>1. \A k \in Listings : Current(k) \in 0 .. MaxPublished
    BY <2>0, CurrentFits
  <2>2. ASSUME NEW got \in SUBSET Fetches, Real(got) PROVE got \subseteq Bounded
    <3> SUFFICES ASSUME NEW g \in got PROVE g \in Bounded
      OBVIOUS
    <3>1. g = [key |-> g.key, version |-> g.version] /\ g.key \in Listings /\ g.version \in Nat
      BY DEF Fetches
    <3>2. g.version \in 0 .. MaxPublished
      <4>1. g.version <= Current(g.key) /\ Current(g.key) \in 0 .. MaxPublished
        BY <2>1, <2>2, <3>1 DEF Real
      <4> QED BY <2>0, <3>1, <4>1
    <3> QED BY <3>1, <3>2
  <2>3. index \in [Listings -> 0 .. MaxPublished]
    BY <2>0, <2>1 DEF SyncInv, SyncTyped, NoneAhead
  <2>4. fetch \subseteq Bounded
    BY <2>2 DEF SyncInv, SyncTyped, NoneAhead
  <2>5. ASSUME NEW s \in Syncers
        PROVE  /\ syncing[s].pc \in {"idle", "page", "delta", "initial"}
               /\ syncing[s].keys \in Seq(Listings) /\ syncing[s].next \in 0 .. MaxPublished
               /\ syncing[s].pages \in 0 .. MaxPages /\ syncing[s].got \subseteq Bounded
    <3>1. syncing[s] \in SyncerType /\ syncing[s].next \in 0 .. Len(feed) /\ Real(syncing[s].got)
      BY SyncerTyped DEF NoneAhead
    <3>2. syncing[s].got \subseteq Bounded
      BY <2>2, <3>1 DEF SyncerType
    <3> HIDE DEF Bounded
    <3> QED BY <2>0, <3>1, <3>2 DEF SyncerType
  <2>6. cursor \in 0 .. MaxPublished /\ skewed \in BOOLEAN
    BY <2>0 DEF SyncInv, SyncTyped
  <2> QED BY <2>0, <2>3, <2>4, <2>5, <2>6 DEF SyncTypeOK
<1> QED BY <1>1, NoneAheadStart, NoneAheadStep, SyncBegins, SyncStep, PTL DEF SyncSpec

=============================================================================
