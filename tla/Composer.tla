------------------------------- MODULE Composer -------------------------------
(***************************************************************************)
(* The e-mail editor of the browser client                                 *)
(* (client/src/features/composer/useCampaignComposer.ts): windows that     *)
(* edit one draft, each with a cached copy of the campaign's row, a draft   *)
(* of its own that is filled from that copy once, autosave, AI texts and    *)
(* the requests for recipients, a test or sending.                         *)
(*                                                                         *)
(* The server is reduced to what the windows see of it: the row, and       *)
(* writes conditional on its version (module CampaignLifecycle has the      *)
(* rest).  A request reaches the server in one step and its answer reaches  *)
(* the window in another, or is lost.                                       *)
(***************************************************************************)
EXTENDS Naturals

CONSTANTS
  Windows,
  Texts,      \* what the fields that an AI text replaces may say
  Links,      \* what the other fields of the draft may say
  Nothing,    \* no request under way
  MaxRevision, \* bound on the version of the row
  MaxTyped    \* bound on edits

ASSUME ComposerAssumption ==
  MaxRevision \in Nat \ {0} /\ MaxTyped \in Nat /\ Nothing \notin Texts \cup Links

VARIABLES
  stored,  \* the campaign's row
  row,     \* each window's cached copy of it
  shown,   \* the draft in each window's fields
  dirty, saveState,
  save, ai, request, refetch, \* what each window waits for
  offered, \* does the window have AI variants to choose from?
  behind,  \* history: the stored draft was changed behind the shown one
  typed    \* edits so far

windowVars == <<row, shown, dirty, saveState, offered, behind>>
callVars == <<save, ai, request, refetch>>
composerVars == <<stored, windowVars, callVars, typed>>

Drafts == [text : Texts, link : Links]
CampaignRows == [version : 1 .. MaxRevision, draft : Drafts, status : {"DRAFT", "SNAPSHOTTING"},
             lastTestedVersion : 0 .. MaxRevision]
Failures == {"conflict", "error"}

ComposerTypeOK ==
  /\ stored \in CampaignRows
  /\ row \in [Windows -> CampaignRows] /\ shown \in [Windows -> Drafts]
  /\ dirty \in [Windows -> BOOLEAN] /\ offered \in [Windows -> BOOLEAN] /\ behind \in [Windows -> BOOLEAN]
  /\ saveState \in [Windows -> {"saved", "saving"} \cup Failures]
  /\ save \in [Windows -> {Nothing} \cup
       [draft : Drafts, version : 1 .. MaxRevision, newer : BOOLEAN,
        outcome : {"pending", "ok"} \cup Failures, answer : {Nothing} \cup CampaignRows]]
  /\ ai \in [Windows -> {Nothing} \cup
       [at : {"writing", "applying", "choosing"}, version : 1 .. MaxRevision, edited : BOOLEAN,
        answer : {Nothing} \cup CampaignRows]]
  /\ request \in [Windows -> {Nothing} \cup
       [kind : {"recipients", "test", "publish"}, version : 1 .. MaxRevision,
        answer : {Nothing} \cup CampaignRows]]
  /\ refetch \in [Windows -> {Nothing} \cup CampaignRows]
  /\ typed \in 0 .. MaxTyped

ComposerInit ==
  /\ \E d \in Drafts :
       stored = [version |-> 1, draft |-> d, status |-> "DRAFT", lastTestedVersion |-> 0]
  /\ row = [w \in Windows |-> stored]
  /\ shown = [w \in Windows |-> stored.draft]
  /\ dirty = [w \in Windows |-> FALSE] /\ saveState = [w \in Windows |-> "saved"]
  /\ save = [w \in Windows |-> Nothing] /\ ai = [w \in Windows |-> Nothing]
  /\ request = [w \in Windows |-> Nothing] /\ refetch = [w \in Windows |-> Nothing]
  /\ offered = [w \in Windows |-> FALSE] /\ behind = [w \in Windows |-> FALSE]
  /\ typed = 0

-----------------------------------------------------------------------------
(* The fields and the cache. *)

\* setDraft: the revision moves, which a save or an AI text under way will see.
TypeIn(w, d) ==
  /\ row[w].status = "DRAFT" /\ d # shown[w]
  /\ typed < MaxTyped /\ typed' = typed + 1
  /\ shown' = [shown EXCEPT ![w] = d] /\ dirty' = [dirty EXCEPT ![w] = TRUE]
  /\ save' = IF save[w] = Nothing THEN save ELSE [save EXCEPT ![w].newer = TRUE]
  /\ ai' = IF ai[w] = Nothing THEN ai ELSE [ai EXCEPT ![w].edited = TRUE]
  /\ UNCHANGED <<stored, row, saveState, offered, behind, request, refetch>>

\* A query is read again when its window gets the focus and after a test;
\* what was read arrives later.  The draft keeps what it was filled with.
Refetch(w) ==
  /\ refetch[w] = Nothing
  /\ refetch' = [refetch EXCEPT ![w] = stored]
  /\ UNCHANGED <<stored, windowVars, save, ai, request, typed>>
RefetchArrives(w) ==
  /\ refetch[w] # Nothing
  /\ row' = [row EXCEPT ![w] = refetch[w]] /\ refetch' = [refetch EXCEPT ![w] = Nothing]
  /\ UNCHANGED <<stored, shown, dirty, saveState, offered, behind, save, ai, request, typed>>

\* window.location.reload()
Reload(w) ==
  /\ saveState[w] = "conflict"
  /\ row' = [row EXCEPT ![w] = stored] /\ shown' = [shown EXCEPT ![w] = stored.draft]
  /\ dirty' = [dirty EXCEPT ![w] = FALSE] /\ saveState' = [saveState EXCEPT ![w] = "saved"]
  /\ offered' = [offered EXCEPT ![w] = FALSE] /\ behind' = [behind EXCEPT ![w] = FALSE]
  /\ save' = [save EXCEPT ![w] = Nothing] /\ ai' = [ai EXCEPT ![w] = Nothing]
  /\ request' = [request EXCEPT ![w] = Nothing] /\ refetch' = [refetch EXCEPT ![w] = Nothing]
  /\ UNCHANGED <<stored, typed>>

-----------------------------------------------------------------------------
(* Autosave. *)

\* The timer of the effect, or the Retry button of the error banner.
StartSave(w) ==
  /\ save[w] = Nothing
  /\ row[w].status = "DRAFT" /\ (dirty[w] \/ saveState[w] = "error")
  /\ save' = [save EXCEPT ![w] =
       [draft |-> shown[w], version |-> row[w].version, newer |-> FALSE,
        outcome |-> "pending", answer |-> Nothing]]
  /\ saveState' = [saveState EXCEPT ![w] = "saving"]
  /\ UNCHANGED <<stored, row, shown, dirty, offered, behind, ai, request, refetch, typed>>

Writable(v) == v = stored.version /\ stored.status = "DRAFT"
Written(d) == [stored EXCEPT !.version = @ + 1, !.draft = d, !.lastTestedVersion = 0]

\* PATCH /campaigns/:id with If-Match: the whole draft.  The shown one is behind if an
\* AI text has replaced it and declared it clean in the meantime.
SaveReaches(w) ==
  /\ save[w] # Nothing /\ save[w].outcome = "pending"
  /\ IF Writable(save[w].version)
     THEN /\ stored.version < MaxRevision
          /\ stored' = Written(save[w].draft)
          /\ save' = [save EXCEPT ![w].outcome = "ok", ![w].answer = stored']
          /\ behind' = [x \in Windows |->
               x = w => save[w].draft # shown[w] /\ ~dirty[w]]
     ELSE /\ save' = [save EXCEPT ![w].outcome =
                        IF save[w].version # stored.version THEN "conflict" ELSE "error"]
          /\ UNCHANGED <<stored, behind>>
  /\ UNCHANGED <<row, shown, dirty, saveState, offered, ai, request, refetch, typed>>

SaveAnsweredAlways(w) ==
  /\ save[w] # Nothing /\ save[w].outcome = "ok"
  /\ row' = [row EXCEPT ![w] = save[w].answer]
  /\ dirty' = [dirty EXCEPT ![w] = FALSE]
  /\ saveState' = [saveState EXCEPT ![w] = "saved"] /\ save' = [save EXCEPT ![w] = Nothing]
  /\ UNCHANGED <<stored, shown, offered, behind, ai, request, refetch, typed>>
\* onSuccess: the fields are clean if nothing was typed since the save began.
SaveAnswered(w) ==
  /\ save[w] # Nothing /\ save[w].outcome = "ok"
  /\ row' = [row EXCEPT ![w] = save[w].answer]
  /\ dirty' = [dirty EXCEPT ![w] = @ /\ save[w].newer]
  /\ saveState' = [saveState EXCEPT ![w] = "saved"] /\ save' = [save EXCEPT ![w] = Nothing]
  /\ UNCHANGED <<stored, shown, offered, behind, ai, request, refetch, typed>>

\* onError: a conflict, a locked campaign, or no answer, whether or not the
\* request got through.
SaveFails(w) ==
  /\ save[w] # Nothing
  /\ \E f \in Failures : /\ f = "conflict" => save[w].outcome = "conflict"
                         /\ save[w].outcome \in Failures => f = save[w].outcome
                         /\ saveState' = [saveState EXCEPT ![w] = f]
  /\ save' = [save EXCEPT ![w] = Nothing]
  /\ UNCHANGED <<stored, row, shown, dirty, offered, behind, ai, request, refetch, typed>>

-----------------------------------------------------------------------------
(* AI texts. *)

Clean(w) == ~dirty[w] /\ save[w] = Nothing
AiCall(w, at) == ai' = [ai EXCEPT ![w] =
  [at |-> at, version |-> row[w].version, edited |-> FALSE, answer |-> Nothing]]
AiOnly == UNCHANGED <<stored, row, shown, dirty, saveState, behind, save, request, refetch, typed>>

\* generateAi, by its button or by itself when the window opens.
Generate(w) ==
  /\ row[w].status = "DRAFT" /\ Clean(w) /\ ai[w] = Nothing
  /\ AiCall(w, "writing") /\ AiOnly /\ UNCHANGED offered

\* "Your edits were kept because the draft changed while AI was writing."
Generated(w) ==
  /\ ai[w] # Nothing /\ ai[w].at = "writing"
  /\ ai' = IF ai[w].edited THEN [ai EXCEPT ![w] = Nothing] ELSE [ai EXCEPT ![w].at = "applying"]
  /\ AiOnly /\ UNCHANGED offered

\* applyAiVariant: another of the texts that were generated.
ChooseVariant(w) ==
  /\ row[w].status = "DRAFT" /\ Clean(w) /\ ai[w] = Nothing /\ offered[w]
  /\ AiCall(w, "choosing") /\ AiOnly /\ UNCHANGED offered

\* POST /campaigns/:id/ai/apply, with the version the call began with.
ApplyReaches(w, t) ==
  /\ ai[w] # Nothing /\ ai[w].at # "writing" /\ ai[w].answer = Nothing
  /\ Writable(ai[w].version) /\ stored.version < MaxRevision
  /\ stored' = Written([stored.draft EXCEPT !.text = t])
  /\ ai' = [ai EXCEPT ![w].answer = stored']
  /\ behind' = [x \in Windows |-> TRUE]
  /\ UNCHANGED <<row, shown, dirty, saveState, offered, save, request, refetch, typed>>

\* onSuccess takes the texts over and declares the fields clean: what was
\* typed since the apply began is lost, or stays in fields that nothing saves.
Applied(w) ==
  /\ ai[w] # Nothing /\ ai[w].answer # Nothing
  /\ row' = [row EXCEPT ![w] = ai[w].answer]
  /\ shown' = [shown EXCEPT ![w].text = ai[w].answer.draft.text]
  /\ dirty' = [dirty EXCEPT ![w] = FALSE] /\ offered' = [offered EXCEPT ![w] = TRUE]
  /\ behind' = [behind EXCEPT ![w] = shown'[w] # stored.draft]
  /\ ai' = [ai EXCEPT ![w] = Nothing]
  /\ UNCHANGED <<stored, saveState, save, request, refetch, typed>>

\* The model gave no text, the version had moved on, or no answer came.
AiFails(w) ==
  /\ ai[w] # Nothing
  /\ ai' = [ai EXCEPT ![w] = Nothing]
  /\ AiOnly /\ UNCHANGED offered

-----------------------------------------------------------------------------
(* Recipients, test and sending. *)

\* The page's canTest and canSend (there are eligible recipients).
CanTest(w) ==
  /\ ~dirty[w] /\ saveState[w] = "saved"
  /\ ai[w] # Nothing => ai[w].at = "choosing"
CanSend(w) == CanTest(w) /\ row[w].lastTestedVersion = row[w].version

RequestOnly == UNCHANGED <<stored, windowVars, save, ai, refetch, typed>>
Ask(w, kind) ==
  /\ row[w].status = "DRAFT" /\ request[w] = Nothing
  /\ CASE kind = "recipients" -> Clean(w) [] kind = "test" -> CanTest(w) [] kind = "publish" -> CanSend(w)
  /\ request' = [request EXCEPT ![w] = [kind |-> kind, version |-> row[w].version, answer |-> Nothing]]
  /\ RequestOnly

\* What the server makes of each: a new audience is an edit, a test leaves
\* its evidence, a publish locks the draft.
Served(kind) ==
  CASE kind = "recipients" -> Written(stored.draft)
    [] kind = "test" -> [stored EXCEPT !.lastTestedVersion = stored.version]
    [] kind = "publish" -> [stored EXCEPT !.status = "SNAPSHOTTING"]
RequestReaches(w) ==
  /\ request[w] # Nothing /\ request[w].answer = Nothing
  /\ Writable(request[w].version)
  /\ request[w].kind = "recipients" => stored.version < MaxRevision
  /\ request[w].kind = "publish" => stored.lastTestedVersion = stored.version
  /\ stored' = Served(request[w].kind)
  /\ request' = [request EXCEPT ![w].answer = stored']
  /\ UNCHANGED <<windowVars, save, ai, refetch, typed>>

\* A test answers with its record; the row is read again instead.
RequestAnswered(w) ==
  /\ request[w] # Nothing /\ request[w].answer # Nothing
  /\ row' = IF request[w].kind = "test" THEN row ELSE [row EXCEPT ![w] = request[w].answer]
  /\ refetch' = IF request[w].kind = "test" THEN [refetch EXCEPT ![w] = stored] ELSE refetch
  /\ request' = [request EXCEPT ![w] = Nothing]
  /\ UNCHANGED <<stored, shown, dirty, saveState, offered, behind, save, ai, typed>>

RequestFails(w) ==
  /\ request[w] # Nothing
  /\ request' = [request EXCEPT ![w] = Nothing]
  /\ RequestOnly

\* The portal or the API edits the campaign; other windows are Windows.
EditElsewhere(d) ==
  /\ stored.status = "DRAFT" /\ stored.version < MaxRevision
  /\ stored' = Written(d)
  /\ behind' = [x \in Windows |-> TRUE]
  /\ UNCHANGED <<row, shown, dirty, saveState, offered, callVars, typed>>

-----------------------------------------------------------------------------
ComposerNext ==
  \/ \E w \in Windows, d \in Drafts : TypeIn(w, d)
  \/ \E w \in Windows : Refetch(w)
  \/ \E w \in Windows : RefetchArrives(w)
  \/ \E w \in Windows : Reload(w)
  \/ \E w \in Windows : StartSave(w)
  \/ \E w \in Windows : SaveReaches(w)
  \/ \E w \in Windows : SaveAnswered(w)
  \/ \E w \in Windows : SaveFails(w)
  \/ \E w \in Windows : Generate(w)
  \/ \E w \in Windows : Generated(w)
  \/ \E w \in Windows : ChooseVariant(w)
  \/ \E w \in Windows, t \in Texts : ApplyReaches(w, t)
  \/ \E w \in Windows : Applied(w)
  \/ \E w \in Windows : AiFails(w)
  \/ \E w \in Windows, kind \in {"recipients", "test", "publish"} : Ask(w, kind)
  \/ \E w \in Windows : RequestReaches(w)
  \/ \E w \in Windows : RequestAnswered(w)
  \/ \E w \in Windows : RequestFails(w)
  \/ \E d \in Drafts : EditElsewhere(d)

ComposerSpec == ComposerInit /\ [][ComposerNext]_composerVars

-----------------------------------------------------------------------------
\* A window that says "Saved", with nothing under way, shows what is stored,
\* whatever was typed while answers were on their way or lost and whatever
\* stale row the cache was given, unless another window or an AI text has
\* written behind its fields since it last saved them
\* (client/src/pages/CampaignComposerPage.tsx, the save indicator).
SavedMeansStored ==
  \A w \in Windows :
    ~dirty[w] /\ saveState[w] = "saved" /\ save[w] = Nothing /\ ~behind[w] =>
      shown[w] = stored.draft
=============================================================================
