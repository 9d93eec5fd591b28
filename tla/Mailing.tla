------------------------------- MODULE Mailing -------------------------------
(***************************************************************************)
(* What delivering a campaign promises each recipient, without batches,    *)
(* workers, jobs or keys: a message leaves for somebody who is claimed and *)
(* has not been sent one; the outcome on record is what became of the      *)
(* message; and a recipient who was accepted, refused, put in review or    *)
(* cancelled stays so.  Delivery implements this specification while no    *)
(* failure hides what the provider did.                                    *)
(***************************************************************************)
EXTENDS Naturals

CONSTANT Recipients

VARIABLES fate,   \* fate[r]: what is on record about r
          sent    \* sent[r]: the messages that have left for r

vars == <<fate, sent>>

Init ==
  /\ fate = [r \in Recipients |-> "waiting"]
  /\ sent = [r \in Recipients |-> 0]

Having(fates) == {r \in Recipients : fate[r] \in fates}
Unsent == {r \in Recipients : sent[r] = 0}
Becomes(S, f) == fate' = [r \in Recipients |-> IF r \in S THEN f ELSE fate[r]]

\* Some who wait are taken up, for the first time or again.
Claim(S) ==
  /\ S \subseteq Having({"waiting"})
  /\ Becomes(S, "claimed") /\ UNCHANGED sent

\* Messages leave.
Deliver(S) ==
  /\ S \subseteq Having({"claimed"}) \cap Unsent
  /\ sent' = [r \in Recipients |-> IF r \in S THEN sent[r] + 1 ELSE sent[r]]
  /\ UNCHANGED fate

\* What happened is put on record.
Settle(S) ==
  /\ S \subseteq Having({"claimed"})
  /\ fate' = [r \in Recipients |->
       IF r \notin S THEN fate[r] ELSE IF sent[r] = 0 THEN "refused" ELSE "accepted"]
  /\ UNCHANGED sent

\* An attempt failed before anything left: those it was for wait again, or
\* do not, and so do those who were suppressed between two attempts.
GiveUp(S, f) ==
  /\ S \subseteq Having({"claimed", "suppressed"}) \cap Unsent
  /\ Becomes(S, f) /\ UNCHANGED sent

\* Some are not to be written to.
Suppress(S) ==
  /\ S \subseteq Having({"waiting", "claimed"}) \cap Unsent
  /\ Becomes(S, "suppressed") /\ UNCHANGED sent

\* The campaign is cancelled: for those who wait, not for those claimed.
Cancel(S) ==
  /\ S \subseteq Having({"waiting"})
  /\ Becomes(S, "cancelled") /\ UNCHANGED sent

Next ==
  \E S \in SUBSET Recipients :
    \/ Claim(S) \/ Deliver(S) \/ Settle(S) \/ Suppress(S) \/ Cancel(S)
    \/ \E f \in {"waiting", "refused", "review"} : GiveUp(S, f)

Spec == Init /\ [][Next]_vars

\* The record is honest: who is accepted was sent one message, who is not
\* accepted and not being served was sent none.
Honest ==
  \A r \in Recipients :
    /\ sent[r] \in {0, 1}
    /\ fate[r] = "accepted" => sent[r] = 1
    /\ fate[r] \notin {"accepted", "claimed"} => sent[r] = 0
=============================================================================
