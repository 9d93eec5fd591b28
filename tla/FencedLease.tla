----------------------------- MODULE FencedLease -----------------------------
(***************************************************************************)
(* What a lease with fencing tokens promises those who share a record,     *)
(* without calls, rows or stalls: the lease is granted only while none     *)
(* runs, for at most Term, each time with the next token; an outcome is    *)
(* written only under the token granted last, once, and the lease ends     *)
(* with it.  TrackingLease implements this specification.                  *)
(***************************************************************************)
EXTENDS Naturals

CONSTANT Term

VARIABLES time,
          granted,   \* how many leases were granted; the last one's token
          current,   \* the token of the lease nobody has ended, or 0
          until,     \* when that lease runs out
          written    \* the token the outcome on record was written under

vars == <<time, granted, current, until, written>>

Init ==
  /\ time \in Nat
  /\ granted = 0 /\ current = 0 /\ until = 0 /\ written = 0

Tick == time' = time + 1 /\ UNCHANGED <<granted, current, until, written>>

\* A lease that has run out is taken over; its holder has not been told.
Grant ==
  /\ until <= time
  /\ granted' = granted + 1 /\ current' = granted + 1
  /\ until' \in 0 .. time + Term
  /\ UNCHANGED <<time, written>>

Write ==
  /\ current # 0
  /\ written' = current /\ current' = 0 /\ until' = 0
  /\ UNCHANGED <<time, granted>>

Next == Tick \/ Grant \/ Write

Spec == Init /\ [][Next]_vars
=============================================================================
