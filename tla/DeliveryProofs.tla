--------------------------- MODULE DeliveryProofs ---------------------------
(***************************************************************************)
(* Safety of Delivery for any number of recipients, workers and batches,   *)
(* any limit, batch size and attempt bound, and whichever errors, commands *)
(* and failures happen, however many of them.                              *)
(***************************************************************************)
EXTENDS Delivery, FiniteSetTheorems, TLAPS

\* A set of recipients is finite, and its size is a number.
LEMMA RecipientsFinite ==
  ASSUME NEW S \in SUBSET Recipients
  PROVE  IsFiniteSet(S) /\ Cardinality(S) \in Nat
  BY DeliveryAssumption, FS_Subset, FS_CardinalityType

-----------------------------------------------------------------------------
(* Typing. *)

\* A worker that executes a job has one, and one with a batch at hand holds
\* its number from the reservation, or the claim of the reserved batch, on.
WithBatch == {"checking", "blocking", "preparing", "submitting", "finishing",
              "failing", "rescheduling", "chaining"}
LocalOK(x) ==
  /\ x.pc # "idle" => x.job \in Wakes
  /\ x.pc = "retrying" => PayloadBatch(x.job) \in Batches
  /\ x.pc \in WithBatch => x.batch \in Batches
LocalState == \A w \in Workers : LocalOK(run[w])

\* A batch that may still be submitted has an attempt left.
AttemptsLeft ==
  \A b \in Batches :
    /\ batchStatus[b] = "ABSENT" => batchTries[b] = 0
    /\ batchStatus[b] \in {"PREPARING", "TEMPORARY_FAILED"} => batchTries[b] < MaxTries

\* TypeOK in two parts: what a worker's local state may be, and the rest.
RunType == [pc : Steps, job : Wakes \cup {None}, batch : Batches \cup {None},
            recips : SUBSET Recipients, hit : SUBSET Recipients,
            failure : {"temporary", "permanent", "uncertain", None},
            barred : SUBSET Recipients, owned : BOOLEAN]
RunOK == run \in [Workers -> RunType] /\ LocalState
UsageType == [reserved : Nat, accepted : Nat, released : Nat]
RowsOK ==
  /\ campaign \in Statuses /\ verified \in BOOLEAN
  /\ sendState \in [Recipients -> SendStates]
  /\ sendBatch \in [Recipients -> Batches \cup {None}]
  /\ suppressed \subseteq Recipients
  /\ batchStatus \in [Batches -> BatchStates]
  /\ batchTries \in [Batches -> 0 .. MaxTries]
  /\ usage \in UsageType
  /\ wake \subseteq Wakes
OtherOK ==
  /\ gate \in BOOLEAN /\ slotFree \in BOOLEAN
  /\ stored \in [Batches -> (SUBSET Recipients) \cup {None}]
  /\ copies \in [Recipients -> Nat]
  /\ expired \subseteq Batches
  /\ spent \in 0 .. MaxEvents

\* A first inductive invariant, for the types.
TypeInv == RunOK /\ RowsOK /\ OtherOK /\ AttemptsLeft

LEMMA TypeInvImpliesTypeOK == TypeInv => TypeOK
  BY DEF TypeInv, RunOK, RowsOK, OtherOK, TypeOK, RunType, UsageType

\* The keys a dispatch enqueues, and the batch a key names.
LEMMA WakeKeys ==
  /\ \A t \in Wakes : PayloadBatch(t) \in Batches \cup {None}
  /\ \A k \in {"first", "resume", "hold", "quota", "slot"} :
       <<k, None>> \in Wakes /\ PayloadBatch(<<k, None>>) = None
  /\ \A b \in Batches : /\ <<"next", b>> \in Wakes /\ PayloadBatch(<<"next", b>>) = None
                        /\ <<"retry", b>> \in Wakes /\ PayloadBatch(<<"retry", b>>) = b
                        /\ <<"slot", b>> \in Wakes /\ PayloadBatch(<<"slot", b>>) = b
  /\ None \notin Batches
  BY DeliveryAssumption DEF Wakes, PayloadBatch

LEMMA InitTypeInv == Init => TypeInv
<1> SUFFICES ASSUME Init PROVE TypeInv
  OBVIOUS
<1>1. RunOK
  BY DEF Init, Idle, Steps, RunType, RunOK, LocalState, LocalOK, WithBatch
<1>2. RowsOK
  <2>1. wake \subseteq Wakes
    BY WakeKeys DEF Init
  <2>2. batchTries \in [Batches -> 0 .. MaxTries]
    BY DeliveryAssumption DEF Init
  <2>3. /\ campaign \in Statuses /\ verified \in BOOLEAN
        /\ sendState \in [Recipients -> SendStates]
        /\ sendBatch \in [Recipients -> Batches \cup {None}]
        /\ suppressed \subseteq Recipients
        /\ batchStatus \in [Batches -> BatchStates]
        /\ usage \in UsageType
    BY DEF Init, UsageType, SendStates, Unfinished, BatchStates, Statuses
  <2> QED
    BY <2>1, <2>2, <2>3 DEF RowsOK
<1>3. OtherOK
  BY DeliveryAssumption DEF Init, OtherOK
<1>4. AttemptsLeft
  BY DeliveryAssumption DEF Init, AttemptsLeft
<1> QED
  BY <1>1, <1>2, <1>3, <1>4 DEF TypeInv

LEMMA ClassifiedFailure ==
  ASSUME NEW e \in ProviderErrors
  PROVE  classifyProviderFailure(e.status, e.code, e.timedOut) \in {"temporary", "permanent", "uncertain"}
  BY DeliveryAssumption DEF classifyProviderFailure

LEMMA MisreadFailure == classifyProviderFailure(NoStatus, "", FALSE) = "temporary"
  BY DEF classifyProviderFailure, NoStatus

\* One worker goes on to a well-formed local state.
LEMMA RunStep ==
  ASSUME RunOK, NEW w \in Workers, NEW x \in RunType, LocalOK(x), run' = [run EXCEPT ![w] = x]
  PROVE  RunOK'
  BY DEF RunOK, LocalState

LEMMA FinishedTyped ==
  ASSUME RunOK, NEW w \in Workers, Finished(w)
  PROVE  RunOK'
<1>1. Idle \in RunType /\ LocalOK(Idle)
  BY DEF Idle, RunType, Steps, LocalOK, WithBatch
<1> QED
  BY <1>1, RunStep DEF Finished

LEMMA GotoTyped ==
  ASSUME RunOK, NEW w \in Workers, NEW step \in Steps, Goto(w, step), run[w].pc # "idle",
         step = "retrying" => PayloadBatch(run[w].job) \in Batches,
         step \in WithBatch => run[w].batch \in Batches
  PROVE  RunOK'
<1> DEFINE x == [run[w] EXCEPT !.pc = step]
<1>1. run[w] \in RunType /\ LocalOK(run[w])
  BY DEF RunOK, LocalState
<1>2. x \in RunType /\ LocalOK(x)
  BY <1>1 DEF RunType, LocalOK
<1>3. run' = [run EXCEPT ![w] = x]
  BY DEF Goto
<1> QED
  BY <1>2, <1>3, RunStep

LEMMA ReturnTyped ==
  ASSUME RunOK, NEW w \in Workers, Return(w), run[w].pc \in WithBatch
  PROVE  RunOK'
<1> DEFINE on == [run[w] EXCEPT !.pc = "chaining", !.recips = {}, !.hit = {}, !.failure = None, !.barred = {}]
           x == IF PayloadBatch(run[w].job) # None THEN Idle ELSE on
<1>1. run[w] \in RunType /\ LocalOK(run[w])
  BY DEF RunOK, LocalState
<1>2. on \in RunType /\ LocalOK(on)
  BY <1>1 DEF RunType, Steps, LocalOK, WithBatch
<1>3. Idle \in RunType /\ LocalOK(Idle)
  BY DEF Idle, RunType, Steps, LocalOK, WithBatch
<1>4. run' = [run EXCEPT ![w] = x]
  BY DEF Return
<1> HIDE DEF x, on
<1> QED
  BY <1>2, <1>3, <1>4, RunStep DEF x

\* The counts of the day's usage row, after recipients took part of the
\* limit and after some gave it back.
LEMMA UsageTaken ==
  ASSUME usage \in UsageType, NEW k \in Nat, usage' = [usage EXCEPT !.reserved = @ + k]
  PROVE  /\ usage' \in UsageType
         /\ usage'.reserved = usage.reserved + k /\ usage'.accepted = usage.accepted
  BY DEF UsageType

LEMMA UsageGivenBack ==
  ASSUME usage \in UsageType, NEW k \in Nat, usage.reserved >= k,
         usage' = [usage EXCEPT !.reserved = @ - k, !.released = @ + k]
  PROVE  /\ usage' \in UsageType
         /\ usage'.reserved = usage.reserved - k /\ usage'.accepted = usage.accepted
<1>1. usage.reserved - k \in Nat /\ usage.released + k \in Nat
  BY DEF UsageType
<1>2. usage' = [reserved |-> usage.reserved - k, accepted |-> usage.accepted, released |-> usage.released + k]
  BY DEF UsageType
<1> QED
  BY <1>1, <1>2 DEF UsageType

LEMMA EventOK ==
  ASSUME OtherOK, NEW kind, Event(kind)
  PROVE  spent' \in 0 .. MaxEvents
  BY DeliveryAssumption DEF OtherOK, Event

\* The wake-ups a step may leave.
LEMMA WakeStep ==
  ASSUME RowsOK, NEW T \in SUBSET Wakes, wake' = wake \cup T
  PROVE  wake' \subseteq Wakes
  BY DEF RowsOK

\* A worker's steps up to the reservation.
LEMMA PickUpTyped ==
  ASSUME TypeInv, NEW w \in Workers,
         \/ \E t \in Wakes : Claim(w, t)
         \/ Hold(w) \/ SlotDenied(w) \/ SlotTaken(w) \/ ClaimReservedBatch(w)
         \/ MarkSending(w) \/ SuppressPending(w)
  PROVE  TypeInv'
<1> USE DEF TypeInv, At
<1>0. run[w] \in RunType /\ LocalOK(run[w])
  BY DEF RunOK, LocalState
<1>1. ASSUME NEW t \in Wakes, Claim(w, t) PROVE TypeInv'
  <2> DEFINE x == [Idle EXCEPT !.pc = "loaded", !.job = t, !.barred = suppressed, !.owned = TRUE]
  <2>1. x \in RunType /\ LocalOK(x)
    BY DEF Idle, RunType, Steps, LocalOK, WithBatch, RowsOK
  <2>2. RunOK'
    BY <1>1, <2>1, RunStep DEF Claim, RunOK, LocalState
  <2> QED
    BY <1>1, <2>2 DEF Claim, RowsOK, OtherOK, AttemptsLeft, mail, env
<1>2. CASE Hold(w)
  BY <1>2, FinishedTyped, WakeKeys, WakeStep DEF Hold, RowsOK, OtherOK, AttemptsLeft, mail, env
<1>3. CASE SlotDenied(w)
  <2>1. run[w].job \in Wakes
    BY <1>0, <1>3 DEF SlotDenied, LocalOK
  <2>2. <<"slot", PayloadBatch(run[w].job)>> \in Wakes
    BY <2>1, WakeKeys
  <2> QED
    BY <1>3, <2>2, FinishedTyped DEF SlotDenied, RowsOK, OtherOK, AttemptsLeft, mail, env
<1>4. CASE SlotTaken(w)
  <2>1. run[w].job \in Wakes
    BY <1>0, <1>4 DEF SlotTaken, LocalOK
  <2>2. RunOK'
    BY <1>4, <2>1, GotoTyped, WakeKeys DEF SlotTaken, Steps, WithBatch
  <2> QED
    BY <1>4, <2>2, DeliveryAssumption DEF SlotTaken, RowsOK, OtherOK, AttemptsLeft, db, mail
<1>5. CASE ClaimReservedBatch(w)
  <2> DEFINE b == PayloadBatch(run[w].job)
             revived == IF batchStatus[b] = "TEMPORARY_FAILED"
                 THEN {r \in InState({"TEMPORARY_FAILED"}) : sendBatch[r] = b} ELSE {}
             recips == {r \in Recipients : sendBatch[r] = b /\ (sendState[r] = "SENDING" \/ r \in revived)}
             x == [run[w] EXCEPT !.pc = "checking", !.batch = b, !.recips = recips]
  <2>1. b \in Batches
    BY <1>0, <1>5, SMTT(30) DEF ClaimReservedBatch, LocalOK
  <2>2. x \in RunType /\ LocalOK(x)
    BY <1>0, <1>5, <2>1 DEF RunType, Steps, LocalOK, WithBatch, ClaimReservedBatch
  <2>3. Idle \in RunType /\ LocalOK(Idle)
    BY DEF Idle, RunType, Steps, LocalOK, WithBatch
  <2>4. RunOK'
    <3>1. Finished(w) \/ run' = [run EXCEPT ![w] = IF recips = {} THEN Idle ELSE x]
      BY <1>5 DEF ClaimReservedBatch
    <3> HIDE DEF x
    <3> QED
      BY <2>2, <2>3, <3>1, RunStep DEF Finished
  <2>5. /\ batchStatus' \in [Batches -> BatchStates] /\ sendState' \in [Recipients -> SendStates]
        /\ AttemptsLeft'
    BY <1>5, <2>1 DEF ClaimReservedBatch, SetState, RowsOK, AttemptsLeft, BatchStates, SendStates, Unfinished
  <2> QED
    BY <1>5, <2>4, <2>5 DEF ClaimReservedBatch, RowsOK, OtherOK, mail, env
<1>6. CASE MarkSending(w)
  BY <1>6, GotoTyped DEF MarkSending, Steps, WithBatch, RowsOK, OtherOK, AttemptsLeft, mail, env, Statuses
<1>7. CASE SuppressPending(w)
  BY <1>7, GotoTyped DEF SuppressPending, SetState, Steps, WithBatch, RowsOK, OtherOK, AttemptsLeft,
     mail, env, SendStates
<1> QED
  BY <1>1, <1>2, <1>3, <1>4, <1>5, <1>6, <1>7

\* What is left of the limit is a number, and so is the size of a reservation.
LEMMA ReservationSize ==
  ASSUME RowsOK, NEW S \in kSubset(Smaller(Allowed, Cardinality(Candidates)), Candidates)
  PROVE  /\ S \subseteq Candidates /\ S \subseteq Recipients
         /\ Cardinality(S) \in Nat
         /\ Cardinality(S) <= Allowed /\ Allowed \in Nat
<1>1. Candidates \subseteq Recipients
  BY DEF Candidates, InState
<1>2. Cardinality(Candidates) \in Nat
  BY <1>1, RecipientsFinite
<1>3. S \subseteq Candidates /\ Cardinality(S) = Smaller(Allowed, Cardinality(Candidates))
  BY DEF kSubset
<1>4. Allowed \in Nat
  BY DeliveryAssumption DEF Allowed, Smaller, RowsOK, UsageType
<1> QED
  BY <1>1, <1>2, <1>3, <1>4 DEF Smaller

\* The reservation and the last steps before the provider call.
LEMMA PrepareTyped ==
  ASSUME TypeInv, NEW w \in Workers,
         Reserve(w) \/ CheckSuppression(w) \/ Block(w) \/ PrepareAttempt(w)
  PROVE  TypeInv'
<1> USE DEF TypeInv, At
<1>0. run[w] \in RunType /\ LocalOK(run[w])
  BY DEF RunOK, LocalState
<1>1. CASE Reserve(w)
  <2>1. CASE Allowed = 0 \/ Candidates = {}
    BY <1>1, <2>1, GotoTyped DEF Reserve, Steps, WithBatch, RowsOK, OtherOK, AttemptsLeft, mail, env
  <2>2. CASE ~(Allowed = 0 \/ Candidates = {})
    <3>1. PICK S \in kSubset(Smaller(Allowed, Cardinality(Candidates)), Candidates),
               b \in {c \in Batches : /\ batchStatus[c] = "ABSENT"
                                      /\ \A d \in 1 .. c - 1 : batchStatus[d] # "ABSENT"} :
            /\ usage' = [usage EXCEPT !.reserved = @ + Cardinality(S)]
            /\ batchStatus' = [batchStatus EXCEPT ![b] = "PREPARING"]
            /\ SetState(S, "SENDING")
            /\ sendBatch' = [r \in Recipients |-> IF r \in S THEN b ELSE sendBatch[r]]
            /\ run' = [run EXCEPT ![w].pc = "checking", ![w].batch = b, ![w].recips = S]
      BY <1>1, <2>2 DEF Reserve
    <3> DEFINE x == [run[w] EXCEPT !.pc = "checking", !.batch = b, !.recips = S]
    <3>2. S \subseteq Recipients /\ Cardinality(S) \in Nat /\ b \in Batches /\ batchStatus[b] = "ABSENT"
      BY ReservationSize
    <3>3. x \in RunType /\ LocalOK(x)
      BY <1>0, <1>1, <3>2 DEF RunType, Steps, LocalOK, WithBatch, Reserve
    <3>4. RunOK'
      BY <3>1, <3>3, RunStep DEF RunOK
    <3>5. usage' \in UsageType
      BY <3>1, <3>2, UsageTaken DEF RowsOK
    <3>6. /\ batchStatus' \in [Batches -> BatchStates] /\ sendState' \in [Recipients -> SendStates]
          /\ sendBatch' \in [Recipients -> Batches \cup {None}]
      BY <3>1, <3>2 DEF SetState, RowsOK, BatchStates, SendStates, Unfinished
    <3>7. AttemptsLeft'
      <4>1. batchTries' = batchTries
        BY <1>1 DEF Reserve
      <4>2. batchTries[b] = 0 /\ 0 < MaxTries
        BY <3>2, DeliveryAssumption DEF AttemptsLeft
      <4>3. \A c \in Batches : batchStatus'[c] = IF c = b THEN "PREPARING" ELSE batchStatus[c]
        BY <3>1 DEF RowsOK
      <4> QED
        BY <4>1, <4>2, <4>3 DEF AttemptsLeft
    <3> QED
      BY <1>1, <3>4, <3>5, <3>6, <3>7 DEF Reserve, RowsOK, OtherOK, mail, env
  <2> QED
    BY <2>1, <2>2
<1>2. CASE CheckSuppression(w)
  <2> DEFINE x == [run[w] EXCEPT !.hit = SuppressedNow(w),
                                 !.pc = IF SuppressedNow(w) = {} THEN "preparing" ELSE "blocking"]
  <2>1. x \in RunType /\ LocalOK(x)
    BY <1>0, <1>2 DEF RunType, Steps, LocalOK, WithBatch, CheckSuppression, SuppressedNow
  <2>2. run' = [run EXCEPT ![w] = x]
    BY <1>2 DEF CheckSuppression
  <2> QED
    BY <1>2, <2>1, <2>2, RunStep DEF CheckSuppression, RowsOK, OtherOK, AttemptsLeft, db, mail, env
<1>3. CASE Block(w)
  <2> DEFINE n == Cardinality(run[w].hit)
             left == run[w].recips \ run[w].hit
             x == [run[w] EXCEPT !.recips = left, !.hit = {}, !.pc = "preparing"]
  <2>1. n \in Nat /\ run[w].batch \in Batches /\ run[w].hit \subseteq Recipients
    BY <1>0, <1>3, RecipientsFinite DEF Block, LocalOK, WithBatch, RunType
  <2>2. usage' \in UsageType
    <3>1. usage.reserved >= n /\ usage' = [usage EXCEPT !.reserved = @ - n, !.released = @ + n]
      BY <1>3 DEF Block
    <3> QED
      BY <2>1, <3>1, UsageGivenBack DEF RowsOK
  <2>3. RunOK'
    <3>1. CASE left = {}
      BY <1>3, <3>1, ReturnTyped DEF Block, WithBatch
    <3>2. CASE left # {}
      <4>1. x \in RunType /\ LocalOK(x)
        BY <1>0, <1>3 DEF RunType, Steps, LocalOK, WithBatch, Block
      <4>2. run' = [run EXCEPT ![w] = x]
        BY <1>3, <3>2 DEF Block
      <4> QED
        BY <4>1, <4>2, RunStep
    <3> QED
      BY <3>1, <3>2
  <2>4. /\ batchStatus' \in [Batches -> BatchStates] /\ sendState' \in [Recipients -> SendStates]
        /\ sendBatch' \in [Recipients -> Batches \cup {None}]
        /\ AttemptsLeft'
    BY <1>3, <2>1 DEF Block, SetState, RowsOK, BatchStates, SendStates, Unfinished, AttemptsLeft
  <2> QED
    BY <1>3, <2>2, <2>3, <2>4 DEF Block, RowsOK, OtherOK, mail, env
<1>4. CASE PrepareAttempt(w)
  <2>1. run[w].batch \in Batches
    BY <1>0, <1>4 DEF PrepareAttempt, LocalOK, WithBatch
  <2>2. RunOK'
    BY <1>4, <2>1, GotoTyped, ReturnTyped DEF PrepareAttempt, Steps, WithBatch
  <2>3. batchTries' \in [Batches -> 0 .. MaxTries] /\ batchStatus' \in [Batches -> BatchStates] /\ AttemptsLeft'
    BY <1>4, <2>1, DeliveryAssumption DEF PrepareAttempt, RowsOK, AttemptsLeft, BatchStates
  <2> QED
    BY <1>4, <2>2, <2>3 DEF PrepareAttempt, RowsOK, OtherOK, mail, env
<1> QED
  BY <1>1, <1>2, <1>3, <1>4

\* The provider call and the transactions that follow it.
LEMMA CommitResultTyped ==
  ASSUME TypeInv, NEW w \in Workers, CommitResult(w)
  PROVE  RowsOK' /\ AttemptsLeft' /\ mail' = mail
<1> USE DEF TypeInv, At
<1>0. run[w] \in RunType /\ LocalOK(run[w])
  BY DEF RunOK, LocalState
<1> DEFINE n == Cardinality(run[w].recips)
           k == Cardinality(run[w].hit)
           m == Cardinality(run[w].recips \ run[w].hit)
<1>1. n \in Nat /\ k \in Nat /\ m \in Nat /\ run[w].batch \in Batches
  BY <1>0, RecipientsFinite DEF CommitResult, LocalOK, WithBatch, RunType
<1>2. usage.reserved >= n /\ usage' = [reserved |-> usage.reserved - n, accepted |-> usage.accepted + k,
                                       released |-> usage.released + m]
  BY DEF CommitResult, AcceptedItems
<1>3. usage' \in UsageType
  <2> HIDE DEF n, k, m
  <2> QED
    BY <1>1, <1>2 DEF RowsOK, UsageType
<1>4. /\ batchStatus' \in [Batches -> BatchStates] /\ sendState' \in [Recipients -> SendStates]
      /\ AttemptsLeft'
  BY <1>1 DEF CommitResult, RowsOK, BatchStates, SendStates, Unfinished, AttemptsLeft
<1> QED
  BY <1>3, <1>4 DEF CommitResult, RowsOK, mail

LEMMA MisreadTyped ==
  ASSUME RunOK, NEW w \in Workers, Misread(w), run[w].pc = "finishing"
  PROVE  RunOK'
<1> DEFINE x == [run[w] EXCEPT !.pc = "failing", !.hit = {}, !.failure = "temporary"]
<1>1. run[w] \in RunType /\ LocalOK(run[w])
  BY DEF RunOK, LocalState
<1>2. x \in RunType /\ LocalOK(x)
  BY <1>1 DEF RunType, Steps, LocalOK, WithBatch
<1>3. run' = [run EXCEPT ![w] = x]
  BY MisreadFailure DEF Misread
<1> QED
  BY <1>2, <1>3, RunStep

LEMMA SubmitTyped ==
  ASSUME TypeInv, NEW w \in Workers,
         \/ SubmitAnswered(w) \/ \E e \in ProviderErrors : SubmitThrows(w, e)
         \/ Finish(w) \/ FinishThrows(w) \/ StatsThrow(w)
  PROVE  TypeInv'
<1> USE DEF TypeInv, At
<1>0. run[w] \in RunType /\ LocalOK(run[w])
  BY DEF RunOK, LocalState
<1>a. ASSUME NEW A \in SUBSET Recipients, NEW b \in Batches, NEW R, ProviderTakes(b, R, A)
      PROVE  /\ stored' \in [Batches -> (SUBSET Recipients) \cup {None}]
             /\ copies' \in [Recipients -> Nat]
  BY <1>a DEF ProviderTakes, OtherOK
<1>1. CASE SubmitAnswered(w)
  <2>1. PICK A \in SUBSET run[w].recips :
          /\ ProviderTakes(run[w].batch, run[w].recips, A)
          /\ run' = [run EXCEPT ![w].pc = "finishing", ![w].hit = A, ![w].barred = {}]
    BY <1>1 DEF SubmitAnswered
  <2> DEFINE x == [run[w] EXCEPT !.pc = "finishing", !.hit = A, !.barred = {}]
  <2>2. run[w].batch \in Batches /\ A \in SUBSET Recipients
    BY <1>0, <1>1 DEF SubmitAnswered, LocalOK, WithBatch, RunType
  <2>3. x \in RunType /\ LocalOK(x)
    BY <1>0, <1>1, <2>2 DEF RunType, Steps, LocalOK, WithBatch, SubmitAnswered
  <2>4. RunOK'
    BY <2>1, <2>3, RunStep
  <2> QED
    BY <1>1, <1>a, <2>1, <2>2, <2>4 DEF SubmitAnswered, RowsOK, OtherOK, AttemptsLeft, db, env
<1>2. ASSUME NEW e \in ProviderErrors, SubmitThrows(w, e) PROVE TypeInv'
  <2> DEFINE f == classifyProviderFailure(e.status, e.code, e.timedOut)
             x == [run[w] EXCEPT !.pc = "failing", !.barred = {}, !.failure = f]
  <2>1. f \in {"temporary", "permanent", "uncertain"}
    BY ClassifiedFailure
  <2>2. run[w].batch \in Batches /\ run[w].recips \in SUBSET Recipients
    BY <1>0, <1>2 DEF SubmitThrows, LocalOK, WithBatch, RunType
  <2>3. run' = [run EXCEPT ![w] = x]
    BY <1>2 DEF SubmitThrows
  <2> HIDE DEF f
  <2>4. x \in RunType /\ LocalOK(x)
    BY <1>0, <1>2, <2>1, <2>2 DEF RunType, Steps, LocalOK, WithBatch, SubmitThrows
  <2>5. RunOK'
    BY <2>3, <2>4, RunStep
  <2>6. /\ stored' \in [Batches -> (SUBSET Recipients) \cup {None}]
        /\ copies' \in [Recipients -> Nat]
    BY <1>2, <1>a, <2>2 DEF SubmitThrows, OtherOK
  <2> QED
    BY <1>2, <2>5, <2>6, EventOK DEF SubmitThrows, RowsOK, OtherOK, AttemptsLeft, db
<1>3. CASE Finish(w)
  BY <1>3, CommitResultTyped, ReturnTyped DEF Finish, CommitResult, WithBatch, OtherOK, mail, env
<1>4. CASE FinishThrows(w)
  BY <1>4, MisreadTyped, EventOK DEF FinishThrows, RowsOK, OtherOK, AttemptsLeft, db, mail
<1>5. CASE StatsThrow(w)
  BY <1>5, CommitResultTyped, MisreadTyped, EventOK DEF StatsThrow, CommitResult, OtherOK, mail
<1> QED
  BY <1>1, <1>2, <1>3, <1>4, <1>5

LEMMA FollowUpTyped ==
  ASSUME TypeInv, NEW w \in Workers,
         \/ FailBatch(w) \/ CheckViolated(w) \/ ScheduleRetry(w)
         \/ ScheduleNext(w) \/ CountRemaining(w) \/ CompleteCampaign(w)
  PROVE  TypeInv'
<1> USE DEF TypeInv, At
<1>0. run[w] \in RunType /\ LocalOK(run[w])
  BY DEF RunOK, LocalState
<1>1. CASE FailBatch(w)
  <2> DEFINE b == run[w].batch
             n == Cardinality(run[w].recips)
  <2>1. n \in Nat /\ b \in Batches
    BY <1>0, <1>1, RecipientsFinite DEF FailBatch, LocalOK, WithBatch, RunType
  <2>2. RunOK'
    BY <1>1, <2>1, GotoTyped, ReturnTyped DEF FailBatch, Steps, WithBatch
  <2>3. usage' \in UsageType
    <3>1. \/ usage' = usage
          \/ usage.reserved >= n /\ usage' = [usage EXCEPT !.reserved = @ - n, !.released = @ + n]
      BY <1>1 DEF FailBatch
    <3> QED
      BY <2>1, <3>1, UsageGivenBack DEF RowsOK
  <2>4. /\ batchStatus' \in [Batches -> BatchStates] /\ sendState' \in [Recipients -> SendStates]
    BY <1>1, <2>1 DEF FailBatch, SetState, RowsOK, BatchStates, SendStates, Unfinished
  <2>5. AttemptsLeft'
    <3>1. batchStatus'[b] = "TEMPORARY_FAILED" => batchTries[b] < MaxTries
      BY <1>1, <2>1 DEF FailBatch, Retryable, canRetry, RowsOK
    <3>2. batchStatus'[b] \notin {"ABSENT", "PREPARING"}
      BY <1>1, <2>1 DEF FailBatch, RowsOK
    <3>3. \A c \in Batches : c # b => batchStatus'[c] = batchStatus[c]
      BY <1>1, <2>1 DEF FailBatch, RowsOK
    <3>4. batchTries' = batchTries
      BY <1>1 DEF FailBatch
    <3> QED
      BY <3>1, <3>2, <3>3, <3>4 DEF AttemptsLeft
  <2> QED
    BY <1>1, <2>2, <2>3, <2>4, <2>5 DEF FailBatch, RowsOK, OtherOK, mail, env
<1>2. CASE CheckViolated(w)
  <2>1. run[w].job \in Wakes
    BY <1>0, <1>2 DEF CheckViolated, LocalOK
  <2> QED
    BY <1>2, <2>1, FinishedTyped DEF CheckViolated, RowsOK, OtherOK, AttemptsLeft, mail, env
<1>3. CASE ScheduleRetry(w)
  <2>1. <<"retry", run[w].batch>> \in Wakes
    BY <1>0, <1>3, WakeKeys DEF ScheduleRetry, LocalOK, WithBatch
  <2> QED
    BY <1>3, <2>1, ReturnTyped DEF ScheduleRetry, WithBatch, RowsOK, OtherOK, AttemptsLeft, mail, env
<1>4. CASE ScheduleNext(w)
  <2>1. NextJob(w) \subseteq Wakes
    BY <1>0, <1>4, WakeKeys DEF ScheduleNext, NextJob, LocalOK, WithBatch
  <2> QED
    BY <1>4, <2>1, GotoTyped DEF ScheduleNext, WithBatch, Steps, RowsOK, OtherOK, AttemptsLeft, mail, env
<1>5. CASE CountRemaining(w)
  <2>1. <<"quota", None>> \in Wakes
    BY WakeKeys
  <2>2. RunOK'
    BY <1>5, GotoTyped, FinishedTyped DEF CountRemaining, WithBatch, Steps
  <2> QED
    BY <1>5, <2>1, <2>2 DEF CountRemaining, RowsOK, OtherOK, AttemptsLeft, mail, env
<1>6. CASE CompleteCampaign(w)
  BY <1>6, FinishedTyped DEF CompleteCampaign, RowsOK, OtherOK, AttemptsLeft, mail, env, Statuses
<1> QED
  BY <1>1, <1>2, <1>3, <1>4, <1>5, <1>6

LEMMA EnvironmentTyped ==
  ASSUME TypeInv, Environment
  PROVE  TypeInv'
<1> USE DEF TypeInv
<1>1. CASE Pause \/ Resume \/ GuardTrips
  BY <1>1, EventOK, WakeKeys DEF Pause, Resume, GuardTrips, RunOK, LocalState, RowsOK, OtherOK, AttemptsLeft,
     mail, Statuses
<1>2. CASE Cancel
  <2> DEFINE members(B) == Cardinality({r \in InState({"TEMPORARY_FAILED"}) : sendBatch[r] \in B})
  <2>1. \A B : members(B) \in Nat
    BY RecipientsFinite DEF InState
  <2>2. usage' \in UsageType
    <3>1. \E B : /\ usage.reserved >= members(B)
                 /\ usage' = [usage EXCEPT !.reserved = @ - members(B), !.released = @ + members(B)]
      BY <1>2 DEF Cancel
    <3> HIDE DEF members
    <3> QED
      BY <2>1, <3>1, UsageGivenBack DEF RowsOK
  <2>3. /\ batchStatus' \in [Batches -> BatchStates] /\ sendState' \in [Recipients -> SendStates]
        /\ AttemptsLeft'
    BY <1>2 DEF Cancel, SetState, RowsOK, BatchStates, SendStates, AttemptsLeft
  <2>4. campaign' \in Statuses
    BY <1>2 DEF Cancel, Statuses
  <2>5. spent' \in 0 .. MaxEvents
    BY <1>2, EventOK DEF Cancel
  <2> QED
    BY <1>2, <2>2, <2>3, <2>4, <2>5 DEF Cancel, RunOK, LocalState, RowsOK, OtherOK, mail
<1>3. ASSUME NEW r \in Recipients, NEW u \in BOOLEAN, Suppress(r, u) PROVE TypeInv'
  BY <1>3, EventOK DEF Suppress, SetState, RunOK, LocalState, RowsOK, OtherOK, AttemptsLeft, mail, SendStates
<1>4. CASE CloseGate \/ OpenGate \/ SlotFrees
  BY <1>4, EventOK DEF CloseGate, OpenGate, SlotFrees, RunOK, LocalState, RowsOK, OtherOK, AttemptsLeft, db, mail
<1>5. ASSUME NEW b \in Batches, KeyExpires(b) PROVE TypeInv'
  BY <1>5, EventOK DEF KeyExpires, RunOK, LocalState, RowsOK, OtherOK, AttemptsLeft, db
<1>6. ASSUME NEW w \in Workers, Abort(w) \/ LoseLease(w) PROVE TypeInv'
  <2>0. run[w] \in RunType /\ LocalOK(run[w])
    BY DEF RunOK, LocalState
  <2>1. run[w].job \in Wakes
    BY <1>6, <2>0 DEF Abort, LoseLease, At, LocalOK
  <2>2. CASE Abort(w)
    BY <2>1, <2>2, FinishedTyped, EventOK DEF Abort, RowsOK, OtherOK, AttemptsLeft, mail
  <2>3. CASE LoseLease(w)
    <3> DEFINE x == [run[w] EXCEPT !.owned = FALSE]
    <3>1. x \in RunType /\ LocalOK(x)
      BY <2>0 DEF RunType, LocalOK
    <3>2. RunOK'
      BY <2>3, <3>1, RunStep DEF LoseLease
    <3> QED
      BY <2>1, <2>3, <3>2, EventOK DEF LoseLease, RowsOK, OtherOK, AttemptsLeft, mail
  <2> QED
    BY <1>6, <2>2, <2>3
<1> QED
  BY <1>1, <1>2, <1>3, <1>4, <1>5, <1>6 DEF Environment

LEMMA StepTypeInv == TypeInv /\ [Next]_vars => TypeInv'
<1> SUFFICES ASSUME TypeInv, [Next]_vars PROVE TypeInv'
  OBVIOUS
<1>1. CASE Environment
  BY <1>1, EnvironmentTyped
<1>2. ASSUME NEW w \in Workers, Work(w) PROVE TypeInv'
  BY <1>2, PickUpTyped, PrepareTyped, SubmitTyped, FollowUpTyped DEF Work
<1>3. CASE UNCHANGED vars
  BY <1>3 DEF vars, db, mail, env, TypeInv, RunOK, LocalState, RowsOK, OtherOK, AttemptsLeft
<1> QED
  BY <1>1, <1>2, <1>3 DEF Next

LEMMA TypeInvariant == Spec => []TypeInv
  BY InitTypeInv, StepTypeInv, PTL DEF Spec

\* Every variable keeps its type; no count goes below zero and no batch is
\* tried more often than the retry policy allows.
THEOREM TypeCorrect == Spec => []TypeOK
  BY TypeInvariant, TypeInvImpliesTypeOK, PTL

-----------------------------------------------------------------------------
(* Frame lemmas: what a step of one worker leaves alone. *)

\* A worker's step changes no other worker's local state.
LEMMA OthersKeep ==
  ASSUME RunOK, NEW w \in Workers, Work(w)
  PROVE  \A v \in Workers : v # w => run'[v] = run[v]
<1> USE DEF RunOK
<1>1. ASSUME NEW x, run' = [run EXCEPT ![w] = x] PROVE \A v \in Workers : v # w => run'[v] = run[v]
  BY <1>1
<1>2. ASSUME \/ Finished(w) \/ Return(w) \/ Misread(w) \/ \E step \in Steps : Goto(w, step)
      PROVE  \A v \in Workers : v # w => run'[v] = run[v]
  BY <1>2 DEF Finished, Return, Misread, Goto
<1>3. CASE (\E t \in Wakes : Claim(w, t)) \/ Hold(w) \/ SlotDenied(w) \/ SlotTaken(w) \/ ClaimReservedBatch(w)
  BY <1>2, <1>3 DEF Claim, Hold, SlotDenied, SlotTaken, ClaimReservedBatch, Steps
<1>4. CASE MarkSending(w) \/ SuppressPending(w) \/ Reserve(w) \/ CheckSuppression(w) \/ Block(w) \/ PrepareAttempt(w)
  BY <1>2, <1>4 DEF MarkSending, SuppressPending, Reserve, CheckSuppression, Block, PrepareAttempt, Steps
<1>5. CASE SubmitAnswered(w) \/ \E e \in ProviderErrors : SubmitThrows(w, e)
  BY <1>5 DEF SubmitAnswered, SubmitThrows
<1>6. CASE Finish(w) \/ FinishThrows(w) \/ StatsThrow(w) \/ FailBatch(w) \/ CheckViolated(w) \/ ScheduleRetry(w)
  BY <1>2, <1>6 DEF Finish, FinishThrows, StatsThrow, FailBatch, CheckViolated, ScheduleRetry, Steps
<1>7. CASE ScheduleNext(w) \/ CountRemaining(w) \/ CompleteCampaign(w)
  BY <1>2, <1>7 DEF ScheduleNext, CountRemaining, CompleteCampaign, Steps
<1> QED
  BY <1>3, <1>4, <1>5, <1>6, <1>7 DEF Work

\* Where a worker goes, field by field.
Gets(y, pc, job, batch, recips, hit, failure, barred, owned) ==
  /\ y.pc = pc /\ y.job = job /\ y.batch = batch /\ y.recips = recips
  /\ y.hit = hit /\ y.failure = failure /\ y.barred = barred /\ y.owned = owned

LEMMA GotoEffect ==
  ASSUME RunOK, NEW w \in Workers, NEW step, Goto(w, step)
  PROVE  LET x == run[w]
         IN  Gets(run'[w], step, x.job, x.batch, x.recips, x.hit, x.failure, x.barred, x.owned)
  BY DEF RunOK, RunType, Goto, Gets

LEMMA FinishedEffect ==
  ASSUME RunOK, NEW w \in Workers, Finished(w)
  PROVE  run'[w] = Idle
  BY DEF RunOK, Finished

LEMMA ReturnEffect ==
  ASSUME RunOK, NEW w \in Workers, Return(w)
  PROVE  LET x == run[w]
         IN  \/ run'[w] = Idle /\ PayloadBatch(x.job) # None
             \/ /\ PayloadBatch(x.job) = None
                /\ Gets(run'[w], "chaining", x.job, x.batch, {}, {}, None, {}, x.owned)
  BY DEF RunOK, RunType, Return, Gets

LEMMA MisreadEffect ==
  ASSUME RunOK, NEW w \in Workers, Misread(w)
  PROVE  LET x == run[w]
         IN  Gets(run'[w], "failing", x.job, x.batch, x.recips, {}, "temporary", x.barred, x.owned)
  BY MisreadFailure, ZenonT(60) DEF RunOK, RunType, Misread, Gets

\* The recipients a retry takes: those of its batch that wait, and those
\* already marked SENDING.
Revived(b) == IF batchStatus[b] = "TEMPORARY_FAILED"
              THEN {r \in InState({"TEMPORARY_FAILED"}) : sendBatch[r] = b} ELSE {}
Taken(b) == {r \in Recipients : sendBatch[r] = b /\ (sendState[r] = "SENDING" \/ r \in Revived(b))}

LEMMA ClaimReservedEffect ==
  ASSUME RunOK, NEW w \in Workers, ClaimReservedBatch(w)
  PROVE  LET x == run[w]
             b == PayloadBatch(x.job)
         IN  \/ run'[w] = Idle /\ UNCHANGED <<batchStatus, sendState>>
             \/ /\ batchStatus[b] \in {"TEMPORARY_FAILED", "PREPARING"}
                /\ batchStatus' = [batchStatus EXCEPT ![b] = "PREPARING"]
                /\ SetState(Revived(b), "SENDING")
                /\ \/ run'[w] = Idle
                   \/ Gets(run'[w], "checking", x.job, b, Taken(b), x.hit, x.failure, x.barred, x.owned)
<1> DEFINE b == PayloadBatch(run[w].job)
           x == [run[w] EXCEPT !.pc = "checking", !.batch = b, !.recips = Taken(b)]
<1>1. \/ Finished(w) /\ UNCHANGED <<batchStatus, sendState>>
      \/ /\ batchStatus[b] \in {"TEMPORARY_FAILED", "PREPARING"}
         /\ batchStatus' = [batchStatus EXCEPT ![b] = "PREPARING"]
         /\ SetState(Revived(b), "SENDING")
         /\ run' = [run EXCEPT ![w] = IF Taken(b) = {} THEN Idle ELSE x]
  BY DEF ClaimReservedBatch, Taken, Revived
<1>2. Gets(x, "checking", run[w].job, b, Taken(b), run[w].hit, run[w].failure, run[w].barred, run[w].owned)
  BY DEF RunOK, RunType, Gets
<1> HIDE DEF x
<1>3. \A y : run' = [run EXCEPT ![w] = y] => run'[w] = y
  BY DEF RunOK
<1> QED
  BY <1>1, <1>2, <1>3, FinishedEffect

LEMMA ReserveEffect ==
  ASSUME RunOK, RowsOK, NEW w \in Workers, Reserve(w), ~(Allowed = 0 \/ Candidates = {})
  PROVE  LET x == run[w]
         IN  \E S \in kSubset(Smaller(Allowed, Cardinality(Candidates)), Candidates), b \in Batches :
               /\ batchStatus[b] = "ABSENT"
               /\ usage' = [usage EXCEPT !.reserved = @ + Cardinality(S)]
               /\ batchStatus' = [batchStatus EXCEPT ![b] = "PREPARING"]
               /\ SetState(S, "SENDING")
               /\ sendBatch' = [r \in Recipients |-> IF r \in S THEN b ELSE sendBatch[r]]
               /\ Gets(run'[w], "checking", x.job, b, S, x.hit, x.failure, x.barred, x.owned)
<1>1. PICK S \in kSubset(Smaller(Allowed, Cardinality(Candidates)), Candidates),
           b \in {c \in Batches : /\ batchStatus[c] = "ABSENT"
                                  /\ \A d \in 1 .. c - 1 : batchStatus[d] # "ABSENT"} :
        /\ usage' = [usage EXCEPT !.reserved = @ + Cardinality(S)]
        /\ batchStatus' = [batchStatus EXCEPT ![b] = "PREPARING"]
        /\ SetState(S, "SENDING")
        /\ sendBatch' = [r \in Recipients |-> IF r \in S THEN b ELSE sendBatch[r]]
        /\ run' = [run EXCEPT ![w].pc = "checking", ![w].batch = b, ![w].recips = S]
  BY DEF Reserve
<1>2. LET x == run[w] IN Gets(run'[w], "checking", x.job, b, S, x.hit, x.failure, x.barred, x.owned)
  BY <1>1 DEF RunOK, RunType, Gets
<1> QED
  BY <1>1, <1>2

LEMMA CheckEffect ==
  ASSUME RunOK, NEW w \in Workers, CheckSuppression(w)
  PROVE  LET x == run[w]
             next == IF SuppressedNow(w) = {} THEN "preparing" ELSE "blocking"
         IN  Gets(run'[w], next, x.job, x.batch, x.recips, SuppressedNow(w), x.failure, x.barred, x.owned)
<1>1. run' = [run EXCEPT ![w].hit = SuppressedNow(w),
                         ![w].pc = IF SuppressedNow(w) = {} THEN "preparing" ELSE "blocking"]
  BY DEF CheckSuppression
<1> QED
  BY <1>1 DEF RunOK, RunType, Gets

LEMMA BlockEffect ==
  ASSUME RunOK, NEW w \in Workers, Block(w)
  PROVE  LET x == run[w]
         IN  \/ x.recips \ x.hit = {} /\ Return(w)
             \/ Gets(run'[w], "preparing", x.job, x.batch, x.recips \ x.hit, {}, x.failure, x.barred, x.owned)
  BY DEF RunOK, RunType, Block, Gets

LEMMA AnsweredEffect ==
  ASSUME RunOK, NEW w \in Workers, SubmitAnswered(w)
  PROVE  LET x == run[w]
         IN  \E A \in SUBSET x.recips :
               /\ ProviderTakes(x.batch, x.recips, A)
               /\ Gets(run'[w], "finishing", x.job, x.batch, x.recips, A, x.failure, {}, x.owned)
<1>1. PICK A \in SUBSET run[w].recips :
        /\ ProviderTakes(run[w].batch, run[w].recips, A)
        /\ run' = [run EXCEPT ![w].pc = "finishing", ![w].hit = A, ![w].barred = {}]
  BY DEF SubmitAnswered
<1>2. LET x == run[w] IN Gets(run'[w], "finishing", x.job, x.batch, x.recips, A, x.failure, {}, x.owned)
  BY <1>1 DEF RunOK, RunType, Gets
<1> QED
  BY <1>1, <1>2

LEMMA ThrowsEffect ==
  ASSUME RunOK, NEW w \in Workers, NEW e \in ProviderErrors, SubmitThrows(w, e)
  PROVE  LET x == run[w]
         IN  \E f \in {"temporary", "permanent", "uncertain"} :
               Gets(run'[w], "failing", x.job, x.batch, x.recips, x.hit, f, {}, x.owned)
<1> DEFINE f == classifyProviderFailure(e.status, e.code, e.timedOut)
<1>1. f \in {"temporary", "permanent", "uncertain"}
  BY ClassifiedFailure
<1>2. run' = [run EXCEPT ![w].pc = "failing", ![w].barred = {}, ![w].failure = f]
  BY DEF SubmitThrows
<1> HIDE DEF f
<1>3. LET x == run[w] IN Gets(run'[w], "failing", x.job, x.batch, x.recips, x.hit, f, {}, x.owned)
  BY <1>2 DEF RunOK, RunType, Gets
<1> QED
  BY <1>1, <1>3

\* The environment stops a job or takes its lease; it changes nothing else of
\* what a worker knows.
LeaseLost(y, x) == Gets(y, x.pc, x.job, x.batch, x.recips, x.hit, x.failure, x.barred, FALSE)

LEMMA EnvironmentKeeps ==
  ASSUME RunOK, Environment, NEW v \in Workers
  PROVE  \/ run'[v] = run[v] \/ run'[v] = Idle
         \/ "lease loss" \in Events /\ LeaseLost(run'[v], run[v])
<1>1. CASE Pause \/ Resume \/ Cancel \/ GuardTrips
  BY <1>1 DEF Pause, Resume, Cancel, GuardTrips
<1>2. CASE \E r \in Recipients, u \in BOOLEAN : Suppress(r, u)
  BY <1>2 DEF Suppress
<1>3. CASE CloseGate \/ OpenGate \/ SlotFrees \/ \E b \in Batches : KeyExpires(b)
  BY <1>3 DEF CloseGate, OpenGate, SlotFrees, KeyExpires
<1>4. ASSUME NEW w \in Workers, Abort(w) PROVE run'[v] = run[v] \/ run'[v] = Idle
  BY <1>4 DEF RunOK, Abort, Finished
<1>5. ASSUME NEW w \in Workers, LoseLease(w)
      PROVE  run'[v] = run[v] \/ ("lease loss" \in Events /\ LeaseLost(run'[v], run[v]))
  <2>1. run' = [run EXCEPT ![w].owned = FALSE] /\ "lease loss" \in Events
    BY <1>5 DEF LoseLease, Event
  <2> DEFINE x == [run[w] EXCEPT !.owned = FALSE]
  <2>2. LeaseLost(x, run[w])
    BY DEF RunOK, RunType, LeaseLost, Gets
  <2>3. run' = [run EXCEPT ![w] = x]
    BY <2>1
  <2> HIDE DEF x
  <2>4. run'[w] = x /\ (v # w => run'[v] = run[v])
    BY <2>3 DEF RunOK
  <2>5. CASE v = w
    BY <2>1, <2>2, <2>4, <2>5
  <2> QED
    BY <2>4, <2>5
<1> QED
  BY <1>1, <1>2, <1>3, <1>4, <1>5 DEF Environment

\* Suppressions are never taken back here.
LEMMA SuppressedGrows ==
  ASSUME Next
  PROVE  suppressed \subseteq suppressed'
<1>1. CASE Environment
  BY <1>1 DEF Environment, Pause, Resume, Cancel, GuardTrips, Suppress, CloseGate, OpenGate, SlotFrees,
     KeyExpires, Abort, LoseLease, db
<1>2. ASSUME NEW w \in Workers, Work(w) PROVE suppressed' = suppressed
  BY <1>2 DEF Work, Claim, Hold, SlotDenied, SlotTaken, ClaimReservedBatch, MarkSending, SuppressPending,
     Reserve, CheckSuppression, Block, PrepareAttempt, SubmitAnswered, SubmitThrows, Finish, FinishThrows,
     StatsThrow, CommitResult, FailBatch, CheckViolated, ScheduleRetry, ScheduleNext, CountRemaining,
     CompleteCampaign, db
<1> QED
  BY <1>1, <1>2 DEF Next

-----------------------------------------------------------------------------
(* Suppression. *)

\* Who was suppressed when the job started still is, is found by the last
\* look, and is gone from the recipients once that look has been acted on.
ListOK(x) ==
  /\ x.pc # "idle" => x.barred \subseteq suppressed
  /\ x.pc = "blocking" => x.recips \cap x.barred \subseteq x.hit
  /\ x.pc \in {"preparing", "submitting"} => x.recips \cap x.barred = {}
ListRespected == \A w \in Workers : ListOK(run[w])

LEMMA WorkRespectsList ==
  ASSUME RunOK, RowsOK, ListRespected, NEW w \in Workers, Work(w), suppressed \subseteq suppressed'
  PROVE  ListOK(run[w])'
<1> USE DEF At
<1>0. run[w] \in RunType /\ LocalOK(run[w]) /\ ListOK(run[w])
  BY DEF RunOK, LocalState, ListRespected
<1>a. ASSUME run'[w] = run[w] \/ run'[w] = Idle PROVE ListOK(run[w])'
  BY <1>0, <1>a DEF ListOK, Idle
<1>b. ASSUME run'[w].pc \notin {"blocking", "preparing", "submitting"}, run'[w].barred \subseteq run[w].barred,
             run[w].pc # "idle"
      PROVE  ListOK(run[w])'
  BY <1>0, <1>b DEF ListOK
<1>c. ASSUME Finished(w) PROVE ListOK(run[w])'
  BY <1>a, <1>c, FinishedEffect
<1>d. ASSUME Return(w), run[w].pc # "idle" PROVE ListOK(run[w])'
  BY <1>0, <1>a, <1>b, <1>d, ReturnEffect DEF Gets
<1>e. ASSUME NEW step, Goto(w, step), step \notin {"blocking", "preparing", "submitting"},
             run[w].pc # "idle"
      PROVE  ListOK(run[w])'
  BY <1>0, <1>b, <1>e, GotoEffect DEF Gets
<1>f. ASSUME Misread(w), run[w].pc # "idle" PROVE ListOK(run[w])'
  BY <1>0, <1>b, <1>f, MisreadEffect DEF Gets
<1>1. ASSUME NEW t \in Wakes, Claim(w, t) PROVE ListOK(run[w])'
  BY <1>1, <1>a DEF Claim, RunOK, ListOK, Idle
<1>2. CASE Hold(w) \/ SlotDenied(w) \/ SlotTaken(w) \/ MarkSending(w) \/ SuppressPending(w)
  BY <1>2, <1>c, <1>e DEF Hold, SlotDenied, SlotTaken, MarkSending, SuppressPending, Steps
<1>3. CASE ClaimReservedBatch(w)
  <2>1. run[w].pc = "retrying"
    BY <1>3 DEF ClaimReservedBatch
  <2> QED
    BY <1>0, <1>3, <1>a, <1>b, <2>1, ClaimReservedEffect DEF Gets
<1>4. CASE Reserve(w)
  <2>1. run[w].pc = "reserving"
    BY <1>4 DEF Reserve
  <2>2. CASE Allowed = 0 \/ Candidates = {}
    BY <1>4, <1>e, <2>1, <2>2 DEF Reserve
  <2>3. CASE ~(Allowed = 0 \/ Candidates = {})
    BY <1>0, <1>4, <1>b, <2>1, <2>3, ReserveEffect DEF Gets
  <2> QED
    BY <2>2, <2>3
<1>5. CASE CheckSuppression(w)
  <2>1. run[w].pc = "checking" /\ suppressed' = suppressed
    BY <1>5 DEF CheckSuppression, db
  <2> QED
    BY <1>0, <1>5, <2>1, CheckEffect DEF SuppressedNow, Gets, ListOK
<1>6. CASE Block(w)
  <2>1. run[w].pc = "blocking"
    BY <1>6 DEF Block
  <2> QED
    BY <1>0, <1>6, <1>d, <2>1, BlockEffect DEF Gets, ListOK
<1>7. CASE PrepareAttempt(w)
  <2>1. run[w].pc = "preparing" /\ (Return(w) \/ Goto(w, "submitting"))
    BY <1>7 DEF PrepareAttempt
  <2> QED
    BY <1>0, <1>d, <2>1, GotoEffect DEF Gets, ListOK
<1>8. CASE SubmitAnswered(w) \/ \E e \in ProviderErrors : SubmitThrows(w, e)
  <2>1. run[w].pc = "submitting"
    BY <1>8 DEF SubmitAnswered, SubmitThrows
  <2> QED
    BY <1>0, <1>8, <1>b, <2>1, AnsweredEffect, ThrowsEffect DEF Gets
<1>9. CASE Finish(w) \/ FinishThrows(w) \/ StatsThrow(w)
  BY <1>9, <1>d, <1>f DEF Finish, FinishThrows, StatsThrow, CommitResult
<1>10. CASE FailBatch(w) \/ CheckViolated(w) \/ ScheduleRetry(w)
  BY <1>10, <1>c, <1>d, <1>e DEF FailBatch, CheckViolated, ScheduleRetry, Steps
<1>11. CASE ScheduleNext(w) \/ CountRemaining(w) \/ CompleteCampaign(w)
  BY <1>11, <1>c, <1>e DEF ScheduleNext, CountRemaining, CompleteCampaign, Steps
<1> QED
  BY <1>1, <1>2, <1>3, <1>4, <1>5, <1>6, <1>7, <1>8, <1>9, <1>10, <1>11 DEF Work

LEMMA StepListRespected == TypeInv /\ ListRespected /\ [Next]_vars => ListRespected'
<1> SUFFICES ASSUME TypeInv, ListRespected, [Next]_vars PROVE ListRespected'
  OBVIOUS
<1>0. RunOK /\ RowsOK
  BY DEF TypeInv
<1>1. CASE UNCHANGED vars
  BY <1>1 DEF vars, db, ListRespected, ListOK
<1>2. CASE Next
  <2>1. suppressed \subseteq suppressed'
    BY <1>2, SuppressedGrows
  <2>2. ASSUME NEW v \in Workers, \/ run'[v] = run[v] \/ run'[v] = Idle
                                 \/ LeaseLost(run'[v], run[v])
        PROVE  ListOK(run[v])'
    <3>1. run[v] \in RunType
      BY <1>0 DEF RunOK
    <3> QED
      BY <2>1, <2>2, <3>1 DEF ListRespected, ListOK, Idle, LeaseLost, Gets
  <2>3. CASE Environment
    BY <1>0, <2>2, <2>3, EnvironmentKeeps DEF ListRespected
  <2>4. ASSUME NEW w \in Workers, Work(w) PROVE ListRespected'
    BY <1>0, <2>1, <2>2, <2>4, WorkRespectsList, OthersKeep DEF ListRespected
  <2> QED
    BY <1>2, <2>3, <2>4 DEF Next
<1> QED
  BY <1>1, <1>2

\* A recipient whose address was on the suppression list when the job started
\* is in none of the job's provider calls: the last look finds the address,
\* also in a batch chosen long before, and the block transaction takes the
\* recipient out.
THEOREM SuppressionHolds == Spec => []SuppressionRespected
<1>1. Init => ListRespected
  BY DEF Init, ListRespected, ListOK, Idle
<1>2. ListRespected => SuppressionRespected
  BY DEF ListRespected, ListOK, SuppressionRespected, At
<1> QED
  BY <1>1, <1>2, StepListRespected, TypeInvariant, PTL DEF Spec

-----------------------------------------------------------------------------
(* One provider call per batch. *)

\* A batch in some worker's provider call is past submission.
Unsubmitted == {"ABSENT", "PREPARING", "TEMPORARY_FAILED"}
PastSubmission ==
  \A w \in Workers : run[w].pc \in InFlight => batchStatus[run[w].batch] \notin Unsubmitted

\* What brings a worker into flight, or leaves it there.
LEMMA FlightActions ==
  ASSUME RunOK, RowsOK, NEW w \in Workers, Work(w), run'[w].pc \in InFlight
  PROVE  \/ PrepareAttempt(w) /\ Goto(w, "submitting") /\ batchStatus[run[w].batch] = "PREPARING"
         \/ SubmitAnswered(w)
         \/ \E e \in ProviderErrors : SubmitThrows(w, e)
         \/ (FinishThrows(w) \/ StatsThrow(w)) /\ Misread(w)
<1> USE DEF At
<1>c. ~Finished(w)
  BY FinishedEffect DEF Idle, InFlight
<1>d. ~Return(w)
  BY ReturnEffect DEF Gets, Idle, InFlight
<1>e. \A step \in Steps : Goto(w, step) => step \in InFlight
  BY GotoEffect DEF Gets
<1>1. ~(\E t \in Wakes : Claim(w, t))
  BY ZenonT(60) DEF Claim, RunOK, Idle, InFlight
<1>2. ~(Hold(w) \/ SlotDenied(w) \/ SlotTaken(w) \/ MarkSending(w) \/ SuppressPending(w))
  BY <1>c, <1>e DEF Hold, SlotDenied, SlotTaken, MarkSending, SuppressPending, Steps, InFlight
<1>3. ~ClaimReservedBatch(w)
  BY ClaimReservedEffect DEF Gets, InFlight, Idle
<1>4. ~Reserve(w)
  <2>1. CASE Allowed = 0 \/ Candidates = {}
    BY <1>e, <2>1 DEF Reserve, Steps, InFlight
  <2>2. CASE ~(Allowed = 0 \/ Candidates = {})
    BY <2>2, ReserveEffect DEF Gets, InFlight
  <2> QED
    BY <2>1, <2>2
<1>5. ~CheckSuppression(w) /\ ~Block(w)
  BY <1>d, CheckEffect, BlockEffect DEF Gets, InFlight
<1>6. PrepareAttempt(w) => Goto(w, "submitting") /\ batchStatus[run[w].batch] = "PREPARING"
  BY <1>d DEF PrepareAttempt
<1>7. /\ ~Finish(w)
      /\ FinishThrows(w) \/ StatsThrow(w) => Misread(w)
  BY <1>d DEF Finish, FinishThrows, StatsThrow
<1>8. ~(FailBatch(w) \/ CheckViolated(w) \/ ScheduleRetry(w))
  BY <1>c, <1>d, <1>e DEF FailBatch, CheckViolated, ScheduleRetry, Steps, InFlight
<1>9. ~(ScheduleNext(w) \/ CountRemaining(w) \/ CompleteCampaign(w))
  BY <1>c, <1>e DEF ScheduleNext, CountRemaining, CompleteCampaign, Steps, InFlight
<1> QED
  BY <1>1, <1>2, <1>3, <1>4, <1>5, <1>6, <1>7, <1>8, <1>9 DEF Work

\* A worker comes into flight through PrepareAttempt only, and keeps its
\* batch while it is.
LEMMA EntersFlight ==
  ASSUME RunOK, RowsOK, NEW w \in Workers, Work(w), run'[w].pc \in InFlight
  PROVE  /\ run'[w].batch = run[w].batch /\ run[w].batch \in Batches
         /\ \/ run[w].pc \in InFlight /\ ~FailBatch(w)
            \/ batchStatus[run[w].batch] = "PREPARING" /\ batchStatus'[run[w].batch] = "SUBMITTING"
<1> USE DEF At
<1>1. run[w].pc \in InFlight \cup {"preparing"} => run[w].batch \in Batches
  BY DEF RunOK, LocalState, LocalOK, InFlight, WithBatch
<1>2. CASE PrepareAttempt(w) /\ Goto(w, "submitting") /\ batchStatus[run[w].batch] = "PREPARING"
  <2>1. run[w].pc = "preparing" /\ batchStatus' = [batchStatus EXCEPT ![run[w].batch] = "SUBMITTING"]
    BY <1>2 DEF PrepareAttempt
  <2> QED
    BY <1>1, <1>2, <2>1, GotoEffect DEF Gets, RowsOK
<1>3. CASE SubmitAnswered(w) \/ \E e \in ProviderErrors : SubmitThrows(w, e)
  <2>1. run[w].pc = "submitting" /\ ~FailBatch(w)
    BY <1>3 DEF SubmitAnswered, SubmitThrows, FailBatch
  <2>2. run'[w].batch = run[w].batch
    BY <1>3, AnsweredEffect, ThrowsEffect DEF Gets
  <2> QED
    BY <1>1, <2>1, <2>2 DEF InFlight
<1>4. CASE (FinishThrows(w) \/ StatsThrow(w)) /\ Misread(w)
  <2>1. run[w].pc = "finishing" /\ ~FailBatch(w)
    BY <1>4 DEF FinishThrows, StatsThrow, CommitResult, FailBatch
  <2> QED
    BY <1>1, <1>4, <2>1, MisreadEffect DEF Gets, InFlight
<1> QED
  BY <1>2, <1>3, <1>4, FlightActions

\* Only the failure transaction of its submitter makes a submitted batch
\* ready to be submitted again.
LEMMA BecomesUnsubmitted ==
  ASSUME RunOK, RowsOK, NEW c \in Batches, batchStatus'[c] \in Unsubmitted, batchStatus[c] \notin Unsubmitted,
         Next
  PROVE  \E w \in Workers : FailBatch(w) /\ c = run[w].batch
<1>1. ~Environment
  BY DEF Environment, Pause, Resume, Cancel, GuardTrips, Suppress, CloseGate, OpenGate, SlotFrees,
     KeyExpires, Abort, LoseLease, db, RowsOK, Unsubmitted
<1>2. PICK w \in Workers : Work(w)
  BY <1>1 DEF Next
<1>3. run[w].pc \in WithBatch => run[w].batch \in Batches
  BY DEF RunOK, LocalState, LocalOK
<1>4. ~ClaimReservedBatch(w)
  BY ClaimReservedEffect DEF RowsOK, Unsubmitted
<1>5. ~Reserve(w)
  <2>1. CASE Allowed = 0 \/ Candidates = {}
    BY <2>1 DEF Reserve, Unsubmitted
  <2>2. CASE ~(Allowed = 0 \/ Candidates = {})
    BY <2>2, ReserveEffect DEF RowsOK, Unsubmitted
  <2> QED
    BY <2>1, <2>2
<1>6. ~Block(w) /\ ~PrepareAttempt(w)
  BY <1>3 DEF Block, PrepareAttempt, RowsOK, Unsubmitted, At, WithBatch
<1>7. ~CommitResult(w)
  BY <1>3 DEF CommitResult, RowsOK, Unsubmitted, At, WithBatch
<1>8. FailBatch(w)
  BY <1>2, <1>4, <1>5, <1>6, <1>7 DEF Work, Claim, Hold, SlotDenied, SlotTaken, MarkSending, SuppressPending,
     CheckSuppression, SubmitAnswered, SubmitThrows, Finish, FinishThrows, StatsThrow, CheckViolated,
     ScheduleRetry, ScheduleNext, CountRemaining, CompleteCampaign, db, Unsubmitted
<1>9. c = run[w].batch
  BY <1>3, <1>8 DEF FailBatch, RowsOK, Unsubmitted, At, WithBatch
<1> QED
  BY <1>8, <1>9

\* Whoever is in flight after a step was in flight with the same batch
\* before, or has just submitted it.
LEMMA InFlightBefore ==
  ASSUME RunOK, RowsOK, Next, NEW v \in Workers, run'[v].pc \in InFlight
  PROVE  /\ run'[v].batch = run[v].batch /\ run[v].batch \in Batches
         /\ \/ run[v].pc \in InFlight /\ ~FailBatch(v)
            \/ /\ batchStatus[run[v].batch] = "PREPARING" /\ batchStatus'[run[v].batch] = "SUBMITTING"
               /\ \A u \in Workers : u # v => run'[u] = run[u]
<1>0. run[v] \in RunType /\ LocalOK(run[v])
  BY DEF RunOK, LocalState
<1>a. run[v].pc \in InFlight => run[v].batch \in Batches
  BY <1>0 DEF LocalOK, InFlight, WithBatch
<1>b. FailBatch(v) => run'[v].pc \notin InFlight
  <2>1. Return(v) => run'[v].pc \notin InFlight
    BY ReturnEffect DEF Gets, Idle, InFlight
  <2>2. Goto(v, "rescheduling") => run'[v].pc \notin InFlight
    BY GotoEffect DEF Gets, InFlight
  <2> QED
    BY <2>1, <2>2 DEF FailBatch
<1>1. CASE Environment
  <2>1. run'[v] # Idle
    BY DEF Idle, InFlight
  <2>2. run'[v].pc = run[v].pc /\ run'[v].batch = run[v].batch
    BY <1>1, <2>1, EnvironmentKeeps DEF LeaseLost, Gets
  <2> QED
    BY <1>a, <1>b, <2>2
<1>2. ASSUME NEW w \in Workers, Work(w), w # v PROVE run'[v] = run[v]
  BY <1>2, OthersKeep
<1>3. CASE Work(v)
  BY <1>3, EntersFlight, OthersKeep
<1> QED
  BY <1>1, <1>2, <1>3, <1>a, <1>b DEF Next

LEMMA StepSingleSubmitter ==
  TypeInv /\ PastSubmission /\ SingleSubmitter /\ [Next]_vars => PastSubmission' /\ SingleSubmitter'
<1> SUFFICES ASSUME TypeInv, PastSubmission, SingleSubmitter, [Next]_vars
             PROVE  PastSubmission' /\ SingleSubmitter'
  OBVIOUS
<1>0. RunOK /\ RowsOK
  BY DEF TypeInv
<1>1. CASE UNCHANGED vars
  BY <1>1 DEF vars, db, PastSubmission, SingleSubmitter
<1>2. CASE Next
  <2>1. PastSubmission'
    <3> SUFFICES ASSUME NEW v \in Workers, run'[v].pc \in InFlight, batchStatus'[run'[v].batch] \in Unsubmitted
                 PROVE  FALSE
      BY DEF PastSubmission
    <3>1. run'[v].batch = run[v].batch /\ run[v].batch \in Batches /\ run[v].pc \in InFlight /\ ~FailBatch(v)
      BY <1>0, <1>2, InFlightBefore DEF Unsubmitted
    <3>2. batchStatus[run[v].batch] \notin Unsubmitted
      BY <3>1 DEF PastSubmission
    <3>3. PICK w \in Workers : FailBatch(w) /\ run[v].batch = run[w].batch
      BY <1>0, <1>2, <3>1, <3>2, BecomesUnsubmitted
    <3>4. run[w].pc \in InFlight /\ w # v
      BY <3>1, <3>3 DEF FailBatch, At, InFlight
    <3> QED
      BY <3>1, <3>3, <3>4 DEF SingleSubmitter
  <2>2. SingleSubmitter'
    <3> SUFFICES ASSUME NEW v \in Workers, NEW w \in Workers, v # w, run'[v].pc \in InFlight,
                        run'[w].pc \in InFlight, run'[v].batch = run'[w].batch
                 PROVE  FALSE
      BY DEF SingleSubmitter
    <3>1. run[v].batch = run[w].batch
      BY <1>0, <1>2, InFlightBefore
    <3>2. ~(run[v].pc \in InFlight /\ run[w].pc \in InFlight)
      BY <3>1 DEF SingleSubmitter
    <3>3. ASSUME NEW x \in Workers, NEW y \in Workers, x # y, run'[x].pc \in InFlight, run'[y].pc \in InFlight,
                 run[x].batch = run[y].batch, run[x].pc \notin InFlight
          PROVE  FALSE
      <4>1. batchStatus[run[x].batch] = "PREPARING" /\ run'[y] = run[y]
        BY <1>0, <1>2, <3>3, InFlightBefore
      <4> QED
        BY <3>3, <4>1 DEF PastSubmission, Unsubmitted
    <3> QED
      BY <3>1, <3>2, <3>3
  <2> QED
    BY <2>1, <2>2
<1> QED
  BY <1>1, <1>2

\* At most one provider call is under way for a batch, whatever leases are
\* lost and whichever errors the provider or the database raise.
THEOREM OneSubmitter == Spec => []SingleSubmitter
<1>1. Init => PastSubmission /\ SingleSubmitter
  BY DEF Init, PastSubmission, SingleSubmitter, Idle, InFlight
<1> QED
  BY <1>1, StepSingleSubmitter, TypeInvariant, PTL DEF Spec

-----------------------------------------------------------------------------
(* Acceptance. *)

\* What the provider remembers, and what a worker was told, has been sent.
AnswersAreSent ==
  /\ \A b \in Batches : stored[b] # None => \A r \in stored[b] : copies[r] > 0
  /\ \A w \in Workers : run[w].pc = "finishing" => \A r \in run[w].hit : copies[r] > 0

\* Only an answer of the provider brings a worker to the result.
LEMMA EntersFinishing ==
  ASSUME RunOK, RowsOK, NEW w \in Workers, Work(w), run'[w].pc = "finishing"
  PROVE  SubmitAnswered(w)
<1>1. ~Misread(w) /\ ~Goto(w, "submitting")
  BY MisreadEffect, GotoEffect DEF Gets
<1>2. \A e \in ProviderErrors : ~SubmitThrows(w, e)
  BY ThrowsEffect, SMTT(30) DEF Gets
<1> QED
  BY <1>1, <1>2, FlightActions DEF InFlight

\* What a step may do to the mail: nothing, forget keys, or one provider call.
MailStep(w) ==
  \/ copies' = copies /\ stored' = stored
  \/ /\ run[w].pc = "submitting"
     /\ \E A \in SUBSET run[w].recips : ProviderTakes(run[w].batch, run[w].recips, A)

LEMMA WorkMail ==
  ASSUME NEW w \in Workers, Work(w)
  PROVE  MailStep(w)
<1>1. ASSUME NEW e \in ProviderErrors, SubmitThrows(w, e) PROVE MailStep(w)
  BY <1>1 DEF SubmitThrows, MailStep, At
<1>2. CASE SubmitAnswered(w)
  BY <1>2 DEF SubmitAnswered, MailStep, At
<1> QED
  BY <1>1, <1>2 DEF Work, MailStep, Claim, Hold, SlotDenied, SlotTaken, ClaimReservedBatch, MarkSending,
     SuppressPending, Reserve, CheckSuppression, Block, PrepareAttempt, Finish, FinishThrows, StatsThrow,
     CommitResult, FailBatch, CheckViolated, ScheduleRetry, ScheduleNext, CountRemaining, CompleteCampaign,
     mail

LEMMA EnvironmentMail ==
  ASSUME Environment
  PROVE  /\ copies' = copies
         /\ stored' = stored \/ \E b \in Batches : stored' = [stored EXCEPT ![b] = None]
  BY DEF Environment, Pause, Resume, Cancel, GuardTrips, Suppress, CloseGate, OpenGate, SlotFrees,
     KeyExpires, Abort, LoseLease, mail

\* A message that is out stays out.
LEMMA CopiesGrow ==
  ASSUME OtherOK, Next, NEW r \in Recipients
  PROVE  copies[r] \in Nat /\ copies'[r] \in Nat /\ copies'[r] >= copies[r]
<1>1. copies[r] \in Nat
  BY DEF OtherOK
<1>2. CASE Environment
  BY <1>1, <1>2, EnvironmentMail
<1>3. ASSUME NEW w \in Workers, Work(w) PROVE copies'[r] \in Nat /\ copies'[r] >= copies[r]
  BY <1>1, <1>3, WorkMail DEF MailStep, ProviderTakes
<1> QED
  BY <1>1, <1>2, <1>3 DEF Next

LEMMA StepAnswersAreSent ==
  TypeInv /\ AnswersAreSent /\ [Next]_vars => AnswersAreSent'
<1> SUFFICES ASSUME TypeInv, AnswersAreSent, [Next]_vars PROVE AnswersAreSent'
  OBVIOUS
<1>0. RunOK /\ RowsOK /\ OtherOK
  BY DEF TypeInv
<1>1. CASE UNCHANGED vars
  BY <1>1 DEF vars, mail, AnswersAreSent
<1>2. CASE Next
  <2>1. \A r \in Recipients : copies[r] > 0 => copies'[r] > 0
    BY <1>0, <1>2, CopiesGrow
  <2>2. \A b \in Batches : stored[b] # None => stored[b] \subseteq Recipients
    BY <1>0 DEF OtherOK
  <2>3. \A w \in Workers : run[w].recips \subseteq Recipients /\ run[w].hit \subseteq Recipients
    BY <1>0 DEF RunOK, RunType
  <2>4. ASSUME NEW w \in Workers, run[w].pc = "submitting", NEW A \in SUBSET run[w].recips,
               ProviderTakes(run[w].batch, run[w].recips, A)
        PROVE  /\ \A r \in A : copies'[r] > 0
               /\ \A b \in Batches : stored'[b] # None => \A r \in stored'[b] : copies'[r] > 0
    <3>1. run[w].batch \in Batches
      BY <1>0, <2>4 DEF RunOK, LocalState, LocalOK, WithBatch
    <3>2. CASE stored[run[w].batch] # None
      BY <2>1, <2>2, <2>4, <3>1, <3>2 DEF ProviderTakes, AnswersAreSent
    <3>3. CASE stored[run[w].batch] = None
      <4>1. A \subseteq Recipients /\ \A r \in A : copies'[r] = copies[r] + 1 /\ copies[r] \in Nat
        BY <1>0, <2>3, <2>4, <3>3 DEF ProviderTakes, OtherOK
      <4>2. \A b \in Batches : stored'[b] = IF b = run[w].batch THEN A ELSE stored[b]
        BY <1>0, <2>4, <3>3 DEF ProviderTakes, OtherOK
      <4>3. \A r \in A : copies'[r] > 0
        BY <4>1
      <4> QED
        BY <2>1, <2>2, <4>2, <4>3 DEF AnswersAreSent
    <3> QED
      BY <3>2, <3>3
  <2>5. \A b \in Batches : stored'[b] # None => \A r \in stored'[b] : copies'[r] > 0
    <3>1. CASE Environment
      BY <1>0, <3>1, EnvironmentMail DEF OtherOK, AnswersAreSent
    <3>2. ASSUME NEW w \in Workers, Work(w)
          PROVE  \A b \in Batches : stored'[b] # None => \A r \in stored'[b] : copies'[r] > 0
      BY <2>1, <2>2, <2>4, <3>2, WorkMail DEF MailStep, AnswersAreSent
    <3> QED
      BY <1>2, <3>1, <3>2 DEF Next
  <2>6. ASSUME NEW v \in Workers, run'[v].pc = "finishing" PROVE \A r \in run'[v].hit : copies'[r] > 0
    <3>1. ASSUME run[v].pc = "finishing", run'[v].hit = run[v].hit PROVE \A r \in run'[v].hit : copies'[r] > 0
      BY <2>1, <2>3, <3>1 DEF AnswersAreSent
    <3>2. CASE Environment
      <4>1. run'[v] # Idle
        BY <2>6 DEF Idle
      <4> QED
        BY <1>0, <2>6, <3>1, <3>2, <4>1, EnvironmentKeeps DEF LeaseLost, Gets
    <3>3. ASSUME NEW w \in Workers, Work(w), w # v PROVE \A r \in run'[v].hit : copies'[r] > 0
      BY <1>0, <2>6, <3>1, <3>3, OthersKeep
    <3>4. CASE Work(v)
      <4>1. SubmitAnswered(v)
        BY <1>0, <2>6, <3>4, EntersFinishing
      <4>2. PICK A \in SUBSET run[v].recips : ProviderTakes(run[v].batch, run[v].recips, A) /\ run'[v].hit = A
        BY <1>0, <4>1, AnsweredEffect DEF Gets
      <4>3. run[v].pc = "submitting"
        BY <4>1 DEF SubmitAnswered, At
      <4> QED
        BY <2>4, <4>2, <4>3
    <3> QED
      BY <1>2, <3>2, <3>3, <3>4 DEF Next
  <2> QED
    BY <2>5, <2>6 DEF AnswersAreSent
<1> QED
  BY <1>1, <1>2

\* A recipient becomes ACCEPTED only by the result of a provider call.
LEMMA BecomesAccepted ==
  ASSUME RunOK, RowsOK, Next, NEW r \in Recipients, sendState'[r] = "ACCEPTED", sendState[r] # "ACCEPTED"
  PROVE  \E w \in Workers : run[w].pc = "finishing" /\ r \in run[w].hit
<1>1. ~Environment
  BY DEF Environment, Pause, Resume, Cancel, GuardTrips, Suppress, CloseGate, OpenGate, SlotFrees,
     KeyExpires, Abort, LoseLease, db, SetState
<1>2. PICK w \in Workers : Work(w)
  BY <1>1 DEF Next
<1>3. ~ClaimReservedBatch(w)
  BY ClaimReservedEffect DEF SetState
<1>4. ~Reserve(w)
  <2>1. CASE Allowed = 0 \/ Candidates = {}
    BY <2>1 DEF Reserve
  <2>2. CASE ~(Allowed = 0 \/ Candidates = {})
    BY <2>2, ReserveEffect DEF SetState
  <2> QED
    BY <2>1, <2>2
<1>5. ~SuppressPending(w) /\ ~Block(w) /\ ~FailBatch(w)
  BY DEF SuppressPending, Block, FailBatch, SetState
<1>6. CommitResult(w)
  BY <1>2, <1>3, <1>4, <1>5 DEF Work, Claim, Hold, SlotDenied, SlotTaken, MarkSending, CheckSuppression,
     PrepareAttempt, SubmitAnswered, SubmitThrows, Finish, FinishThrows, StatsThrow, CheckViolated,
     ScheduleRetry, ScheduleNext, CountRemaining, CompleteCampaign, db
<1> QED
  BY <1>6 DEF CommitResult, AcceptedItems, At

LEMMA StepNoPhantomAcceptance ==
  TypeInv /\ AnswersAreSent /\ NoPhantomAcceptance /\ [Next]_vars => NoPhantomAcceptance'
<1> SUFFICES ASSUME TypeInv, AnswersAreSent, NoPhantomAcceptance, [Next]_vars, NEW r \in Recipients,
                    sendState'[r] = "ACCEPTED"
             PROVE  copies'[r] > 0
  BY DEF NoPhantomAcceptance
<1>1. CASE UNCHANGED vars
  BY <1>1 DEF vars, db, mail, NoPhantomAcceptance
<1>2. CASE Next
  <2>1. copies[r] > 0
    BY <1>2, BecomesAccepted DEF TypeInv, AnswersAreSent, NoPhantomAcceptance
  <2> QED
    BY <1>2, <2>1, CopiesGrow DEF TypeInv
<1> QED
  BY <1>1, <1>2

\* Who is ACCEPTED has been handed to the provider, also after replays, lost
\* leases and errors between the call and the commit.
THEOREM AcceptanceIsReal == Spec => []NoPhantomAcceptance
<1>1. Init => AnswersAreSent /\ NoPhantomAcceptance
  BY DEF Init, AnswersAreSent, NoPhantomAcceptance, Idle
<1> QED
  BY <1>1, StepAnswersAreSent, StepNoPhantomAcceptance, TypeInvariant, PTL DEF Spec

-----------------------------------------------------------------------------
(* The wake-up. *)

\* A worker goes on with the campaign as long as its job names no batch; one
\* that counts after a batch of its own has left its wake-up behind already.
Continues(x) ==
  /\ x.pc # "idle" /\ PayloadBatch(x.job) = None
  /\ ~(x.pc = "counting" /\ x.batch # None)
\* Without a lost lease every worker still owns its job row.
OwnsItsJob == \A w \in Workers : run[w].pc # "idle" => run[w].owned = TRUE
\* Up to the reservation a worker has no batch, and only a campaign-level
\* job reserves one; a job that names a batch works on no other.
Early == {"loaded", "retrying", "marking", "screening", "reserving"}
CampaignLevel == {"marking", "screening", "reserving"}
Working == {"checking", "blocking", "preparing", "submitting", "finishing", "failing"}
Holding == Working \cup {"rescheduling"}
JobOK(x) ==
  /\ x.pc \in Early => x.batch = None
  /\ x.pc \in CampaignLevel => PayloadBatch(x.job) = None
  /\ x.pc \in Holding => PayloadBatch(x.job) \in {None, x.batch}
JobsOK == \A w \in Workers : JobOK(run[w])

Waiting == \E t \in wake : PayloadBatch(t) = None
CarriedOn ==
  campaign \in {"QUEUED", "SENDING"} => Waiting \/ \E w \in Workers : Continues(run[w])

\* The locals of a worker whose job goes on, or ends with the job kept.
JobKept(w) ==
  \/ run'[w] = Idle
  \/ run[w].pc # "idle" /\ run'[w].job = run[w].job /\ run'[w].owned = run[w].owned

LEMMA WorkKeepsJob ==
  ASSUME RunOK, RowsOK, NEW w \in Workers, Work(w), ~\E t \in Wakes : Claim(w, t), JobOK(run[w])
  PROVE  JobKept(w) /\ JobOK(run'[w])
<1> USE DEF At
<1>a. run'[w] = Idle => JobKept(w) /\ JobOK(run'[w])
  BY DEF Idle, JobKept, JobOK, Early, CampaignLevel, Holding, Working
<1>b. ASSUME run[w].pc # "idle", run'[w].job = run[w].job, run'[w].owned = run[w].owned, run'[w].pc \notin Early,
             PayloadBatch(run[w].job) \in {None, run'[w].batch}
      PROVE  JobKept(w) /\ JobOK(run'[w])
  BY <1>b DEF JobKept, JobOK, Early, CampaignLevel
<1>c. Finished(w) => JobKept(w) /\ JobOK(run'[w])
  BY <1>a, FinishedEffect
<1>d. ASSUME run[w].pc \in Holding, Return(w) \/ Misread(w) PROVE JobKept(w) /\ JobOK(run'[w])
  <2>1. run[w].pc # "idle" /\ PayloadBatch(run[w].job) \in {None, run[w].batch}
    BY <1>d DEF JobOK, Holding, Working
  <2> QED
    BY <1>a, <1>b, <1>d, <2>1, ReturnEffect, MisreadEffect DEF Gets, Early
<1>e. ASSUME NEW step \in Steps, run[w].pc # "idle", Goto(w, step), step \in Early => run[w].pc \in Early,
             step \in CampaignLevel => PayloadBatch(run[w].job) = None,
             step \in Holding => run[w].pc \in Holding
      PROVE  JobKept(w) /\ JobOK(run'[w])
  BY <1>e, GotoEffect DEF Gets, JobKept, JobOK
<1>1. CASE Hold(w) \/ SlotDenied(w)
  BY <1>1, <1>c DEF Hold, SlotDenied
<1>2. CASE SlotTaken(w)
  BY <1>2, <1>e DEF SlotTaken, Steps, Early, CampaignLevel, Holding, Working
<1>3. CASE MarkSending(w) \/ SuppressPending(w)
  BY <1>3, <1>e DEF MarkSending, SuppressPending, Steps, Early, CampaignLevel, Holding, Working, JobOK
<1>4. CASE ClaimReservedBatch(w)
  <2>1. run[w].pc # "idle"
    BY <1>4 DEF ClaimReservedBatch
  <2> QED
    BY <1>4, <1>a, <1>b, <2>1, ClaimReservedEffect DEF Gets, Early
<1>5. CASE Reserve(w)
  <2>1. run[w].pc # "idle" /\ PayloadBatch(run[w].job) = None
    BY <1>5 DEF Reserve, JobOK, CampaignLevel
  <2>2. CASE Allowed = 0 \/ Candidates = {}
    BY <1>5, <1>e, <2>1, <2>2 DEF Reserve, Steps, Early, CampaignLevel, Holding, Working
  <2>3. CASE ~(Allowed = 0 \/ Candidates = {})
    BY <1>5, <1>b, <2>1, <2>3, ReserveEffect DEF Gets, Early
  <2> QED
    BY <2>2, <2>3
<1>6. CASE CheckSuppression(w) \/ Block(w)
  <2>1. run[w].pc # "idle" /\ run[w].pc \in Holding /\ PayloadBatch(run[w].job) \in {None, run[w].batch}
    BY <1>6 DEF CheckSuppression, Block, JobOK, Holding, Working
  <2> QED
    BY <1>6, <1>b, <1>d, <2>1, CheckEffect, BlockEffect DEF Gets, Early
<1>7. CASE PrepareAttempt(w)
  BY <1>7, <1>d, <1>e DEF PrepareAttempt, Steps, Early, CampaignLevel, Holding, Working
<1>8. CASE SubmitAnswered(w) \/ \E e \in ProviderErrors : SubmitThrows(w, e)
  <2>1. run[w].pc # "idle" /\ PayloadBatch(run[w].job) \in {None, run[w].batch}
    BY <1>8 DEF SubmitAnswered, SubmitThrows, JobOK, Holding, Working
  <2> QED
    BY <1>8, <1>b, <2>1, AnsweredEffect, ThrowsEffect DEF Gets, Early
<1>9. CASE Finish(w) \/ FinishThrows(w) \/ StatsThrow(w)
  BY <1>9, <1>d DEF Finish, FinishThrows, StatsThrow, CommitResult, Holding, Working
<1>10. CASE FailBatch(w) \/ CheckViolated(w) \/ ScheduleRetry(w)
  BY <1>10, <1>c, <1>d, <1>e DEF FailBatch, CheckViolated, ScheduleRetry, Steps, Early, CampaignLevel, Holding,
     Working
<1>11. CASE ScheduleNext(w) \/ CountRemaining(w) \/ CompleteCampaign(w)
  BY <1>11, <1>c, <1>e DEF ScheduleNext, CountRemaining, CompleteCampaign, Steps, Early, CampaignLevel, Holding,
     Working
<1> QED
  BY <1>1, <1>2, <1>3, <1>4, <1>5, <1>6, <1>7, <1>8, <1>9, <1>10, <1>11 DEF Work

\* A job starts owned, at its first step and without a batch.
LEMMA ClaimStarts ==
  ASSUME RunOK, NEW w \in Workers, NEW t \in Wakes, Claim(w, t)
  PROVE  \/ run' = run
         \/ Gets(run'[w], "loaded", t, None, {}, {}, None, suppressed, TRUE)
<1>1. CASE run' = run
  BY <1>1
<1>2. CASE run' = [run EXCEPT ![w] = [Idle EXCEPT !.pc = "loaded", !.job = t,
                                          !.barred = suppressed, !.owned = TRUE]]
  BY <1>2 DEF RunOK, Idle, Gets
<1> QED
  BY <1>1, <1>2 DEF Claim

LEMMA StepJobsOK == TypeInv /\ JobsOK /\ [Next]_vars => JobsOK'
<1> SUFFICES ASSUME TypeInv, JobsOK, [Next]_vars, NEW v \in Workers
             PROVE  JobOK(run'[v])
  BY DEF JobsOK, JobOK
<1> USE DEF Early, CampaignLevel, Holding, Working
<1>0. RunOK /\ RowsOK /\ JobOK(run[v])
  BY DEF TypeInv, JobsOK
<1>1. CASE run'[v] = run[v]
  BY <1>0, <1>1
<1>2. CASE UNCHANGED vars
  BY <1>1, <1>2 DEF vars
<1>3. CASE Environment
  <2>1. CASE run'[v] = Idle
    BY <2>1 DEF Idle, JobOK
  <2>2. CASE LeaseLost(run'[v], run[v])
    BY <1>0, <2>2 DEF LeaseLost, Gets, JobOK
  <2> QED
    BY <1>0, <1>1, <1>3, <2>1, <2>2, EnvironmentKeeps
<1>4. ASSUME NEW w \in Workers, Work(w), w # v PROVE run'[v] = run[v]
  BY <1>0, <1>4, OthersKeep
<1>5. ASSUME NEW t \in Wakes, Claim(v, t) PROVE JobOK(run'[v])
  BY <1>0, <1>1, <1>5, ClaimStarts DEF Gets, JobOK
<1>6. CASE Work(v) /\ ~\E t \in Wakes : Claim(v, t)
  BY <1>0, <1>6, WorkKeepsJob
<1> QED
  BY <1>1, <1>2, <1>3, <1>4, <1>5, <1>6 DEF Next

LEMMA JobsInvariant == Spec => []JobsOK
<1>1. Init => JobsOK
  BY DEF Init, Idle, JobsOK, JobOK, Early, CampaignLevel, Holding, Working
<1> QED
  BY <1>1, StepJobsOK, TypeInvariant, PTL DEF Spec

LEMMA StepOwnership ==
  ASSUME "lease loss" \notin Events
  PROVE  TypeInv /\ OwnsItsJob /\ JobsOK /\ [Next]_vars => OwnsItsJob'
<1> SUFFICES ASSUME TypeInv, OwnsItsJob, JobsOK, [Next]_vars, NEW v \in Workers, run'[v].pc # "idle"
             PROVE  run'[v].owned = TRUE
  BY DEF OwnsItsJob
<1>0. RunOK /\ RowsOK /\ (run[v].pc # "idle" => run[v].owned = TRUE) /\ JobOK(run[v])
  BY DEF TypeInv, OwnsItsJob, JobsOK
<1>1. CASE run'[v] = run[v]
  BY <1>0, <1>1
<1>2. run'[v] # Idle
  <2>1. Idle.pc = "idle"
    BY DEF Idle
  <2> QED
    BY <2>1
<1>3. CASE UNCHANGED vars
  BY <1>1, <1>3 DEF vars
<1>4. CASE Environment
  BY <1>0, <1>1, <1>2, <1>4, EnvironmentKeeps
<1>5. ASSUME NEW w \in Workers, Work(w), w # v PROVE run'[v] = run[v]
  BY <1>0, <1>5, OthersKeep
<1>6. ASSUME NEW t \in Wakes, Claim(v, t) PROVE run'[v].owned = TRUE
  <2>1. run' = run \/ run'[v].owned = TRUE
    BY <1>0, <1>6, ClaimStarts DEF Gets
  <2> QED
    BY <1>1, <2>1
<1>7. CASE Work(v) /\ ~\E t \in Wakes : Claim(v, t)
  <2>1. JobKept(v)
    BY <1>0, <1>7, WorkKeepsJob
  <2> QED
    BY <1>0, <1>2, <2>1 DEF JobKept
<1> QED
  BY <1>1, <1>3, <1>4, <1>5, <1>6, <1>7 DEF Next

\* As long as no lease is lost, the worker that executes a job has it.
LEMMA OwnershipInvariant ==
  ASSUME "lease loss" \notin Events
  PROVE  Spec => []OwnsItsJob
<1>1. Init => OwnsItsJob
  <2> SUFFICES ASSUME Init PROVE OwnsItsJob
    OBVIOUS
  <2>1. \A w \in Workers : run[w].pc = "idle"
    BY DEF Init, Idle
  <2> QED
    BY <2>1 DEF OwnsItsJob
<1> QED
  BY <1>1, StepOwnership, TypeInvariant, JobsInvariant, PTL DEF Spec

\* A wake-up that names no batch, once left, is there after the step.
LEMMA Leaves ==
  ASSUME RunOK, RowsOK, NEW t \in Wakes, PayloadBatch(t) = None, wake' = wake \cup {t}
  PROVE  Waiting'
  BY DEF Waiting

LEMMA WaitingStays ==
  ASSUME Waiting, Environment \/ \E w \in Workers : Work(w) /\ ~\E t \in Wakes : Claim(w, t)
  PROVE  Waiting'
<1>1. \A T : wake' = wake \cup T => Waiting'
  BY DEF Waiting
<1>2. wake' = wake => Waiting'
  BY DEF Waiting
<1>3. CASE Environment
  BY <1>1, <1>2, <1>3, ZenonT(60) DEF Environment, Pause, Resume, Cancel, GuardTrips, Suppress, CloseGate, OpenGate,
     SlotFrees, KeyExpires, Abort, LoseLease, db
<1>4. ASSUME NEW w \in Workers, Work(w), ~\E t \in Wakes : Claim(w, t) PROVE Waiting'
  BY <1>1, <1>2, <1>4 DEF Work, Hold, SlotDenied, SlotTaken, ClaimReservedBatch, MarkSending, SuppressPending,
     Reserve, CheckSuppression, Block, PrepareAttempt, SubmitAnswered, SubmitThrows, Finish, FinishThrows,
     StatsThrow, CommitResult, FailBatch, CheckViolated, ScheduleRetry, ScheduleNext, CountRemaining,
     CompleteCampaign, db
<1> QED
  BY <1>3, <1>4

\* A job that went on with the campaign does so after its worker's step, or
\* its worker left a wake-up or completed the campaign.
LEMMA WorkCarriesOn ==
  ASSUME TypeInv, OwnsItsJob, JobsOK, NEW w \in Workers, Work(w), Continues(run[w])
  PROVE  Continues(run[w])' \/ Waiting' \/ campaign' = "COMPLETED"
<1> USE DEF At
<1>0. RunOK /\ RowsOK /\ run[w].pc # "idle" /\ PayloadBatch(run[w].job) = None /\ run[w].job \in Wakes
  BY DEF TypeInv, RunOK, LocalState, LocalOK, Continues
<1>a. ASSUME run'[w].pc \notin {"idle", "counting"}, run'[w].job = run[w].job PROVE Continues(run[w])'
  BY <1>0, <1>a DEF Continues
<1>b. ASSUME NEW step, Goto(w, step), step \notin {"idle", "counting"} PROVE Continues(run[w])'
  BY <1>0, <1>a, <1>b, GotoEffect DEF Gets
<1>d. Return(w) \/ Misread(w) => Continues(run[w])'
  BY <1>0, <1>a, ReturnEffect, MisreadEffect DEF Gets
<1>1. CASE (\E t \in Wakes : Claim(w, t)) \/ ClaimReservedBatch(w)
  <2>1. ~ClaimReservedBatch(w)
    BY <1>0, WakeKeys DEF ClaimReservedBatch, TypeInv, RunOK, LocalState, LocalOK
  <2> QED
    BY <1>0, <1>1, <2>1 DEF Claim
<1>2. CASE Hold(w) \/ SlotDenied(w)
  BY <1>0, <1>2, WakeKeys, Leaves DEF Hold, SlotDenied
<1>3. CASE SlotTaken(w) \/ MarkSending(w) \/ SuppressPending(w)
  BY <1>0, <1>3, <1>b DEF SlotTaken, MarkSending, SuppressPending
<1>4. CASE Reserve(w)
  <2>1. CASE Allowed = 0 \/ Candidates = {}
    <3>1. run[w].batch = None
      BY <1>4 DEF Reserve, JobsOK, JobOK, Early
    <3>2. Goto(w, "counting")
      BY <1>4, <2>1 DEF Reserve
    <3>3. run'[w].pc = "counting" /\ run'[w].batch = None /\ run'[w].job = run[w].job
      BY <1>0, <3>1, <3>2, GotoEffect DEF Gets
    <3> QED
      BY <1>0, <3>3 DEF Continues
  <2>2. CASE ~(Allowed = 0 \/ Candidates = {})
    BY <1>0, <1>4, <1>a, <2>2, ReserveEffect DEF Gets
  <2> QED
    BY <2>1, <2>2
<1>5. CASE CheckSuppression(w) \/ Block(w)
  BY <1>0, <1>5, <1>a, <1>d, CheckEffect, BlockEffect DEF Gets
<1>6. CASE PrepareAttempt(w)
  BY <1>6, <1>b, <1>d DEF PrepareAttempt
<1>7. CASE SubmitAnswered(w) \/ \E e \in ProviderErrors : SubmitThrows(w, e)
  BY <1>0, <1>7, <1>a, AnsweredEffect, ThrowsEffect DEF Gets
<1>8. CASE Finish(w) \/ FinishThrows(w) \/ StatsThrow(w)
  BY <1>8, <1>d DEF Finish, FinishThrows, StatsThrow
<1>9. CASE FailBatch(w) \/ ScheduleRetry(w)
  BY <1>9, <1>b, <1>d DEF FailBatch, ScheduleRetry
<1>10. CASE CheckViolated(w)
  BY <1>0, <1>10, Leaves DEF CheckViolated, OwnsItsJob
<1>11. CASE ScheduleNext(w)
  <2>1. run[w].batch \in Batches
    BY <1>11 DEF ScheduleNext, TypeInv, RunOK, LocalState, LocalOK, WithBatch
  <2> QED
    BY <1>0, <1>11, <2>1, WakeKeys, Leaves DEF ScheduleNext, NextJob
<1>12. CASE CountRemaining(w)
  <2>1. run[w].batch = None
    BY <1>12 DEF CountRemaining, Continues
  <2> QED
    BY <1>0, <1>12, <1>b, <2>1, WakeKeys, Leaves DEF CountRemaining
<1>13. CASE CompleteCampaign(w)
  BY <1>13 DEF CompleteCampaign
<1> QED
  BY <1>1, <1>2, <1>3, <1>4, <1>5, <1>6, <1>7, <1>8, <1>9, <1>10, <1>11, <1>12, <1>13 DEF Work

\* Nothing but resume and the dispatch itself brings a campaign back among
\* the running ones.
LEMMA EnvironmentCarriesOn ==
  ASSUME TypeInv, OwnsItsJob, CarriedOn, Environment, "lease loss" \notin Events,
         campaign' \in {"QUEUED", "SENDING"}
  PROVE  Waiting' \/ \E w \in Workers : Continues(run'[w])
<1>0. RunOK /\ RowsOK
  BY DEF TypeInv
<1>1. CASE Resume
  BY <1>0, <1>1, WakeKeys, Leaves DEF Resume
<1>2. CASE ~Resume
  <2>1. campaign \in {"QUEUED", "SENDING"}
    BY <1>2 DEF Environment, Pause, Cancel, GuardTrips, Suppress, CloseGate, OpenGate, SlotFrees, KeyExpires,
       Abort, LoseLease, db
  <2>2. CASE Waiting
    BY <2>2, WaitingStays
  <2>3. ASSUME NEW v \in Workers, Continues(run[v]) PROVE Waiting' \/ Continues(run'[v])
    <3>1. CASE run'[v] = run[v]
      BY <2>3, <3>1
    <3>2. ASSUME NEW w \in Workers, Abort(w) PROVE Waiting' \/ Continues(run'[v])
      <4>1. CASE v # w
        BY <1>0, <3>1, <3>2, <4>1 DEF Abort, Finished, RunOK
      <4>2. CASE v = w
        <5>1. run[v].pc # "idle" /\ PayloadBatch(run[v].job) = None /\ run[v].owned = TRUE /\ run[v].job \in Wakes
          BY <1>0, <2>3 DEF Continues, OwnsItsJob, RunOK, LocalState, LocalOK
        <5> QED
          BY <1>0, <3>2, <4>2, <5>1, Leaves DEF Abort
      <4> QED
        BY <4>1, <4>2
    <3>3. CASE ~\E w \in Workers : Abort(w)
      <4>1. run' = run
        BY <3>3 DEF Environment, Pause, Resume, Cancel, GuardTrips, Suppress, CloseGate, OpenGate, SlotFrees,
           KeyExpires, LoseLease, Event
      <4> QED
        BY <3>1, <4>1
    <3> QED
      BY <3>2, <3>3
  <2> QED
    BY <2>1, <2>2, <2>3 DEF CarriedOn
<1> QED
  BY <1>1, <1>2

LEMMA StepCarriedOn ==
  ASSUME "lease loss" \notin Events
  PROVE  TypeInv /\ OwnsItsJob /\ JobsOK /\ CarriedOn /\ [Next]_vars => CarriedOn'
<1> SUFFICES ASSUME TypeInv, OwnsItsJob, JobsOK, CarriedOn, [Next]_vars, campaign' \in {"QUEUED", "SENDING"}
             PROVE  Waiting' \/ \E w \in Workers : Continues(run'[w])
  BY DEF CarriedOn, Continues
<1>0. RunOK /\ RowsOK
  BY DEF TypeInv
<1>1. CASE UNCHANGED vars
  BY <1>1 DEF vars, db, CarriedOn, Waiting
<1>2. CASE Environment
  BY <1>2, EnvironmentCarriesOn
<1>3. ASSUME NEW u \in Workers, Work(u) PROVE Waiting' \/ \E w \in Workers : Continues(run'[w])
  <2>1. CASE campaign \notin {"QUEUED", "SENDING"}
    <3>1. MarkSending(u)
      BY <1>3, <2>1 DEF Work, Claim, Hold, SlotDenied, SlotTaken, ClaimReservedBatch, SuppressPending,
         Reserve, CheckSuppression, Block, PrepareAttempt, SubmitAnswered, SubmitThrows, Finish, FinishThrows,
         StatsThrow, CommitResult, FailBatch, CheckViolated, ScheduleRetry, ScheduleNext, CountRemaining,
         CompleteCampaign, db
    <3>2. Goto(u, "screening") /\ PayloadBatch(run[u].job) = None
      BY <3>1 DEF MarkSending, JobsOK, JobOK, CampaignLevel, At
    <3>3. run'[u].pc = "screening" /\ run'[u].job = run[u].job
      BY <1>0, <3>2, GotoEffect DEF Gets
    <3> QED
      BY <3>2, <3>3, ZenonT(60) DEF Continues
  <2>2. ASSUME campaign \in {"QUEUED", "SENDING"}, NEW t \in Wakes, Claim(u, t)
        PROVE  Waiting' \/ \E w \in Workers : Continues(run'[w])
    <3>1. CASE PayloadBatch(t) = None
      <4>1. run' = [run EXCEPT ![u] = [Idle EXCEPT !.pc = "loaded", !.job = t,
                                           !.barred = suppressed, !.owned = TRUE]]
        BY <2>2 DEF Claim, Stopped
      <4>2. run'[u].pc = "loaded" /\ run'[u].job = t
        BY <1>0, <4>1 DEF RunOK, Idle
      <4> QED
        BY <3>1, <4>2 DEF Continues
    <3>2. CASE PayloadBatch(t) # None
      <4>1. Waiting => Waiting'
        BY <2>2, <3>2 DEF Claim, Waiting
      <4>2. ASSUME NEW w \in Workers, Continues(run[w]) PROVE run'[w] = run[w]
        BY <1>0, <1>3, <2>2, <4>2, OthersKeep DEF Continues, Claim, At
      <4> QED
        BY <2>2, <4>1, <4>2 DEF CarriedOn
    <3> QED
      BY <3>1, <3>2
  <2>3. CASE campaign \in {"QUEUED", "SENDING"} /\ ~\E t \in Wakes : Claim(u, t)
    <3>1. Waiting => Waiting'
      BY <1>3, <2>3, WaitingStays
    <3>2. ASSUME NEW w \in Workers, Continues(run[w]), w # u PROVE run'[w] = run[w]
      BY <1>0, <1>3, <3>2, OthersKeep
    <3>3. ASSUME Continues(run[u]) PROVE Waiting' \/ Continues(run'[u])
      <4>1. Continues(run[u])' \/ Waiting' \/ campaign' = "COMPLETED"
        BY <1>3, <3>3, WorkCarriesOn
      <4> QED
        BY <4>1 DEF Continues
    <3> QED
      BY <2>3, <3>1, <3>2, <3>3 DEF CarriedOn
  <2> QED
    BY <1>3, <2>1, <2>2, <2>3
<1> QED
  BY <1>1, <1>2, <1>3 DEF Next

\* A running campaign with recipients left always has a job to go on with,
\* waiting or running, as long as no lease is lost.  (With lost leases it is
\* not so: a worker without its lease may mark a paused campaign SENDING and
\* die, after its job was taken over and dropped.)
THEOREM WakeupKept ==
  ASSUME "lease loss" \notin Events
  PROVE  Spec => []WakeupNotLost
<1>1. Init => CarriedOn
  BY WakeKeys DEF Init, Waiting, CarriedOn
<1>2. CarriedOn => WakeupNotLost
  BY DEF CarriedOn, WakeupNotLost, Waiting, Continues, At
<1> QED
  BY <1>1, <1>2, StepCarriedOn, OwnershipInvariant, JobsInvariant, TypeInvariant, PTL DEF Spec

=============================================================================
