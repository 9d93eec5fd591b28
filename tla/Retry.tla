------------------------------- MODULE Retry -------------------------------
(***************************************************************************)
(* The retry arithmetic of the service: modules/delivery/retry.ts for      *)
(* provider calls, failClaimedJob in worker/jobRunner.ts for jobs.         *)
(* Durations are in seconds; `retryAfterSeconds` is never passed.          *)
(***************************************************************************)
LOCAL INSTANCE Integers

\* min(1 h, 30 s * 2^max(0, attempt - 1)): the delay before a failed job's
\* next run, and the delay of a batch retry before jitter is applied.
BackoffSeconds(attempt) ==
  LET steps == IF attempt > 1 THEN attempt - 1 ELSE 0
      delay == 30 * 2 ^ steps
  IN  IF delay < 3600 THEN delay ELSE 3600

\* retryDelayMs spreads the delay over 80% .. 120%.
RetryDelays(attempt) ==
  (BackoffSeconds(attempt) * 8) \div 10 .. (BackoffSeconds(attempt) * 12) \div 10

\* How a provider call failed, as far as the error object tells.
NoStatus == 0
TransientCodes == {"rate_limit_exceeded", "application_error", "internal_server_error"}

classifyProviderFailure(httpStatus, code, timedOutAfterSubmit) ==
  IF timedOutAfterSubmit THEN "uncertain"
  ELSE IF httpStatus \in {NoStatus, 408, 429} \/ httpStatus >= 500 \/ code \in TransientCodes
       THEN "temporary" ELSE "permanent"

CanRetryOnceMore(attempt, maxAttempts, windowOpen) == attempt <= maxAttempts /\ windowOpen
canRetry(attempt, maxAttempts, windowOpen) == attempt < maxAttempts /\ windowOpen
=============================================================================
