----------------------------- MODULE MCDelivery -----------------------------
(* Delivery on small instances: recipients and workers are interchangeable. *)
EXTENDS Delivery, TLC

Symmetric == Permutations(Recipients) \cup Permutations(Workers)

Error(httpStatus, errorCode) == [status |-> httpStatus, code |-> errorCode, timedOut |-> FALSE]

\* The provider refused: over its rate limit, or the request is invalid.
RefusedErrors == {Error(429, "rate_limit_exceeded"), Error(422, "validation_error")}
\* The connection broke: the SDK reports an error without a status.
LostAnswer == {Error(NoStatus, "application_error")}
\* What the EmailProvider interface foresees and FakeEmailProvider throws.
DeclaredTimeout == {[status |-> NoStatus, code |-> "", timedOut |-> TRUE]}
Losses == LostAnswer \cup DeclaredTimeout
=============================================================================
