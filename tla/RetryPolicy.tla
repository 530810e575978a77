---------------------------- MODULE RetryPolicy ----------------------------
(***************************************************************************)
(* The classification rules of the SDK, as pure operators: when the engine *)
(* repeats a request (retry.py), which exception a response becomes        *)
(* (engine.py), which request is replayed after a 401 (authenticated.py)   *)
(* and which audit outcome an exception becomes (services/base.py and      *)
(* services/payment_gateway/service.py).  Back-off delays are left out:    *)
(* no property here is about how long a retry waits.                       *)
(***************************************************************************)
EXTENDS Naturals

CONSTANTS MaxAttempts,   \* RetryConfig.max_attempts
          NoKey          \* RequestOptions.idempotency_key is None

\* RetryConfig bounds the field to 1..10; nothing below needs the upper bound.
ASSUME MaxAttemptsAssumption == MaxAttempts \in Nat \ {0}

OperationSafety ==
  {"read_only", "idempotent", "idempotency_protected", "unsafe"}

TransientStatusCodes == {408, 425, 429, 500, 502, 503, 504}

ErrorTypes ==
  {"Authentication", "Authorization", "Validation", "RateLimit", "Server",
   "Business", "Response", "Timeout", "Network"}

Success(status) == status \in 200..299

\* Mutation: the attempt limit is off by one.
RetriesTransport_OffByOne(opts, attempt) ==
  /\ attempt <= MaxAttempts
  /\ opts.safety # "unsafe"
  /\ opts.safety = "idempotency_protected" => opts.key # NoKey

\* Mutation: the category is not looked at after a transport failure.
RetriesTransport_AnySafety(opts, attempt) == attempt < MaxAttempts

\* RetryPolicy.decide for an attempt that ended in a transport failure.
RetriesTransport(opts, attempt) ==
  /\ attempt < MaxAttempts
  /\ opts.safety # "unsafe"
  /\ opts.safety = "idempotency_protected" => opts.key # NoKey

\* Mutation: a transient status is retried whatever the category.
RetriesStatus_AnySafety(opts, attempt, status) ==
  attempt < MaxAttempts /\ status \in TransientStatusCodes

\* RetryPolicy.decide for an attempt that ended in a non-2xx response.
RetriesStatus(opts, attempt, status) ==
  /\ RetriesTransport(opts, attempt)
  /\ status \in TransientStatusCodes

\* Mutation: the flag is derived from the status alone.
Retryable_AnySafety(opts, status) == status \in TransientStatusCodes

\* ErrorContext.retryable, which _map_error computes on its own.
Retryable(opts, status) ==
  /\ status \in {408, 425, 429, 500, 502, 503, 504}
  /\ \/ opts.safety \in {"read_only", "idempotent"}
     \/ opts.safety = "idempotency_protected" /\ opts.key # NoKey

\* The exception class of a non-2xx status.
ErrorOf(status) ==
  CASE status = 401               -> "Authentication"
    [] status = 403               -> "Authorization"
    [] status \in {400, 422}      -> "Validation"
    [] status = 429               -> "RateLimit"
    [] status >= 500              -> "Server"
    [] status \in {402, 404, 409} -> "Business"
    [] OTHER                      -> "Response"

\* Whether a 401 may be answered by a second execution with another token.
CanReplay(opts) ==
  \/ opts.safety \in {"read_only", "idempotent"}
  \/ opts.safety = "idempotency_protected" /\ opts.key # NoKey

\* Mutation: a timeout counts as a failure.
AuditOutcome_TimeoutFails(error) ==
  IF error \in {"Network", "Server", "Response"} THEN "unknown" ELSE "failed"

\* The audit outcome of a JibitError, the same rule in both facades.
AuditOutcome(error) ==
  IF error \in {"Timeout", "Network", "Server", "Response"}
    THEN "unknown" ELSE "failed"

=============================================================================
