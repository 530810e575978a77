--------------------------- MODULE RequestEngine ---------------------------
(***************************************************************************)
(* RequestEngine.execute (engine.py), the network below HttpxTransport and *)
(* the provider that acts on what arrives.  Each call is a thread inside   *)
(* one engine execution.  A request that timed out is not gone: its copy   *)
(* may still travel and be acted on after the call has ended.              *)
(***************************************************************************)
EXTENDS RetryPolicy, Sequences

CONSTANTS Calls,      \* executions of an operation, one thread each
          Keys,       \* idempotency keys an application may pass
          Operations, \* safety and key combinations that are called
          Statuses,   \* status codes the provider may answer with
          NoReply     \* nothing received on the open connection

Options == [safety : OperationSafety, key : Keys \cup {NoKey}]

ASSUME OperationsAssumption == Operations \subseteq Options
ASSUME StatusAssumption == Statuses \subseteq Nat /\ NoReply \notin Statuses

VARIABLES
  options,    \* safety category and idempotency key of each call
  pc,         \* where the thread is inside execute
  attempt,    \* the loop counter of execute
  copies,     \* every request copy ever sent for the call, and its fate
  reply,      \* the response on the connection of the last copy
  result      \* what execute returned or raised

vars == <<options, pc, attempt, copies, reply, result>>

CopyStates == {"travelling", "lost", "applied", "replayed", "refused"}

ControlStates == {"idle", "ready", "waiting", "sleeping", "returned", "raised"}

Results ==
  [type : ErrorTypes \cup {"none", "response"}, retryable : BOOLEAN]

NoResult == [type |-> "none", retryable |-> FALSE]

TypeOK ==
  /\ options \in [Calls -> Operations]
  /\ pc \in [Calls -> ControlStates]
  /\ attempt \in [Calls -> 1..MaxAttempts]
  /\ copies \in [Calls -> Seq(CopyStates)]
  /\ reply \in [Calls -> Statuses \cup {NoReply}]
  /\ result \in [Calls -> Results]

Init ==
  /\ options \in [Calls -> Operations]
  /\ pc = [c \in Calls |-> "idle"]
  /\ attempt = [c \in Calls |-> 1]
  /\ copies = [c \in Calls |-> <<>>]
  /\ reply = [c \in Calls |-> NoReply]
  /\ result = [c \in Calls |-> NoResult]

-----------------------------------------------------------------------------
(* The thread that runs execute.                                           *)

\* Entry of execute, up to the loop.
Begin(c) ==
  /\ pc[c] = "idle"
  /\ pc' = [pc EXCEPT ![c] = "ready"]
  /\ UNCHANGED <<options, attempt, copies, reply, result>>

\* transport.send: one more copy leaves, with the same key as the others.
Send(c) ==
  /\ pc[c] = "ready"
  /\ pc' = [pc EXCEPT ![c] = "waiting"]
  /\ copies' = [copies EXCEPT ![c] = Append(@, "travelling")]
  /\ reply' = [reply EXCEPT ![c] = NoReply]
  /\ UNCHANGED <<options, attempt, result>>

\* Mutation: a redirect is taken for a success.
Complete_Redirects(c) ==
  /\ pc[c] = "waiting" /\ reply[c] # NoReply /\ reply[c] < 400
  /\ pc' = [pc EXCEPT ![c] = "returned"]
  /\ result' = [result EXCEPT ![c] = [type |-> "response", retryable |-> FALSE]]
  /\ UNCHANGED <<options, attempt, copies, reply>>

\* A 2xx response ends the call.
Complete(c) ==
  /\ pc[c] = "waiting" /\ reply[c] # NoReply /\ Success(reply[c])
  /\ pc' = [pc EXCEPT ![c] = "returned"]
  /\ result' = [result EXCEPT ![c] = [type |-> "response", retryable |-> FALSE]]
  /\ UNCHANGED <<options, attempt, copies, reply>>

Rejected(c) == pc[c] = "waiting" /\ reply[c] # NoReply /\ ~Success(reply[c])

RetryAfterStatus(c) ==
  /\ Rejected(c) /\ RetriesStatus(options[c], attempt[c], reply[c])
  /\ pc' = [pc EXCEPT ![c] = "sleeping"]
  /\ UNCHANGED <<options, attempt, copies, reply, result>>

\* _map_error and raise.
RaiseStatus(c) ==
  /\ Rejected(c) /\ ~RetriesStatus(options[c], attempt[c], reply[c])
  /\ pc' = [pc EXCEPT ![c] = "raised"]
  /\ result' = [result EXCEPT ![c] =
       [type |-> ErrorOf(reply[c]),
        retryable |-> Retryable(options[c], reply[c])]]
  /\ UNCHANGED <<options, attempt, copies, reply>>

\* A timeout or a broken connection can strike whatever became of the copy,
\* also when the provider has already answered.
RetryAfterTransport(c) ==
  /\ pc[c] = "waiting" /\ RetriesTransport(options[c], attempt[c])
  /\ pc' = [pc EXCEPT ![c] = "sleeping"]
  /\ UNCHANGED <<options, attempt, copies, reply, result>>

RaiseTransport(c) ==
  /\ pc[c] = "waiting" /\ ~RetriesTransport(options[c], attempt[c])
  /\ pc' = [pc EXCEPT ![c] = "raised"]
  /\ \E error \in {"Timeout", "Network"} :
       result' = [result EXCEPT ![c] = [type |-> error, retryable |-> FALSE]]
  /\ UNCHANGED <<options, attempt, copies, reply>>

\* The back-off sleep ends and the loop goes round.
Wake(c) ==
  /\ pc[c] = "sleeping"
  /\ pc' = [pc EXCEPT ![c] = "ready"]
  /\ attempt' = [attempt EXCEPT ![c] = @ + 1]
  /\ UNCHANGED <<options, copies, reply, result>>

ThreadStep(c) ==
  \/ Send(c) \/ Complete(c) \/ RetryAfterStatus(c) \/ RaiseStatus(c)
  \/ RetryAfterTransport(c) \/ RaiseTransport(c) \/ Wake(c)

-----------------------------------------------------------------------------
(* The network and the provider, as the code relies on them: a 2xx answers *)
(* what was applied, a gateway error or a 408 says nothing about it, any   *)
(* other status means that this copy changed nothing.  An operation whose  *)
(* category is idempotency_protected is one whose provider honours the     *)
(* Idempotency-Key header.                                                 *)

Ambiguous(status) == status >= 500 \/ status = 408

Honoured(c) ==
  options[c].safety = "idempotency_protected" /\ options[c].key # NoKey

Applied(c) == \E n \in DOMAIN copies[c] : copies[c][n] = "applied"

KeyUsed(c) ==
  \E d \in Calls : Honoured(d) /\ options[d].key = options[c].key /\ Applied(d)

\* The copy's fate, and an answer if the caller still listens for it.
Settle(c, n, fate, status) ==
  /\ n \in DOMAIN copies[c] /\ copies[c][n] = "travelling"
  /\ copies' = [copies EXCEPT ![c] = [@ EXCEPT ![n] = fate]]
  /\ reply' = IF n = Len(copies[c]) /\ pc[c] = "waiting"
                THEN [reply EXCEPT ![c] = status] ELSE reply
  /\ UNCHANGED <<options, pc, attempt, result>>

ProviderApplies(c, n, status) ==
  /\ Success(status) \/ Ambiguous(status)
  /\ ~(Honoured(c) /\ KeyUsed(c))
  /\ Settle(c, n, "applied", status)

ProviderReplays(c, n, status) ==
  /\ Success(status)
  /\ Honoured(c) /\ KeyUsed(c)
  /\ Settle(c, n, "replayed", status)

ProviderRefuses(c, n, status) ==
  /\ ~Success(status)
  /\ Settle(c, n, "refused", status)

Lose(c, n) == Settle(c, n, "lost", NoReply)

WorldStep(c) ==
  \E n \in DOMAIN copies[c] :
     \/ Lose(c, n)
     \/ \E status \in Statuses :
          \/ ProviderApplies(c, n, status)
          \/ ProviderReplays(c, n, status)
          \/ ProviderRefuses(c, n, status)

Next == \E c \in Calls : Begin(c) \/ ThreadStep(c) \/ WorldStep(c)

\* Mutation: the client is built with timeout=None.
Fairness_NoTimeout ==
  \A c \in Calls :
    /\ WF_vars(Send(c)) /\ WF_vars(Wake(c)) /\ WF_vars(Complete(c))
    /\ WF_vars(RetryAfterStatus(c)) /\ WF_vars(RaiseStatus(c))

\* Threads are scheduled, sleeps end, and TimeoutConfig bounds every wait, so
\* a step of the thread is always possible; the provider owes nothing.
Fairness == \A c \in Calls : WF_vars(ThreadStep(c))

Spec == Init /\ [][Next]_vars /\ Fairness
-----------------------------------------------------------------------------
(* Properties.                                                             *)

\* Categories that the documentation promises never to submit twice.
Unrepeatable(c) ==
  \/ options[c].safety = "unsafe"
  \/ options[c].safety = "idempotency_protected" /\ options[c].key = NoKey

\* A financial write that is unsafe, or protected by a key that two calls may
\* share, changes the provider at most once, whatever timeouts, retries and
\* late copies do (retry-and-idempotency.md, RetryPolicy.decide).
AtMostOnceEffect ==
  \A c, d \in Calls :
    \A m \in DOMAIN copies[c], n \in DOMAIN copies[d] :
      /\ copies[c][m] = "applied" /\ copies[d][n] = "applied"
      /\ \/ c = d /\ Unrepeatable(c)
         \/ Honoured(c) /\ Honoured(d) /\ options[c].key = options[d].key
      => c = d /\ m = n

\* An unrepeatable call that raises anything but an uncertain error was not
\* applied and no copy of it can still be: the caller may submit it again
\* (error types of _map_error against the outcomes of the audit facades).
RejectionIsFinal ==
  \A c \in Calls :
    /\ pc[c] = "raised" /\ Unrepeatable(c)
    /\ AuditOutcome(result[c].type) = "failed"
    => \A n \in DOMAIN copies[c] : copies[c][n] = "refused"

\* An error is flagged retryable only after the engine has itself used every
\* attempt, so _map_error and RetryPolicy.decide agree on what may be resent.
RetryableMeansExhausted ==
  \A c \in Calls : result[c].retryable =>
    /\ attempt[c] = MaxAttempts
    /\ Len(copies[c]) = MaxAttempts
    /\ ~Unrepeatable(c)

\* A response reaches the caller only if the provider acted on a copy of that
\* call, or had acted on a call with the same honoured key.
ResponseMeansApplied ==
  \A c \in Calls : pc[c] = "returned" =>
    Applied(c) \/ (Honoured(c) /\ KeyUsed(c))

\* Every execution ends, even when the provider never answers.
CallEnds ==
  \A c \in Calls : pc[c] = "ready" ~> pc[c] \in {"returned", "raised"}

=============================================================================
