---------------------------- MODULE ServiceCall ----------------------------
(***************************************************************************)
(* One method of a service facade around RequestEngine: the token and the  *)
(* replay after a 401 (AuthenticatedRequestEngine), the audit event        *)
(* (AuditedRequestExecutor, or the financial operations of                 *)
(* PaymentGatewayService) and the parsing of the response.  The            *)
(* authenticator is seen from outside: TokenLifecycle models it.           *)
(*                                                                         *)
(* facade[c] is the way a call takes through these layers: "executor" and  *)
(* "gateway" have a token and write an event each in their own order,      *)
(* "plain" has a token and no event (inquiries of the gateway), "static"   *)
(* is the executor around StaticBearerRequestEngine (KYC).                 *)
(***************************************************************************)
EXTENDS RequestEngine, FiniteSets

CONSTANTS
  TokenErrors,   \* what obtaining a token may raise, from its own requests
  StoreCanFail,  \* whether the token store and lock may raise (Redis)
  ClientMayClose \* whether another thread may close the client meanwhile

ASSUME AuthenticatorAssumption ==
  /\ TokenErrors \subseteq ErrorTypes
  /\ StoreCanFail \in BOOLEAN /\ ClientMayClose \in BOOLEAN

VARIABLES
  facade,    \* the layers between the caller and the engine
  stage,     \* how far AuthenticatedRequestEngine.execute has come
  audit,     \* outcomes handed to the audit sink
  outcome    \* what the caller of the service method got

callVars == <<facade, stage, audit, outcome>>
allVars == <<vars, callVars>>

Stages == {"idle", "first", "recovering", "replay", "done"}

Facades == {"executor", "gateway", "plain", "static"}

AuditOutcomes == {"succeeded", "failed", "unknown"}

CallTypeOK ==
  /\ TypeOK
  /\ facade \in [Calls -> Facades]
  /\ stage \in [Calls -> Stages]
  /\ audit \in [Calls -> Seq(AuditOutcomes)]
  /\ outcome \in [Calls -> ErrorTypes \cup {"none", "response", "exception"}]
  /\ \A c \in Calls : Len(copies[c]) <= 2 * MaxAttempts

\* What each way is used for: the gateway's purchases, verifications, reversals
\* and refunds; its inquiries; the KYC uploads; everything else.
OperationsOf(f) ==
  CASE f = "gateway"  -> [safety : {"idempotent", "unsafe"}, key : {NoKey}]
    [] f = "plain"    -> [safety : {"read_only"}, key : {NoKey}]
    [] f = "static"   -> [safety : {"unsafe"}, key : {NoKey}]
    [] f = "executor" -> Options

CallStart ==
  /\ Init
  /\ stage = [c \in Calls |-> "idle"]
  /\ audit = [c \in Calls |-> <<>>]
  /\ outcome = [c \in Calls |-> "none"]

CallInit ==
  /\ CallStart
  /\ facade \in [Calls -> Facades]
  /\ \A c \in Calls : options[c] \in OperationsOf(facade[c])

-----------------------------------------------------------------------------
(* How a call ends.                                                        *)

End(c, events, end) ==
  /\ stage' = [stage EXCEPT ![c] = "done"]
  /\ audit' = [audit EXCEPT ![c] = @ \o events]
  /\ outcome' = [outcome EXCEPT ![c] = end]
  /\ UNCHANGED <<facade, vars>>

Event(c, told) == IF facade[c] = "plain" THEN <<>> ELSE <<told>>

\* A JibitError passes all facades the same way.
EndWithError(c, error) == End(c, Event(c, AuditOutcome(error)), error)

\* Any other exception passes the facades without an event.
EndWithException(c) == End(c, <<>>, "exception")

\* Mutation: the gateway reports success before it reads the body.
EndWithResponse_AuditFirst(c) ==
  \/ End(c, <<"succeeded">>, "response")
  \/ End(c, <<"succeeded">>, "Response")

\* AuditedRequestExecutor reports the 2xx and the body is parsed after it;
\* _financial_typed parses first and reports a malformed body as an error.
EndWithResponse(c) ==
  \/ End(c, Event(c, "succeeded"), "response")
  \/ facade[c] # "gateway" /\ End(c, Event(c, "succeeded"), "Response")
  \/ facade[c] = "gateway" /\ EndWithError(c, "Response")

\* Invalid parameters are rejected before the request is built.
RejectInput(c) == stage[c] = "idle" /\ End(c, <<>>, "Validation")

-----------------------------------------------------------------------------
(* AuthenticatedRequestEngine.execute                                      *)

\* A token request fails the way a call does, and the store may raise.
TokenRaises(c) ==
  \/ \E error \in TokenErrors : EndWithError(c, error)
  \/ (StoreCanFail \/ ClientMayClose) /\ EndWithException(c)

Enter(c) ==
  /\ stage[c] = "idle" /\ Begin(c)
  /\ stage' = [stage EXCEPT ![c] = "first"]
  /\ UNCHANGED <<facade, audit, outcome>>

\* StaticBearerRequestEngine has its token from the configuration.
HasAuthenticator(c) == facade[c] # "static"

\* get_token stands before the try: whatever it raises ends the call.
TokenUnavailable(c) ==
  stage[c] = "idle" /\ HasAuthenticator(c) /\ TokenRaises(c)

Executing(c) == stage[c] \in {"first", "replay"}

\* The 401 that AuthenticatedRequestEngine catches.
Unauthorized(c) ==
  HasAuthenticator(c) /\ pc[c] = "raised" /\ result[c].type = "Authentication"

Responded(c) == Executing(c) /\ pc[c] = "returned" /\ EndWithResponse(c)

Failed(c) ==
  /\ Executing(c) /\ pc[c] = "raised" /\ ~Unauthorized(c)
  /\ EndWithError(c, result[c].type)

\* Mutation: only the first rejection ends the call.
GiveUp_FirstOnly(c) ==
  /\ stage[c] = "first" /\ Unauthorized(c) /\ ~CanReplay(options[c])
  /\ EndWithError(c, "Authentication") \/ (StoreCanFail /\ EndWithException(c))

\* No replay: the token is invalidated, which may itself raise.
GiveUp(c) ==
  /\ Executing(c) /\ Unauthorized(c)
  /\ stage[c] = "first" => ~CanReplay(options[c])
  /\ EndWithError(c, "Authentication") \/ (StoreCanFail /\ EndWithException(c))

\* Mutation: the replay asks neither for the category nor for the error.
Recover_AnyError(c) ==
  /\ stage[c] = "first" /\ pc[c] = "raised"
  /\ stage' = [stage EXCEPT ![c] = "recovering"]
  /\ UNCHANGED <<facade, audit, outcome, vars>>

Recover(c) ==
  /\ stage[c] = "first" /\ Unauthorized(c) /\ CanReplay(options[c])
  /\ stage' = [stage EXCEPT ![c] = "recovering"]
  /\ UNCHANGED <<facade, audit, outcome, vars>>

\* recover_from_unauthorized raised; nothing is invalidated here.
RecoveryFails(c) == stage[c] = "recovering" /\ TokenRaises(c)

\* The second execution starts with a fresh attempt counter.
Replay(c) ==
  /\ stage[c] = "recovering"
  /\ stage' = [stage EXCEPT ![c] = "replay"]
  /\ pc' = [pc EXCEPT ![c] = "ready"]
  /\ attempt' = [attempt EXCEPT ![c] = 1]
  /\ result' = [result EXCEPT ![c] = NoResult]
  /\ UNCHANGED <<options, copies, reply, facade, audit, outcome>>

\* httpx refuses to send through a closed client, also when the back-off ends;
\* the RuntimeError passes HttpxTransport, the engine and the facades.
ClientClosed(c) ==
  ClientMayClose /\ Executing(c) /\ pc[c] = "ready" /\ EndWithException(c)

EngineStep(c) == Executing(c) /\ ThreadStep(c) /\ UNCHANGED callVars

CallerStep(c) ==
  \/ EngineStep(c) \/ Responded(c) \/ Failed(c) \/ GiveUp(c)
  \/ Recover(c) \/ RecoveryFails(c) \/ Replay(c)

ProviderStep(c) == WorldStep(c) /\ UNCHANGED callVars

CallNext ==
  \E c \in Calls :
    \/ RejectInput(c) \/ Enter(c) \/ TokenUnavailable(c) \/ ClientClosed(c)
    \/ CallerStep(c) \/ ProviderStep(c)

\* The thread is scheduled and recovery ends (TokenLifecycle); see Fairness.
CallFairness == \A c \in Calls : WF_allVars(CallerStep(c))

CallSpec == CallInit /\ [][CallNext]_allVars /\ CallFairness
-----------------------------------------------------------------------------
(* Properties.                                                             *)

MayBeApplied(c) ==
  \E n \in DOMAIN copies[c] : copies[c][n] \in {"applied", "travelling"}

\* A finished call of an unrepeatable operation that changed the provider, or
\* still may, has left exactly one event that does not say "failed", even if a
\* Redis store raises or the client is closed under it (services/base.py and
\* payment_gateway/service.py).
UncertaintyIsAudited ==
  \A c \in Calls : stage[c] = "done" /\ Unrepeatable(c) /\ MayBeApplied(c) =>
    audit[c] \in {<<"succeeded">>, <<"unknown">>}

\* The audit trail of the payment gateway tells the caller's story: success
\* if and only if the caller got a typed result (_financial_typed, _audit).
GatewayAuditMatchesCaller ==
  \A c \in Calls : facade[c] = "gateway" =>
    (audit[c] = <<"succeeded">> <=> outcome[c] = "response")

\* No write that the provider performed is reported as failed, whatever its
\* category: docs/logging.md says that "unknown" is used when a write may have
\* been accepted before the response was lost.
AppliedIsNeverFailed ==
  \A c \in Calls :
    stage[c] = "done" /\ facade[c] = "gateway" /\ Applied(c)
    => audit[c] # <<"failed">>

\* Every call ends, with an answer, an error or an exception.
CallFinishes == \A c \in Calls : stage[c] = "first" ~> stage[c] = "done"

\* CallContract, with the copies that were applied as effects.
Write(c) ==
  IF Honoured(c) THEN <<"key", options[c].key>> ELSE <<"call", c>>

WriteNames == ({"key"} \X Keys) \cup ({"call"} \X Calls)

Verdict(c) ==
  CASE stage[c] = "idle" -> "none"
    [] stage[c] = "done" -> IF audit[c] = <<>> THEN "silent" ELSE audit[c][1]
    [] OTHER             -> "open"

AppliedCopies(w) ==
  UNION {{c} \X {n \in DOMAIN copies[c] : copies[c][n] = "applied"} :
           c \in {d \in Calls : Write(d) = w}}

Kinds ==
  [c \in Calls |-> IF Unrepeatable(c) THEN "once"
                   ELSE IF Honoured(c) THEN "keyed" ELSE "many"]

Targets == [c \in Calls |-> Write(c)]

Told == [c \in Calls |-> Verdict(c)]

Effects == [w \in WriteNames |-> Cardinality(AppliedCopies(w))]

Contract == INSTANCE CallContract WITH
  Writes <- WriteNames, kind <- Kinds, target <- Targets,
  verdict <- Told, effects <- Effects

\* Requests, retries, replays and audit events implement the contract.
ImplementsContract == Contract!Spec

\* The same without the contract's fairness, for calls that share a key.
ImplementsContractSafely ==
  Contract!Init /\ [][Contract!Next]_(Contract!contractVars)

=============================================================================
