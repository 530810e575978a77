# A verification development for the Jibit SDK

The Jibit SDK (`src/src/jibit`) is a synchronous Python client for financial services.
Its own logic is thin but delicate: it sends writes that must not be performed twice over a
network that loses answers, shares short-lived tokens between threads and processes, and
leaves an audit trail that other systems reconcile against. This directory holds TLA+
models of that logic, the TLC runs that check them, and theorems proved with TLAPS.

## 1. Inventory

| Component | Source | State it keeps | Operations | Module |
| --- | --- | --- | --- | --- |
| Retry policy | `retry.py` | none | `decide` | `RetryPolicy` |
| Request engine | `engine.py` | loop counter of a call | `execute`, `_map_error` | `RequestEngine` |
| Transport | `transport.py` | connection pool | `send`, `close` | `RequestEngine` (`send`), `ServiceCall` (a closed client), `ClientLifecycle` (`close`) |
| Authenticated engine | `auth/authenticated.py` | none | `execute` with one 401 replay | `ServiceCall` |
| Service authenticator | `auth/provider.py`, `auth/tokens.py`, `auth/specs.py` | none of its own | `get_token`, `recover_from_unauthorized`, `invalidate` | `TokenLifecycle`, `ServiceScopes` (cache key, credentials, scopes) |
| Token stores | `auth/store.py`, `auth/redis.py`, `auth/django.py` | token per cache key | `get`, `set`, `delete` | `TokenLifecycle`, `ServiceScopes` |
| Token locks | `auth/locks.py`, `auth/redis.py` | lock per cache key | `lock` | `TokenLifecycle` |
| Audited facade | `services/base.py` | none | `AuditedRequestExecutor.execute`, parsing, input validation | `ServiceCall` |
| Payment gateway | `services/payment_gateway/service.py` | none | purchases, refunds, inquiries | `ServiceCall`, `ServiceCatalogue`, `FacadeCalls` |
| Other facades | `services/*/service.py` | none | one method per endpoint | `ServiceCatalogue`, `FacadeCalls` |
| Request models | `models.py`, `services/*/models.py` | a mutable request object | validation, `to_payload`, `to_query` | `RequestRules`, `Requests` |
| Webhooks | `webhooks/base.py` | the application's claim store | `parse_callback` | `CallbackProcessing` |
| Client, Django singleton | `client.py`, `django/client.py` | facades, closed flag, process-wide client | lazy creation, `close` | `ClientLifecycle` |
| Static bearer engine | `auth/static.py` | none | `execute` | `ServiceCall` (facade `static`), `ServiceScopes` |
| Configuration | `config.py` | immutable settings | `from_mapping`, `service` | `ServiceScopes`; numbers are constants |
| Logging, redaction, errors | `logging.py`, `redaction.py`, `exceptions.py` | text | | error types only |

How they interact: a facade method validates its input and calls an executor; the executor
(audited or not) calls the authenticated engine; that one asks the service authenticator
for a token, lets the request engine execute, and on a 401 asks for a replacement and
executes once more. The authenticator calls the same request engine for its own token
requests, under the lock of the cache key, and shares the token store with every other
thread or process. The client creates engines and facades when they are first used and owns
the connection pool; the Django module keeps one client per process. `parse_callback` stands
alone: the application calls it for every delivery and verifies the purchase afterwards.

What is hard: requests that time out but still arrive; the same repeatability rule written
in three places; an outcome classified by the last of several errors; threads queueing on a
lock around an expiring token; a Redis lease that is shorter than what it protects; clock
readings that are old when they are used; exceptions that are not `JibitError` (from Redis)
passing layers that expect `JibitError`; 81 methods that each choose their category and audit
path by hand; callbacks that are repeated, forged, or interrupted after their key was
claimed; a process-wide client that is closed under the threads that use it; request objects
that are assigned to after their check and used again; references that a submission accepts
and its inquiry refuses; tokens of several services, accounts and settings in one store that
outlives the processes. The hazards, each
at its line and with the properties that cover it, are in `PROJECT.json`.

What makes each part correct:

- engine and retry policy: an unrepeatable write is performed at most once, a definitive
  error is true, the retryable flag agrees with the policy, a call ends;
- authenticated engine: at most one replay, only of a repeatable call, only after a 401;
- authenticator: one token request at a time, none without need, no stale overwrite, no
  replay with the rejected token, no dead token, nobody stuck;
- facades: the audit trail never says "failed" of a write that may have been performed and
  tells what the caller was told; what the documents call a submission is never resent;
- webhooks: a callback is handed over as new at most once, only an authentic one uses up its
  key, and an acknowledged one can be lost only in known ways;
- client: one open transport per process, a closed client's connections are released or
  somebody is releasing them, one token request however many engines were built, nobody stuck
  on the module's lock;
- request models: what breaks a published rule is only sent if the caller assigned it to an
  object after the check; what a method checks or builds itself holds whatever was assigned;
  the reference of an uncertain submission can be inquired by;
- configuration: secrets and tokens leave only for the service, origin, account and scopes
  they were written or issued for, and never from incomplete settings.

## 2. Modules

`RetryPolicy` has the pure rules: `RetriesTransport`/`RetriesStatus` (`RetryPolicy.decide`
for a transport failure and for a response), `Retryable` and `ErrorOf` (`_map_error`),
`CanReplay` and `AuditOutcome`. Delays are left out.

`RequestEngine` extends it with `execute` as a state machine per call (`pc`: ready to send,
waiting, sleeping before a retry, returned, raised), and with the network and the provider
underneath. `copies[c]` is the sequence of all requests ever sent for a call and what became
of each. A timeout (`RetryAfterTransport`, `RaiseTransport`) leaves the copy travelling, so
the provider may act on it at any later moment, also after the call has ended. The provider
is external; what is assumed of it is what the code relies on: a 2xx answers a request that
was performed, a 5xx or 408 says nothing, every other status means this copy changed
nothing, and an operation whose category is `idempotency_protected` goes to a provider that
honours the `Idempotency-Key` header. Statuses are numbers, so the rules are evaluated on
them as in the code.

`ServiceCall` extends `RequestEngine` with the layers around it. `stage` is the position in
`AuthenticatedRequestEngine.execute`; `EndWithError`, `EndWithResponse` and `EndWithException`
are the ways out through the facade, with the audit event each facade emits. The executor
facade reports the 2xx before the body is parsed, the gateway after; exceptions other than
`JibitError` pass both without an event. Such exceptions come from a token store or lock
(`StoreCanFail`) and from a client that another thread closes, also while the call sleeps
before a retry (`ClientClosed`, with `ClientMayClose`). The authenticator is seen from outside
(`TokenRaises`). There are four facades: `executor` (any category), `gateway` (the audited
operations of the payment gateway), `plain` (its inquiries, no event) and `static` (KYC: the
executor over a static token, so no authenticator and no replay). `OperationsOf` gives the
categories of each.

`ServiceCatalogue` lists the 81 methods of the facades as data: category, facade, whether the
parameters are checked before anything is sent, and whether the body of a 2xx is parsed.
`FacadeCalls` extends `ServiceCall` with it: a call is a call of one of these methods, and
`AsDeclared` keeps a method without checks or parsing from ending with their errors.

`CallContract` is the abstract specification of a call: how often a write may be performed
(`once`, `keyed`, `many`) and which verdict may be given when. `ServiceCall` implements it
under the mapping at the end of that module: a write is named by its honoured key or by its
call (`WriteNames`, so that calls and keys may be values of any kind), effects are the applied
copies, the verdict is the audit event, and "silent" is a call that ended without one.

`TokenLifecycle` models `ServiceAuthenticator` for one cache key and several workers, step by
step: the look at the cache with a clock reading taken before it, the purge of an unreadable
entry, the lock, the second look, the token request (`Issue`, `LoseAnswer`, `Receive`), the
fallback from refresh to credentials, every exit by exception (`Abort`), the use of the token
with `Recover`, `Reject` and the unlocked `Invalidate`. Lock domains separate threads of
different processes (`DomainOf`); `Lease = Never` is `ThreadLockProvider`, a number is
`RedisLockProvider`, whose release raises when the lease has run out (`LeaveWith`) and whose
waiters give up after the blocking timeout (`Abort`). `StoreRaises` is a write or deletion that
took effect although the store raised, `Evict` a cache that drops an entry by itself. The
provider's own expiry time `dies` is known to the properties only. Two bounds on time are
explicit in `Tick`: `Latency` (from issuing a token to parsing the answer) and `Pause` (from
reading the clock to using the reading).

`CallbackProcessing` models `parse_callback` in the handlers of an application: the body is
parsed, the verifier asked, the key claimed (`Claim`, `FindDuplicate`), each with its
rejection. `ClaimRaises` covers a key function or store that raises, before or after the key
was taken. A handler may lack the verifier, the store or the key function. Around it,
`Receive` delivers anything at any time, `Acknowledge` is the application of
`docs/webhooks.md` (process an original, acknowledge a duplicate), `Crash` loses a handler.

`ClientLifecycle` models the Django module (`_lock`, `_client`), the unlocked lazy creation of
an engine and its facade in `JibitClient`, and the use of the facade: the cached token, the
token lock that all engines of a client share, and one request. `JibitClient.close` has no lock
of its own: it looks at `_closed` (`CheckClosed`), closes the transport, and sets `_closed`
(`SetClosed`), entered from `close_jibit_client` under the module's lock or directly by a thread
that holds the client (`CloseHeld`, also `__exit__`). Closing the transport is `httpx`'s: it marks
its client (`BeginRelease`), after which that client sends nothing, and closes the connections
then (`EndRelease`); a second close finds the mark and returns at once (`SkipRelease`). So a
thread that closes beside another may say "closed" and return while the connections are still
being released: the docstring "Release an internally owned transport exactly once" holds, but
a return of `close` does not mean that they are gone. `ReleasedOrUnderWay` states what the code
does guarantee. "Open" in `OneOpenClient` means that the client sends; a pool that is still
being released is none. Taken from `httpx` without a model of it: its test and mark of the
client are one step, closing a connection does not raise and comes to an end, and a request under
way may bring its connection back later. A token request that starts on a marked client raises
(`TokenFails`), one that is under way may still succeed. A client that its user closed directly
stays the module's until `close_jibit_client`, and `get_jibit_client` hands it out until then. One service stands for all, because
services share only the transport. The lazily built facade follows the payment gateway's
property; the others have the same shape. A client, an engine or a facade is identified by the
use of the module that made it (`New`: the thread and its number of uses), which makes it new
without a list of all that exist.

`RequestRules` has the rules of the request models as operators on records: which values
construct a model (`Purchase`, `Mandate`, `Matching`, ...), which references a submission and
its inquiry accept (`Rule`: a length and a class of characters), what is left of a value on the
wire (`Payload`), and the two bodies that are built by hand (`MandateBody`, `SignerBody`).
Bounds are the code's numbers; amounts, times (minutes) and sizes (MiB) are integers, texts are
classes of texts. `Fields` has the declared types of all models, wider than any set TLC is
given; `InputsAssumption` ties those sets to it. `Requests` is a caller of the 30 methods that
check such values: it constructs an object (`Construct`), assigns to it (`Assign`: nothing is
checked then), passes it, keywords, both or neither (`Call`), and inquires after a submission
whose outcome is uncertain (`Inquire`). Three models are parts of another request: a `Signer`, a
`TransferItemRequest` and a `TerminalSwitching` may be constructed before the call and assigned
to; the call then checks the fields around the part and sends the part as it is
(`CallWithSigner`, `CallWithTransfer`, `CallWithSwitching`), while a mapping in its place is
checked like the rest. The validators of the two purchase filters and of `_InboundQuery`
compare times; when only one of them has a time zone, the comparison raises `TypeError` out of
the constructor or the call, unless a field was refused before (`Incomparable`).

`ServiceScopes` models the settings of several processes from what the application wrote to
what leaves: the two places of an entry (`Entry`), the pairs of credentials
(`ValidCredentials`), the cache key, and the token requests, calls, refreshes and static calls
that follow. Processes share one store and are restarted with other settings (`Stop`,
`Start`). A token request and its answer are one step here, because `TokenLifecycle` has the
interleavings within one cache key.

`MCRequestEngine`, `MCServiceCall`, `MCFacadeCalls`, `MCTokenLifecycle`, `MCRequests` and
`MCServiceScopes` define the sets the configurations use. The theorems are in modules of their
own: `RequestEngineProofs`, `ServiceCallProofs` on top of it, `FacadeCallsProofs` on top of
that, and `TokenLifecycleProofs`, `ClientLifecycleProofs`, `CallbackProofs`, `RequestsProofs`
and `ServiceScopesProofs`.

## 3. Runs

| Run | Checks | Bounds |
| --- | --- | --- |
| `request_engine` | `TypeOK`, `RejectionIsFinal`, `RetryableMeansExhausted`, `CallEnds` | 1 call of each of the 8 category/key combinations, 3 attempts, 9 statuses |
| `service_call_shared` | `AtMostOnceEffect`, `ResponseMeansApplied`, `ImplementsContractSafely` | 2 executor calls, unsafe or protected, that may share a key, 2 attempts per execution and the replay, 3 statuses, a client that is closed |
| `gateway_audit` | `AppliedIsNeverFailed`, violated | 1 idempotent gateway call, 2 attempts |
| `facade_calls` | `CallTypeOK`, `UncertaintyIsAudited`, `GatewayAuditMatchesCaller`, `SubmittedOnce`, `EveryCallIsAudited`, `CallFinishes`, `ImplementsContract` | 1 call of each of 81 methods, 2 attempts per execution, 5 statuses, stores that raise, a client that is closed |
| `token_threads` | `TypeOK`, `SingleFlight`, `RequestsOnlyWhenNeeded`, `CacheIsNewest`, `CallEnds` | 2 threads, 2 calls each, 3 tokens, one tick |
| `token_lease` | `ReplayUsesAnotherToken`, `FreshToken`, `SurvivorsEnd` | 2 workers, Redis lock with a lease of 1, failing store, evictions, crashes, time past the first token's end |
| `token_lease_overlap` | `SingleFlight`, violated | 2 workers, lease of 2, three ticks |
| `callbacks` | `OriginalOnce`, `ClaimsAreAccounted`, `AcknowledgedIsAccounted` | 2 handlers with any setup, 2 purchases |
| `client_lifecycle` | `TypeOK`, `OneOpenClient`, `ReleasedOrUnderWay`, `OneTokenRequest`, `ModuleCallsEnd` | 3 threads, 1 use of the module each |
| `request_models` | `TypeOK`, `SentIsPublished`, `MandateFitsItsWorkflow`, `SignerIsWhole`, `UncertainIsReconcilable`, `CallsKeepTheObject` | 30 methods, values on both sides of every bound, 2 assignments per object |
| `request_inquiry` | `UncertainIsReconcilable`, violated | the same, for Direct Debit and SMS as well |
| `service_scopes` | `TokensStayInScope`, `PairsStayTogether`, `IncompleteNeverSends`, `StaticTokenOnly` | 2 processes, 3 services, 2 tokens, 1 restart after another |

Why the bounds are enough to be interesting. With three attempts a call has a first, a middle
and a last one. The statuses contain one of each treatment: success, redirect, definitive
client errors, 401, 403, the transient and ambiguous 408, the transient and definitive 429,
and a server error. Two calls and one key are the smallest contention for a key, and two
attempts with a replay let a call leave up to four copies; the two calls are interchangeable,
so they may be permuted (`SameCalls`; the run has no liveness property). Two workers
show every race on the lock and on the cache, because the lock admits one and the cache has
one entry; a second call per worker meets what the first one left. Three tokens allow a
refresh, its replacement after a rejection, and one that is lost. The leeway is exactly
`Latency + Pause` in the token runs: with a leeway of 1 `FreshToken` is violated. The bounds
`MaxTime`, `MaxCalls` and `MaxTokens` stand in the guards of `Tick`, `Call` and `Issue`;
`MaxTokens` only keeps the provider silent, and then the request fails (`Abort`).
In `facade_calls` a call that ends with an exception other than `JibitError` is outside
`EveryCallIsAudited`, because it leaves without an event whatever the method;
`UncertaintyIsAudited` still covers it. Its `Submissions` are the list of
`docs/retry-and-idempotency.md`, written down independently of the categories. In `callbacks`
handlers work without a bound on deliveries. Three threads in `client_lifecycle` are two that
race and one that closes under them; `MaxCalls` stands in the guard of `Enter`.
`SmallInputs` of `request_models` has, for every model, values below, at and above each bound
and every combination of the optional fields that a rule relates; two assignments
(`MaxAssigns`, in the guard of `Assign`) can break a rule and repair another. `Published` in
`Requests` states the rules again, from the validators' messages and over the fields that are
sent, so that it is independent of the operators it checks. `service_scopes` writes one
service in every way, one in both places, and two with the same account; `MaxTokens` stands in
the guard of `Acquire`.

Deadlock is not checked where the systems really stop: calls end, and the bounds of the token
and client runs are used up. That nothing stops too early is what `CallEnds`, `SurvivorsEnd`,
`CallFinishes` and `ModuleCallsEnd` check. It is checked in `callbacks`, `request_models` and
`service_scopes`, where there is always a next step.

Fairness. `RequestEngine`: weak fairness of a thread's own steps. Threads are scheduled,
`sleep` ends, and `TimeoutConfig` bounds every wait of `HttpxTransport.send`, so a waiting
thread always has a step; nothing is assumed of the network or the provider. `ServiceCall`:
the same, plus that obtaining a token ends, which `TokenLifecycle` checks; `FacadeCalls` has
the same fairness of a caller's steps. `TokenLifecycle`:
weak fairness of every worker. Its `WorkerStep` includes the end of a token request, which
`RequestEngine`'s `CallEnds` justifies. Fairness of the lock is not assumed: every worker
makes finitely many calls. `SurvivorsEnd` adds crashes: a worker that waits for a lock whose
holder died ends either with the lock, when the lease has run out, or with the error of
`blocking_timeout`; the second is a step of its own, so nothing is assumed of the lease or of
time. `ClientLifecycle`: weak fairness of every thread that is inside
the module or a call, for the same reasons, and because `httpx` closing the connections of a
client comes to an end (`EndRelease`); a thread need not start one. `CallbackProcessing`
has no liveness property: that a callback is processed in the end depends on the provider
repeating it and, after a crash, on the application's reconciliation.

### Three disagreements with the documentation

- `gateway_audit`: `_audit_error` looks at the last error alone. A retried `verify_purchase`
  or `reverse_purchase` whose first attempt was performed and timed out, and whose last
  attempt is refused with 429, is audited as `failed`, although `docs/logging.md` reserves
  `unknown` for writes that may have been accepted before a response was lost.
- `token_lease_overlap`: the Redis lock is taken for 30 s and not extended, while a refresh
  and an acquisition may take three attempts of 30 s each. A second worker then refreshes
  concurrently, which `docs/authentication.md` recommends this provider to prevent.
  The token properties that matter for correctness survive this (`token_lease`).
- `request_inquiry`: `collect`, `create_mandate`, `send` and `send_pattern` accept a reference
  of any characters, while `inquire_transaction`, `inquire_creditor_mandate` and
  `get_status_by_client_id` refuse all but letters, digits, `-`, `_` and `.`. After an
  uncertain outcome the inquiry that `docs/direct-debit.md` and
  `docs/retry-and-idempotency.md` prescribe cannot be made for such a reference. For
  purchases, batches, settlements and contracts it always can (`request_models`).

## 4. Theorems

The proof modules work from inductive invariants that TLC evaluated first.

`RequestEngineProofs`, for any sets of calls, keys, operations and statuses and any
`MaxAttempts > 0`:

- `AtMostOnce`. `AtMostOnceEffect` is not inductive: nothing in it excludes a state where an
  unsafe call is about to send a second copy. The invariant adds that a thread sleeps before
  a retry only if its operation is repeatable (`SleepInv`) and that an unrepeatable call has
  sent at most one copy, none before its only send (`SentInv`). A newly applied copy is then
  alone, by `SentInv` for an unsafe call and by the provider's memory of keys otherwise.
- `RejectionsAreFinal` adds `RefusedInv`: a definitive status on the connection of an
  unrepeatable call answers its only copy, which was refused. The lemma `FailedIsDefinitive`
  connects the exception classes of `_map_error` with the outcomes of the audit facades.
- `ResponsesAreEarned` (`ResponseMeansApplied`) adds `AnswerInv`: a 2xx that has arrived but
  is not read yet has an effect behind it, that of the call or of another with its key.
- `RetryableIsExhausted` (`RetryableMeansExhausted`) adds that the copies sent are counted by
  the loop (`CountInv`) and that only a raised result carries the flag (`FlagInv`).
- `TypeCorrect`, and `RetryRulesAgree`: below the attempt limit `decide` and `_map_error`
  name the same operations and statuses.

`ServiceCallProofs`, for any calls, keys, statuses and token errors, with stores that fail and
clients that are closed or not. The engine's invariant is not enough, because a replay after a
401 starts its loop again with copies already sent:

- `CallInvariance` has the layers' own parts. `StageInv`: only a repeatable call is ever in
  recovery or replay, so for every other call the engine runs once and `IInv` still bounds its
  copies. `BudgetInv`: a replay adds at most `MaxAttempts` to what the first execution sent.
  `TrailInv`: an event of success has an effect behind it, and a call that is not a plain
  inquiry and ends without an exception has exactly one event if it sent anything.
- `CallTypeCorrect` (with the budget of `2 * MaxAttempts`), `AtMostOnceWithReplay`,
  `ResponsesAreEarnedWithReplay`, `UncertaintyAudited` and `GatewayAuditIsTheCallers` are read
  off it. The lemmas about endings go through `Tells`, what the event and the result of a call
  must say at the moment it ends; that no later step of the provider can falsify it needs
  `RefusedInv` again.
- `CallsImplementTheContract`: the safety part of `CallContract`. Initial states map to
  initial states. An entering caller opens its call, an ending one gives the verdict, whose
  guard in the contract is what `Tells` says; the engine's own steps, recovery and replay
  stutter. A copy that the provider applies is one more effect of its write and of no other,
  allowed by the contract because `AtMostOnceEffect` holds before the step and after it.

`FacadeCallsProofs`, for any number of calls of any of the 81 methods:

- `CatalogueDeclared`: no method that the documents call a submission is repeatable, and only
  inquiries of the gateway are unaudited. It is a fact about the table, method by method; a
  changed category breaks it.
- `SubmissionsLeaveOnce` (`SubmittedOnce`), `CallsAreAudited` (`EveryCallIsAudited`),
  `FacadesAudit` (`CallTypeOK`, `UncertaintyIsAudited`, `GatewayAuditMatchesCaller`) and
  `FacadesImplementTheContract`, from `CallInv` and the fact that a call has the options and
  facade of its method (`FacadeInv`).

`TokenLifecycleProofs`, for any workers, domains and lifetimes:

- `SingleFlightHolds` assumes a lock without a lease (`Lease = Never`); invariant: whoever is
  in the locked section holds the lock of its domain (`LockInv`).
- `ReplaysUseAnotherToken` assumes nothing. Token identities grow: a token that arrives is
  newer than the one its worker saw rejected (`IdInv`), and only who asked gets an answer
  (`AskedInv`).
- `NoStampede` (`RequestsOnlyWhenNeeded`) assumes one shared lock without a lease; it needs
  that no clock reading is from the future (`StampInv`), so that a token that is valid now
  was valid for the reading that decided on the request.
- `TokensAreFresh` assumes a known expiry (`ExpirySource` is `jwt` or `ttl`),
  `Latency + Pause <= Leeway` and `Latency < AccessTtl`; invariant `FreshInv`: the client
  believes a token to live at most `Latency` too long.
- `StoreNeverFallsBehind` (`CacheIsNewest`) assumes one shared lock without a lease; nothing is
  assumed of the store, which may raise after it wrote. `CacheIsNewest` is not inductive: a
  token that is on its way will be stored, so it must be newer than the cached one and than
  all that are in use (`NewestInv`), which `LockInv` gives because only one is on its way
  (`OneAnswer`). With a lease the property is false: a worker that has lost its lock stores an
  older token over a newer one.
- `TypeCorrect`.

`ClientLifecycleProofs`, for any threads and number of uses, of which `NoThread` is not one
(`ThreadAssumption`): `ClientIsTheOnlyOne` (`OneOpenClient`), `CloseReleases`
(`ReleasedOrUnderWay`), `EnginesShareAToken` (`OneTokenRequest`) and `TypeCorrect`. The
invariant `LifeInv` says that no transport is open but that of the module's client
(`PoolInv`), which survives a construction because the thread under the module's lock found
none (`GuardInv`) and what it makes did not exist (`UseInv`), and survives `Forget` because a
thread is there only after the mark (`ShutInv`), although another thread may be in the middle
of `close` on the same client without the lock. `CloseReleases` needs the rest of `ShutInv`: a
client that says it is closed has been marked, and a mark has a thread that will end the release. `TokenInv` says who holds the token lock of a
client and that a request is made only where there was none.

`RequestsProofs`, for all values of the declared types, integers without bounds and sequences
of any length included (`Fields`; the sets that callers try are any subsets of them,
`InputsAssumption`, and the marker of an absent field is no number and no time, `NoneAssumption`,
`NoMomentAssumption`):
`CheckedIsPublished` (`SentIsPublished`), `MandatesFit`, `SignersLeaveWhole`, `TypeCorrect`,
`SubmissionsAreReconcilable`, and the action property `ObjectsAreKept` (`CallsKeepTheObject`).
One lemma per model says that what its rules accept obeys the published rules on the wire
(`Published`), which is where a difference between a validator and its message would show. The
invariant keeps that an object was constructed from values that its model accepted and still
has their fields (`ObjectInv`; so a part that was not assigned to is still what the whole
request accepts, `TransferKeeps`, `SwitchingKeeps`), and what is true of the last request whatever it was made from
(`WireInv`). `SubmissionsAreReconcilable` assumes that only purchases, batches, settlements and
contracts are asked about (`Recoverable`); for Direct Debit and SMS the property is false
(`request_inquiry`).

`CallbackProofs`, for any handlers and keys and without assumptions: `OriginalsAreUnique`,
`ClaimsAccounted` and `AnswersAccounted`. `AcknowledgedIsAccounted` is not inductive: a
duplicate may be acknowledged at any time, so every claimed key must already be accounted
for. The invariant says so (`OwnerInv`: a claimed key is handled, interrupted, or owned by a
handler that has a store and still holds it as an original; `DuplicateInv`: a duplicate's key
is claimed) and keeps what was answered among the handled and the claimed keys (`AnswerInv`).
`ClaimInv` ties the number of times a key was handed over to its claim.

`ServiceScopesProofs`, for any processes, services and settings, of which `None` is not one
(`SettingsAssumption`): `ScopesHold`, `PairsHold`, `IncompleteIsSilent` and `StaticHolds`. The
invariant says what is cached under a key (`StoreInv`: it was issued for what the key names),
where a configuration comes from (`ConfigInv`: valid settings of that process) and that the
sender of the last request still has its settings (`SenderInv`), without which a restart could
separate a request from the settings that explain it.

Only model-checked: the liveness properties (`CallEnds` twice, `CallFinishes`, `SurvivorsEnd`,
`ModuleCallsEnd`) and the fairness part of `ImplementsContract`, because liveness under
fairness is out of the prover's reach. Every invariant and every action property of a passing
run is a theorem, the token invariants under the assumptions named above; the three
disagreements with the documentation are counterexamples and stay with TLC.

The assumptions on constants are few: `MaxAttempts > 0` (`RetryConfig` refuses less), statuses
are numbers, the token errors are SDK errors, times and bounds are numbers (`TimeAssumption`),
and markers (`None`, `NoReply`, `Nobody`, `NoThread`) are not among the values they stand
beside. TLC evaluates all of them in the runs.

## 5. Abstractions and what is left out

Headers, correlation ids, log events and event metadata are not modelled; a failing audit
sink is swallowed by the code and so is no step. A response body matters only in that it
may not parse, so response models are left out, and so are the patterns of single request
fields (phone numbers, dates, digits, `next_page_id`, the page of a plain list), which no other
field depends on. Signals and `KeyboardInterrupt` are not modelled. Several SDK versions sharing
a store appear as an unreadable entry at the start. Back-off durations are left out: a
sleeping call wakes at any time.

A handler in `CallbackProcessing` that has no store is outside `OriginalOnce`, because nothing
there deduplicates; what the application does with `verify_purchase` afterwards is one step,
`Acknowledge`. In `ClientLifecycle` tokens do not expire, and a transport that the application
injects, which the client never closes, does not appear. In `Requests` the caller works alone:
objects shared between threads are not modelled. The provider in `RequestEngine` keeps effects
per write, not the value of an object, so a late copy of a repeatable update that restores an
older value (`set_settlement_receipt`) is outside every property.

Not modelled at all: `logging.py` and `redaction.py` (text), `types.py`, `__about__.py` and the
package's re-exports (no behaviour).

## 6. Plan

In this order:

1. Proofs: an abstract specification of what `get_token` promises its callers (a token that
   is accepted now, obtained once) with the step refinement by `TokenLifecycle`, and one of the
   module-wide client (absent, open, closed) implemented by `ClientLifecycle`.
2. Callbacks composed with `verify_purchase` of `FacadeCalls`: what the application learns of a
   purchase when the callback was claimed and the verification was cut off.
3. Provider-side objects: late copies of repeatable updates against later calls.
4. Token runs with two lock domains.
