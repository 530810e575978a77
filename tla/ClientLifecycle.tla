-------------------------- MODULE ClientLifecycle --------------------------
(***************************************************************************)
(* The process-wide client of the Django integration (django/client.py),   *)
(* the lazily created engine and facade of a service in JibitClient        *)
(* (client.py), and close, in the threads of one process.  One service     *)
(* stands for all: they share nothing but the transport.  A token stays    *)
(* valid here once it is cached; TokenLifecycle lets it expire.            *)
(***************************************************************************)
EXTENDS Naturals

CONSTANTS Threads,
          NoThread,
          MaxCalls     \* bound: how often each thread uses the module

ASSUME ThreadAssumption ==
  NoThread \notin Threads /\ MaxCalls \in Nat

VARIABLES
  module,    \* _client of the module, or None
  guard,     \* the thread that holds _lock
  pool,      \* the httpx client of each client's transport: "marked" when it
             \* refuses to send and its connections are still being closed
  closed,    \* the _closed flag of each client
  engines,   \* _authenticated_engines[service] of each client, or None
  facades,   \* the engine inside each client's facade, or None
  holder,    \* the thread that holds a token lock
  fetches,   \* token requests answered so far, per client
  pc,        \* where the thread is
  client,    \* the client the thread refers to
  engine,    \* the authenticated engine the thread uses
  calls      \* how often the thread has used the module

vars == <<module, guard, pool, closed, engines, facades, holder, fetches,
          pc, client, engine, calls>>
moduleVars == <<module, guard, pool, closed>>
lazyVars == <<engines, facades>>
tokenVars == <<holder, fetches>>

\* Identities of clients, and of engines: the use of the module that makes
\* one, as a use makes one of each at most.
Ids == Threads \X (1..MaxCalls)

None == <<NoThread, 0>>

ControlStates ==
  {"idle", "getting", "loading", "closing",
   "checking", "releasing", "draining", "flagging", "closed",
   "holding", "looking", "building", "wrapping", "ready",
   "locking", "locked", "fetching", "sending"}

\* Inside JibitClient.close.
Shutting == {"checking", "releasing", "draining", "flagging"}

\* The holder of a lock is inside its with block.
TypeOK ==
  /\ module \in Ids \cup {None}
  /\ guard \in {NoThread} \cup
       {t \in Threads : pc[t] \in {"loading", "closed"} \cup Shutting}
  /\ pool \in [Ids -> {"none", "open", "marked", "released"}]
  /\ closed \in [Ids -> BOOLEAN]
  /\ engines \in [Ids -> Ids \cup {None}]
  /\ facades \in [Ids -> Ids \cup {None}]
  /\ holder \in [Ids ->
       {NoThread} \cup {t \in Threads : pc[t] \in {"locked", "fetching"}}]
  /\ fetches \in [Ids -> Nat]
  /\ pc \in [Threads -> ControlStates]
  /\ client \in [Threads -> Ids \cup {None}]
  /\ engine \in [Threads -> Ids \cup {None}]
  /\ calls \in [Threads -> 0..MaxCalls]

Init ==
  /\ module = None /\ guard = NoThread
  /\ pool = [i \in Ids |-> "none"] /\ closed = [i \in Ids |-> FALSE]
  /\ engines = [i \in Ids |-> None] /\ facades = [i \in Ids |-> None]
  /\ holder = [i \in Ids |-> NoThread] /\ fetches = [i \in Ids |-> 0]
  /\ pc = [t \in Threads |-> "idle"] /\ calls = [t \in Threads |-> 0]
  /\ client = [t \in Threads |-> None] /\ engine = [t \in Threads |-> None]

Goto(t, state) == pc' = [pc EXCEPT ![t] = state]

\* The object that the present use of the module makes.
New(t) == <<t, calls[t]>>

-----------------------------------------------------------------------------
(* get_jibit_client and close_jibit_client.                                *)

Enter(t, state) ==
  /\ pc[t] = "idle" /\ calls[t] < MaxCalls
  /\ calls' = [calls EXCEPT ![t] = @ + 1]
  /\ Goto(t, state)
  /\ UNCHANGED <<moduleVars, lazyVars, tokenVars, client, engine>>

Get(t) == Enter(t, "getting")

Close(t) == Enter(t, "closing")

\* Leave the with block with a client.
Hand(t, i) ==
  /\ client' = [client EXCEPT ![t] = i]
  /\ guard' = NoThread
  /\ Goto(t, "holding")
  /\ UNCHANGED <<lazyVars, tokenVars, engine, calls>>

GetExisting(t) ==
  /\ pc[t] = "getting" /\ guard = NoThread /\ module # None
  /\ Hand(t, module)
  /\ UNCHANGED <<module, pool, closed>>

\* Mutation: the lock is taken for the construction alone.
GetMissing_Unlocked(t) ==
  /\ pc[t] = "getting" /\ module = None
  /\ Goto(t, "loading")
  /\ UNCHANGED <<moduleVars, lazyVars, tokenVars, client, engine, calls>>

GetMissing(t) ==
  /\ pc[t] = "getting" /\ guard = NoThread /\ module = None
  /\ guard' = t
  /\ Goto(t, "loading")
  /\ UNCHANGED <<module, pool, closed, lazyVars, tokenVars, client, engine, calls>>

\* JibitClient.from_config: the client owns a new transport.
Construct(t) ==
  /\ pc[t] = "loading"
  /\ pool' = [pool EXCEPT ![New(t)] = "open"]
  /\ module' = New(t)
  /\ Hand(t, New(t))
  /\ UNCHANGED closed

\* Mutation: the lock is not released when the settings are invalid.
LoadFails_KeepsLock(t) ==
  /\ pc[t] = "loading"
  /\ Goto(t, "idle")
  /\ UNCHANGED <<moduleVars, lazyVars, tokenVars, client, engine, calls>>

\* _load_settings or the validation of the options raises.
LoadFails(t) ==
  /\ pc[t] = "loading"
  /\ guard' = NoThread
  /\ Goto(t, "idle")
  /\ UNCHANGED <<module, pool, closed, lazyVars, tokenVars, client, engine, calls>>

CloseNothing(t) ==
  /\ pc[t] = "closing" /\ guard = NoThread /\ module = None
  /\ Goto(t, "idle")
  /\ UNCHANGED <<moduleVars, lazyVars, tokenVars, client, engine, calls>>

\* The lock is held around the client's own close.
CloseClient(t) ==
  /\ pc[t] = "closing" /\ guard = NoThread /\ module # None
  /\ guard' = t
  /\ client' = [client EXCEPT ![t] = module]
  /\ Goto(t, "checking")
  /\ UNCHANGED <<module, pool, closed, lazyVars, tokenVars, engine, calls>>

Forget(t) ==
  /\ pc[t] = "closed"
  /\ module' = None /\ guard' = NoThread
  /\ client' = [client EXCEPT ![t] = None]
  /\ Goto(t, "idle")
  /\ UNCHANGED <<pool, closed, lazyVars, tokenVars, engine, calls>>

-----------------------------------------------------------------------------
(* JibitClient.close and __exit__, without a lock of their own, whoever    *)
(* else still works with the client or closes it.                          *)

CloseHeld(t) ==
  /\ pc[t] = "holding"
  /\ Goto(t, "checking")
  /\ UNCHANGED <<moduleVars, lazyVars, tokenVars, client, engine, calls>>

\* Back in close_jibit_client, or in the application.
EndClose(t) ==
  IF guard = t THEN Goto(t, "closed") /\ UNCHANGED client
  ELSE Goto(t, "idle") /\ client' = [client EXCEPT ![t] = None]

\* Mutation: the flag is set before the transport is closed.
CheckClosed_SetsFlag(t) ==
  /\ pc[t] = "checking"
  /\ IF closed[client[t]] THEN EndClose(t)
     ELSE Goto(t, "releasing") /\ UNCHANGED client
  /\ closed' = [closed EXCEPT ![client[t]] = TRUE]
  /\ UNCHANGED <<module, guard, pool, lazyVars, tokenVars, engine, calls>>

CheckClosed(t) ==
  /\ pc[t] = "checking"
  /\ IF closed[client[t]] THEN EndClose(t)
     ELSE Goto(t, "releasing") /\ UNCHANGED client
  /\ UNCHANGED <<moduleVars, lazyVars, tokenVars, engine, calls>>

\* httpx.Client.close marks the client first, and closes its connections then
\* (httpx's own test and mark are taken as one step).
BeginRelease(t) ==
  /\ pc[t] = "releasing" /\ pool[client[t]] = "open"
  /\ pool' = [pool EXCEPT ![client[t]] = "marked"]
  /\ Goto(t, "draining")
  /\ UNCHANGED <<module, guard, closed, lazyVars, tokenVars, client, engine, calls>>

\* A second close returns at once, also when the first one is still under way.
SkipRelease(t) ==
  /\ pc[t] = "releasing" /\ pool[client[t]] # "open"
  /\ Goto(t, "flagging")
  /\ UNCHANGED <<moduleVars, lazyVars, tokenVars, client, engine, calls>>

EndRelease(t) ==
  /\ pc[t] = "draining"
  /\ pool' = [pool EXCEPT ![client[t]] = "released"]
  /\ Goto(t, "flagging")
  /\ UNCHANGED <<module, guard, closed, lazyVars, tokenVars, client, engine, calls>>

SetClosed(t) ==
  /\ pc[t] = "flagging"
  /\ closed' = [closed EXCEPT ![client[t]] = TRUE]
  /\ EndClose(t)
  /\ UNCHANGED <<module, guard, pool, lazyVars, tokenVars, engine, calls>>

-----------------------------------------------------------------------------
(* The facade property and authenticated_engine, without a lock.           *)

\* self._payment_gateway is not None.
FindFacade(t) ==
  /\ pc[t] = "holding" /\ facades[client[t]] # None
  /\ engine' = [engine EXCEPT ![t] = facades[client[t]]]
  /\ Goto(t, "ready")
  /\ UNCHANGED <<moduleVars, lazyVars, tokenVars, client, calls>>

MissFacade(t) ==
  /\ pc[t] = "holding" /\ facades[client[t]] = None
  /\ Goto(t, "looking")
  /\ UNCHANGED <<moduleVars, lazyVars, tokenVars, client, engine, calls>>

\* A second engine may be built while another thread is about to store one.
FindEngine(t) ==
  /\ pc[t] = "looking" /\ engines[client[t]] # None
  /\ engine' = [engine EXCEPT ![t] = engines[client[t]]]
  /\ Goto(t, "wrapping")
  /\ UNCHANGED <<moduleVars, lazyVars, tokenVars, client, calls>>

BuildEngine(t) ==
  /\ pc[t] = "looking" /\ engines[client[t]] = None
  /\ engine' = [engine EXCEPT ![t] = New(t)]
  /\ Goto(t, "building")
  /\ UNCHANGED <<moduleVars, lazyVars, tokenVars, client, calls>>

StoreEngine(t) ==
  /\ pc[t] = "building"
  /\ engines' = [engines EXCEPT ![client[t]] = engine[t]]
  /\ Goto(t, "wrapping")
  /\ UNCHANGED <<moduleVars, facades, tokenVars, client, engine, calls>>

\* The property returns what it reads back, its own facade or a later one.
StoreFacade(t) ==
  /\ pc[t] = "wrapping"
  /\ facades' = [facades EXCEPT ![client[t]] = engine[t]]
  /\ Goto(t, "holding")
  /\ UNCHANGED <<moduleVars, engines, tokenVars, client, engine, calls>>

-----------------------------------------------------------------------------
(* A call of the facade: get_token and one request.                        *)

\* Mutation: every authenticator brings its own lock provider.
LockOf_PerEngine(t) == engine[t]

\* All engines of a client share its lock provider, and its token store.
LockOf(t) == client[t]

FinishCall(t) ==
  /\ client' = [client EXCEPT ![t] = None]
  /\ engine' = [engine EXCEPT ![t] = None]
  /\ Goto(t, "idle")
  /\ UNCHANGED <<moduleVars, lazyVars, calls>>

UseToken(t) ==
  /\ pc[t] = "ready" /\ fetches[client[t]] > 0
  /\ Goto(t, "sending")
  /\ UNCHANGED <<moduleVars, lazyVars, tokenVars, client, engine, calls>>

MissToken(t) ==
  /\ pc[t] = "ready" /\ fetches[client[t]] = 0
  /\ Goto(t, "locking")
  /\ UNCHANGED <<moduleVars, lazyVars, tokenVars, client, engine, calls>>

LockToken(t) ==
  /\ pc[t] = "locking" /\ holder[LockOf(t)] = NoThread
  /\ holder' = [holder EXCEPT ![LockOf(t)] = t]
  /\ Goto(t, "locked")
  /\ UNCHANGED <<moduleVars, lazyVars, fetches, client, engine, calls>>

\* The second look.
FindToken(t) ==
  /\ pc[t] = "locked" /\ fetches[client[t]] > 0
  /\ holder' = [holder EXCEPT ![LockOf(t)] = NoThread]
  /\ Goto(t, "sending")
  /\ UNCHANGED <<moduleVars, lazyVars, fetches, client, engine, calls>>

\* Sent over the client's transport, if that is still open.
RequestToken(t) ==
  /\ pc[t] = "locked" /\ fetches[client[t]] = 0 /\ pool[client[t]] = "open"
  /\ Goto(t, "fetching")
  /\ UNCHANGED <<moduleVars, lazyVars, tokenVars, client, engine, calls>>

\* The answer, which may be read although the client is being closed; the
\* token is cached.
GetToken(t) ==
  /\ pc[t] = "fetching"
  /\ fetches' = [fetches EXCEPT ![client[t]] = @ + 1]
  /\ holder' = [holder EXCEPT ![LockOf(t)] = NoThread]
  /\ Goto(t, "sending")
  /\ UNCHANGED <<moduleVars, lazyVars, client, engine, calls>>

\* The request fails, or a closed httpx client raises: through the lock's with
\* block, out of the call.
TokenFails(t) ==
  /\ \/ pc[t] = "fetching"
     \/ pc[t] = "locked" /\ fetches[client[t]] = 0 /\ pool[client[t]] # "open"
  /\ holder' = [holder EXCEPT ![LockOf(t)] = NoThread]
  /\ FinishCall(t)
  /\ UNCHANGED fetches

\* An answer, or an exception when the transport has been closed.
Send(t) == pc[t] = "sending" /\ FinishCall(t) /\ UNCHANGED tokenVars

ThreadStep(t) ==
  \/ GetExisting(t) \/ GetMissing(t) \/ Construct(t) \/ LoadFails(t)
  \/ CloseNothing(t) \/ CloseClient(t) \/ Forget(t)
  \/ CheckClosed(t) \/ SetClosed(t)
  \/ BeginRelease(t) \/ SkipRelease(t) \/ EndRelease(t)
  \/ FindFacade(t) \/ MissFacade(t) \/ FindEngine(t) \/ BuildEngine(t)
  \/ StoreEngine(t) \/ StoreFacade(t)
  \/ UseToken(t) \/ MissToken(t) \/ LockToken(t) \/ FindToken(t)
  \/ RequestToken(t) \/ GetToken(t) \/ TokenFails(t) \/ Send(t)

Next == \E t \in Threads : Get(t) \/ Close(t) \/ CloseHeld(t) \/ ThreadStep(t)

\* Threads are scheduled and settings, releases and provider calls end; both
\* locks are used finitely often, so nothing is assumed of their order.
Fairness == \A t \in Threads : WF_vars(ThreadStep(t))

Spec == Init /\ [][Next]_vars /\ Fairness
-----------------------------------------------------------------------------
(* Properties.                                                             *)

\* Whenever no thread is inside the module's lock, no client sends but the
\* process-wide one: there is no second pool and none is left open, whoever
\* closes what (get_jibit_client, close_jibit_client; docs/django.md: "returns
\* one client per application process").
OneOpenClient ==
  guard = NoThread => \A i \in Ids : pool[i] = "open" => i = module

\* What JibitClient.close promises to threads that close one client without a
\* lock: a client that says it is closed, or that no longer sends, has released
\* its connections or some thread is in the middle of releasing them.  A close
\* that found another one under way may return before that one has released.
ReleasedOrUnderWay ==
  \A i \in Ids : closed[i] \/ pool[i] = "marked" =>
    pool[i] = "released" \/ \E t \in Threads : pc[t] = "draining" /\ client[t] = i

\* Threads that race through the unlocked facade properties may build several
\* engines for one service, and still ask for one token only, because the lock
\* and the store belong to the client (authenticated_engine, ThreadLockProvider).
OneTokenRequest == \A i \in Ids : fetches[i] <= 1

\* Every get_jibit_client and close_jibit_client returns or raises.
ModuleCallsEnd ==
  \A t \in Threads :
    pc[t] \in {"getting", "closing"} ~> pc[t] \in {"idle", "holding"}

=============================================================================
