----------------------- MODULE ClientLifecycleProofs -----------------------
(***************************************************************************)
(* Theorems about ClientLifecycle, for any number of threads and of uses   *)
(* of the module by each: no second or leaked transport, a closed client   *)
(* released or being released, one token request per client.               *)
(***************************************************************************)
EXTENDS ClientLifecycle, TLAPS

-----------------------------------------------------------------------------
(* The inductive invariant.                                                *)

Kinds ==
  /\ module \in Ids \cup {None}
  /\ guard \in Threads \cup {NoThread}
  /\ pool \in [Ids -> {"none", "open", "marked", "released"}]
  /\ closed \in [Ids -> BOOLEAN]
  /\ engines \in [Ids -> Ids \cup {None}]
  /\ facades \in [Ids -> Ids \cup {None}]
  /\ holder \in [Ids -> Threads \cup {NoThread}]
  /\ fetches \in [Ids -> Nat]
  /\ pc \in [Threads -> ControlStates]
  /\ client \in [Threads -> Ids \cup {None}]
  /\ engine \in [Threads -> Ids \cup {None}]
  /\ calls \in [Threads -> 0..MaxCalls]

\* A thread that uses the module has counted the use, and what this use makes
\* is not there before the thread is inside the module's lock.
UseInv ==
  \A t \in Threads :
    /\ pc[t] # "idle" => New(t) \in Ids
    /\ \A n \in 1..MaxCalls : pool[<<t, n>>] # "none" => n <= calls[t]
    /\ pc[t] \in {"getting", "loading"} => pool[New(t)] = "none"

\* Who is in the module's lock, and what it does there: the thread that loads
\* finds no client, the one that closes works with the module's.
GuardInv ==
  \A t \in Threads :
    /\ guard = t => pc[t] \in {"loading", "closed"} \cup Shutting
    /\ pc[t] \in {"loading", "closed"} => guard = t
    /\ pc[t] = "loading" => module = None
    /\ guard = t /\ pc[t] # "loading" => client[t] = module

\* The module's client exists, and so does the one that a thread works with
\* when it is past the module's functions.
HandInv ==
  /\ module # None => pool[module] # "none"
  /\ \A t \in Threads :
       pc[t] \notin {"idle", "getting", "loading", "closing"} =>
         client[t] \in Ids /\ pool[client[t]] # "none"

\* No transport is open but the module's, at any time.
PoolInv == \A i \in Ids : pool[i] = "open" => i = module

\* Nobody gets past the release while the client sends, and a release that has
\* begun has a thread that will end it.
ShutInv ==
  /\ \A i \in Ids : closed[i] => pool[i] \in {"marked", "released"}
  /\ \A t \in Threads :
       pc[t] \in {"flagging", "closed"} => pool[client[t]] \in {"marked", "released"}
  /\ \A i \in Ids : pool[i] = "marked" =>
       \E t \in Threads : pc[t] = "draining" /\ client[t] = i

\* The token lock of a client is held by the one thread that works under it,
\* and a request is only made where there was no token.
TokenInv ==
  /\ \A i \in Ids, t \in Threads :
       holder[i] = t <=> pc[t] \in {"locked", "fetching"} /\ client[t] = i
  /\ \A t \in Threads : pc[t] = "fetching" => fetches[client[t]] = 0
  /\ \A i \in Ids : fetches[i] <= 1

LifeInv ==
  /\ Kinds /\ UseInv /\ GuardInv /\ HandInv /\ PoolInv /\ ShutInv /\ TokenInv

-----------------------------------------------------------------------------
(* Facts.                                                                  *)

LEMMA NoneIsNoIdentity == None \notin Ids
  BY ThreadAssumption DEF None, Ids

\* Init establishes the invariant.
LEMMA LifeInit == Init => LifeInv
  <1> SUFFICES ASSUME Init PROVE LifeInv
    OBVIOUS
  <1>1. Kinds
    BY ThreadAssumption DEF Init, Kinds, ControlStates
  <1>2. UseInv /\ GuardInv /\ HandInv /\ PoolInv /\ ShutInv
    BY ThreadAssumption DEF Init, UseInv, GuardInv, HandInv, PoolInv, ShutInv,
       Shutting, Ids, New
  <1>3. TokenInv
    BY ThreadAssumption DEF Init, TokenInv
  <1> QED BY <1>1, <1>2, <1>3 DEF LifeInv

-----------------------------------------------------------------------------
(* Every step keeps every part.                                            *)

\* A step of one thread, by what it is about.
ModuleStep(t) ==
  \/ Get(t) \/ Close(t) \/ GetExisting(t) \/ GetMissing(t) \/ Construct(t)
  \/ LoadFails(t) \/ CloseNothing(t) \/ CloseClient(t) \/ Forget(t)

ShutStep(t) ==
  \/ CloseHeld(t) \/ CheckClosed(t) \/ SetClosed(t)
  \/ BeginRelease(t) \/ SkipRelease(t) \/ EndRelease(t)

FacadeStep(t) ==
  \/ FindFacade(t) \/ MissFacade(t) \/ FindEngine(t) \/ BuildEngine(t)
  \/ StoreEngine(t) \/ StoreFacade(t)

TokenStep(t) ==
  \/ UseToken(t) \/ MissToken(t) \/ LockToken(t) \/ FindToken(t)
  \/ RequestToken(t) \/ GetToken(t) \/ TokenFails(t) \/ Send(t)

LEMMA StepKinds ==
  Next <=> \E t \in Threads :
             ModuleStep(t) \/ ShutStep(t) \/ FacadeStep(t) \/ TokenStep(t)
  BY DEF Next, ThreadStep, ModuleStep, ShutStep, FacadeStep, TokenStep

LEMMA KeepsKinds ==
  ASSUME LifeInv, NEW t \in Threads,
         ModuleStep(t) \/ ShutStep(t) \/ FacadeStep(t) \/ TokenStep(t)
  PROVE  Kinds'
  <1> USE DEF LifeInv, Kinds, Goto, moduleVars, lazyVars, tokenVars
  <1>1. CASE ModuleStep(t)
    <2>1. CASE Get(t) \/ Close(t)
      BY <2>1, ThreadAssumption DEF Get, Close, Enter, ControlStates
    <2>2. CASE GetExisting(t) \/ GetMissing(t) \/ LoadFails(t)
      BY <2>2 DEF GetExisting, GetMissing, LoadFails, Hand, ControlStates
    <2>3. CASE Construct(t)
      <3>1. New(t) \in Ids
        BY <2>3 DEF UseInv, Construct
      <3> QED BY <2>3, <3>1 DEF Construct, Hand, ControlStates
    <2>4. CASE CloseNothing(t) \/ CloseClient(t) \/ Forget(t)
      BY <2>4 DEF CloseNothing, CloseClient, Forget, ControlStates
    <2> QED BY <1>1, <2>1, <2>2, <2>3, <2>4 DEF ModuleStep
  <1>2. CASE ShutStep(t)
    BY <1>2 DEF ShutStep, CloseHeld, CheckClosed, BeginRelease, SkipRelease,
       EndRelease, SetClosed, EndClose, ControlStates
  <1>3. CASE FacadeStep(t)
    <2>1. CASE FindFacade(t) \/ FindEngine(t)
      <3>1. client[t] \in Ids
        BY <2>1 DEF HandInv, FindFacade, FindEngine
      <3> QED BY <2>1, <3>1 DEF FindFacade, FindEngine, ControlStates
    <2>2. CASE MissFacade(t)
      BY <2>2 DEF MissFacade, ControlStates
    <2>3. CASE BuildEngine(t)
      <3>1. New(t) \in Ids
        BY <2>3 DEF UseInv, BuildEngine
      <3> QED BY <2>3, <3>1 DEF BuildEngine, ControlStates
    <2>4. CASE StoreEngine(t) \/ StoreFacade(t)
      BY <2>4 DEF StoreEngine, StoreFacade, ControlStates
    <2> QED BY <1>3, <2>1, <2>2, <2>3, <2>4 DEF FacadeStep
  <1>4. CASE TokenStep(t)
    BY <1>4 DEF TokenStep, UseToken, MissToken, LockToken, FindToken,
       RequestToken, GetToken, TokenFails, Send, FinishCall, LockOf, ControlStates
  <1> QED BY <1>1, <1>2, <1>3, <1>4

\* What the steps leave alone, and what they do to the state of the module.
LEMMA OtherThreads ==
  ASSUME LifeInv, NEW t \in Threads,
         ModuleStep(t) \/ ShutStep(t) \/ FacadeStep(t) \/ TokenStep(t)
  PROVE  \A s \in Threads \ {t} : /\ pc'[s] = pc[s] /\ client'[s] = client[s]
                                   /\ calls'[s] = calls[s]
  <1> USE DEF LifeInv, Kinds, Goto
  <1>1. CASE ModuleStep(t)
    BY <1>1 DEF ModuleStep, Get, Close, Enter, GetExisting, GetMissing, Construct,
       LoadFails, CloseNothing, CloseClient, Forget, Hand
  <1>2. CASE ShutStep(t)
    BY <1>2 DEF ShutStep, CloseHeld, CheckClosed, BeginRelease, SkipRelease,
       EndRelease, SetClosed, EndClose
  <1>3. CASE FacadeStep(t)
    BY <1>3 DEF FacadeStep, FindFacade, MissFacade, FindEngine, BuildEngine,
       StoreEngine, StoreFacade
  <1>4. CASE TokenStep(t)
    BY <1>4 DEF TokenStep, UseToken, MissToken, LockToken, FindToken, RequestToken,
       GetToken, TokenFails, Send, FinishCall
  <1> QED BY <1>1, <1>2, <1>3, <1>4

\* A step of the facades or of the tokens happens between holding a client and
\* being idle, outside of the module's lock.
LEMMA WorkFrame ==
  ASSUME LifeInv, NEW t \in Threads, FacadeStep(t) \/ TokenStep(t)
  PROVE  /\ UNCHANGED <<module, guard, pool, closed, calls>>
         /\ pc[t] \notin {"idle", "getting", "loading", "closing", "closed"} \cup Shutting
         /\ pc'[t] \notin {"getting", "loading", "closing", "closed"} \cup Shutting
         /\ pc'[t] = "idle" \/ client'[t] = client[t]
  <1> USE DEF LifeInv, Kinds, Goto, moduleVars, Shutting
  <1>1. CASE FacadeStep(t)
    BY <1>1 DEF FacadeStep, FindFacade, MissFacade, FindEngine, BuildEngine,
       StoreEngine, StoreFacade
  <1>2. CASE TokenStep(t)
    BY <1>2 DEF TokenStep, UseToken, MissToken, LockToken, FindToken, RequestToken,
       GetToken, TokenFails, Send, FinishCall
  <1> QED BY <1>1, <1>2

LEMMA KeepsUse ==
  ASSUME LifeInv, NEW t \in Threads,
         ModuleStep(t) \/ ShutStep(t) \/ FacadeStep(t) \/ TokenStep(t)
  PROVE  UseInv'
  <1> USE DEF LifeInv, Kinds, Goto, moduleVars
  <1>1. CASE Get(t) \/ Close(t)
    <2>1. /\ calls[t] \in Nat /\ calls[t] + 1 \in 1..MaxCalls
          /\ calls' = [calls EXCEPT ![t] = calls[t] + 1]
          /\ pool' = pool /\ pc[t] = "idle"
          /\ pc' = [pc EXCEPT ![t] = pc'[t]]
      BY <1>1, ThreadAssumption DEF Get, Close, Enter
    <2>2. \A s \in Threads \ {t} : calls'[s] = calls[s] /\ pc'[s] = pc[s]
      BY <2>1
    <2>3. calls'[t] = calls[t] + 1
      BY <2>1
    <2>4. pool[<<t, calls[t] + 1>>] = "none"
      <3>1. <<t, calls[t] + 1>> \in Ids
        BY <2>1 DEF Ids
      <3>2. ~(calls[t] + 1 <= calls[t])
        BY <2>1
      <3> QED BY <2>1, <3>1, <3>2 DEF UseInv
    <2>5. ASSUME NEW s \in Threads \ {t}
          PROVE  /\ pc'[s] # "idle" => New(s)' \in Ids
                 /\ \A n \in 1..MaxCalls : pool'[<<s, n>>] # "none" => n <= calls'[s]
                 /\ pc'[s] \in {"getting", "loading"} => pool'[New(s)'] = "none"
      BY <2>1, <2>2 DEF UseInv, New
    <2>6. New(t)' = <<t, calls[t] + 1>>
      BY <2>3 DEF New
    <2>7. \A n \in 1..MaxCalls : pool'[<<t, n>>] # "none" => n <= calls'[t]
      <3> SUFFICES ASSUME NEW n \in 1..MaxCalls, pool[<<t, n>>] # "none"
                   PROVE  n <= calls[t] + 1
        BY <2>1, <2>3
      <3>1. n <= calls[t]
        BY DEF UseInv
      <3> QED BY <2>1, <3>1, ThreadAssumption
    <2>8. New(t)' \in Ids /\ pool'[New(t)'] = "none"
      BY <2>1, <2>4, <2>6 DEF Ids
    <2> QED BY <2>5, <2>7, <2>8 DEF UseInv
  <1>2. CASE Construct(t)
    BY <1>2 DEF Construct, Hand, UseInv, New, Ids
  <1>3. CASE GetExisting(t) \/ GetMissing(t) \/ LoadFails(t)
    BY <1>3 DEF GetExisting, GetMissing, LoadFails, Hand, UseInv, New
  <1>4. CASE CloseNothing(t) \/ CloseClient(t) \/ Forget(t)
    BY <1>4 DEF CloseNothing, CloseClient, Forget, UseInv, New
  <1>5. CASE BeginRelease(t) \/ EndRelease(t)
    <2>1. client[t] \in Ids /\ pool[client[t]] # "none"
      BY <1>5 DEF BeginRelease, EndRelease, HandInv
    <2>2. \A i \in Ids : pool'[i] = "none" <=> pool[i] = "none"
      BY <1>5, <2>1 DEF BeginRelease, EndRelease
    <2>3. calls' = calls /\ pc'[t] \notin {"idle", "getting", "loading"}
      BY <1>5 DEF BeginRelease, EndRelease
    <2>4. /\ pc[t] \notin {"idle", "getting", "loading"}
          /\ \A s \in Threads \ {t} : pc'[s] = pc[s]
      BY <1>5 DEF BeginRelease, EndRelease
    <2>5. \A s \in Threads : \A n \in 1..MaxCalls : <<s, n>> \in Ids
      BY DEF Ids
    <2>6. \A s \in Threads : New(s)' = New(s)
      BY <2>3 DEF New
    <2> QED BY <2>2, <2>3, <2>4, <2>5, <2>6, OtherThreads DEF UseInv
  <1>6. CASE CloseHeld(t) \/ CheckClosed(t) \/ SkipRelease(t) \/ SetClosed(t)
    BY <1>6 DEF CloseHeld, CheckClosed, SkipRelease, SetClosed, EndClose, UseInv, New
  <1>7. CASE FacadeStep(t) \/ TokenStep(t)
    BY <1>7, WorkFrame, OtherThreads DEF UseInv, New
  <1> QED BY <1>1, <1>2, <1>3, <1>4, <1>5, <1>6, <1>7 DEF ModuleStep, ShutStep

LEMMA KeepsGuard ==
  ASSUME LifeInv, NEW t \in Threads,
         ModuleStep(t) \/ ShutStep(t) \/ FacadeStep(t) \/ TokenStep(t)
  PROVE  GuardInv'
  <1> USE ThreadAssumption DEF LifeInv, Kinds, Goto, moduleVars, Shutting
  <1>1. CASE Get(t) \/ Close(t)
    BY <1>1 DEF Get, Close, Enter, GuardInv
  <1>2. CASE Construct(t)
    BY <1>2 DEF Construct, Hand, GuardInv
  <1>3. CASE GetExisting(t) \/ GetMissing(t) \/ LoadFails(t)
    BY <1>3 DEF GetExisting, GetMissing, LoadFails, Hand, GuardInv
  <1>4. CASE CloseNothing(t) \/ CloseClient(t) \/ Forget(t)
    BY <1>4 DEF CloseNothing, CloseClient, Forget, GuardInv
  <1>5. CASE ShutStep(t)
    BY <1>5 DEF ShutStep, CloseHeld, CheckClosed, BeginRelease, SkipRelease,
       EndRelease, SetClosed, EndClose, GuardInv
  <1>6. CASE FacadeStep(t) \/ TokenStep(t)
    BY <1>6, WorkFrame, OtherThreads DEF GuardInv
  <1> QED BY <1>1, <1>2, <1>3, <1>4, <1>5, <1>6 DEF ModuleStep

LEMMA KeepsHand ==
  ASSUME LifeInv, NEW t \in Threads,
         ModuleStep(t) \/ ShutStep(t) \/ FacadeStep(t) \/ TokenStep(t)
  PROVE  HandInv'
  <1> USE DEF LifeInv, Kinds, Goto, moduleVars
  <1>1. CASE Get(t) \/ Close(t)
    BY <1>1 DEF Get, Close, Enter, HandInv
  <1>2. CASE Construct(t)
    <2>1. New(t) \in Ids
      BY <1>2 DEF UseInv, Construct
    <2> QED BY <1>2, <2>1 DEF Construct, Hand, HandInv
  <1>3. CASE GetExisting(t) \/ CloseClient(t)
    BY <1>3 DEF GetExisting, CloseClient, Hand, HandInv
  <1>4. CASE GetMissing(t) \/ LoadFails(t) \/ CloseNothing(t) \/ Forget(t)
    BY <1>4 DEF GetMissing, LoadFails, CloseNothing, Forget, HandInv
  <1>5. CASE ShutStep(t)
    BY <1>5 DEF ShutStep, CloseHeld, CheckClosed, BeginRelease, SkipRelease,
       EndRelease, SetClosed, EndClose, HandInv
  <1>6. CASE FacadeStep(t) \/ TokenStep(t)
    BY <1>6, WorkFrame, OtherThreads DEF HandInv
  <1> QED BY <1>1, <1>2, <1>3, <1>4, <1>5, <1>6 DEF ModuleStep

LEMMA KeepsPool ==
  ASSUME LifeInv, NEW t \in Threads,
         ModuleStep(t) \/ ShutStep(t) \/ FacadeStep(t) \/ TokenStep(t)
  PROVE  PoolInv'
  <1> USE DEF LifeInv, Kinds, Goto, moduleVars, PoolInv
  <1>1. CASE Construct(t)
    <2>1. \A i \in Ids : pool[i] # "open"
      BY <1>1, NoneIsNoIdentity DEF Construct, GuardInv
    <2> QED BY <1>1, <2>1 DEF Construct, Hand
  <1>2. CASE Forget(t)
    <2>1. \A i \in Ids : pool[i] # "open"
      BY <1>2 DEF Forget, GuardInv, ShutInv
    <2> QED BY <1>2, <2>1 DEF Forget
  <1>3. CASE BeginRelease(t) \/ EndRelease(t)
    BY <1>3 DEF BeginRelease, EndRelease
  <1>4. ASSUME UNCHANGED <<module, pool>> PROVE PoolInv'
    BY <1>4
  <1>5. CASE Get(t) \/ Close(t) \/ GetExisting(t) \/ GetMissing(t) \/ LoadFails(t)
             \/ CloseNothing(t) \/ CloseClient(t)
    BY <1>4, <1>5 DEF Get, Close, Enter, GetExisting, GetMissing, Hand, LoadFails,
       CloseNothing, CloseClient
  <1>6. CASE CloseHeld(t) \/ CheckClosed(t) \/ SkipRelease(t) \/ SetClosed(t)
    BY <1>4, <1>6 DEF CloseHeld, CheckClosed, SkipRelease, SetClosed
  <1>7. CASE FacadeStep(t) \/ TokenStep(t)
    BY <1>4, <1>7, WorkFrame
  <1> QED BY <1>1, <1>2, <1>3, <1>5, <1>6, <1>7 DEF ModuleStep, ShutStep

LEMMA KeepsShut ==
  ASSUME LifeInv, NEW t \in Threads,
         ModuleStep(t) \/ ShutStep(t) \/ FacadeStep(t) \/ TokenStep(t)
  PROVE  ShutInv'
  <1> USE DEF LifeInv, Kinds, Goto, moduleVars
  <1>1. CASE Get(t) \/ Close(t)
    BY <1>1 DEF Get, Close, Enter, ShutInv
  <1>2. CASE Construct(t)
    <2>1. pool[New(t)] = "none" /\ New(t) \in Ids
      BY <1>2 DEF UseInv, Construct
    <2> QED BY <1>2, <2>1 DEF Construct, Hand, ShutInv
  <1>3. CASE GetExisting(t) \/ GetMissing(t) \/ LoadFails(t)
    BY <1>3 DEF GetExisting, GetMissing, LoadFails, Hand, ShutInv
  <1>4. CASE CloseNothing(t) \/ CloseClient(t) \/ Forget(t)
    BY <1>4 DEF CloseNothing, CloseClient, Forget, ShutInv
  <1>5. CASE ShutStep(t)
    <2>1. pc[t] \in {"holding"} \cup Shutting =>
            client[t] \in Ids /\ pool[client[t]] # "none"
      BY DEF HandInv, Shutting
    <2>2. CASE CloseHeld(t)
      BY <2>2 DEF CloseHeld, ShutInv
    <2>3. CASE CheckClosed(t)
      <3>1. /\ pc[t] = "checking" /\ closed' = closed /\ pool' = pool
            /\ \/ pc'[t] \in {"idle", "releasing"}
               \/ pc'[t] = "closed" /\ client' = client /\ closed[client[t]]
        BY <2>3 DEF CheckClosed, EndClose
      <3>2. client[t] \in Ids
        BY <2>1, <3>1 DEF Shutting
      <3>3. ASSUME NEW s \in Threads, pc'[s] \in {"flagging", "closed"}
            PROVE  pool'[client'[s]] \in {"marked", "released"}
        BY <3>1, <3>2, <3>3, OtherThreads DEF ShutInv
      <3>4. ASSUME NEW i \in Ids, pool'[i] = "marked"
            PROVE  \E s \in Threads : pc'[s] = "draining" /\ client'[s] = i
        BY <3>1, <3>4, OtherThreads DEF ShutInv
      <3> QED BY <3>1, <3>3, <3>4 DEF ShutInv
    <2>4. CASE BeginRelease(t)
      BY <2>1, <2>4 DEF BeginRelease, ShutInv, Shutting
    <2>5. CASE SkipRelease(t)
      BY <2>1, <2>5 DEF SkipRelease, ShutInv, Shutting
    <2>6. CASE EndRelease(t)
      BY <2>1, <2>6 DEF EndRelease, ShutInv, Shutting
    <2>7. CASE SetClosed(t)
      BY <2>1, <2>7 DEF SetClosed, EndClose, ShutInv, Shutting
    <2> QED BY <1>5, <2>2, <2>3, <2>4, <2>5, <2>6, <2>7 DEF ShutStep
  <1>6. CASE FacadeStep(t) \/ TokenStep(t)
    BY <1>6, WorkFrame, OtherThreads DEF ShutInv, Shutting
  <1> QED BY <1>1, <1>2, <1>3, <1>4, <1>5, <1>6 DEF ModuleStep

\* Only a step of the tokens takes or gives back a token lock, enters or leaves
\* the section under it, or counts a request; its thread has a client.
LEMMA TokenFrame ==
  ASSUME LifeInv, NEW t \in Threads, ModuleStep(t) \/ ShutStep(t) \/ FacadeStep(t)
  PROVE  /\ holder' = holder /\ fetches' = fetches
         /\ pc[t] \notin {"locked", "fetching"}
         /\ pc'[t] \notin {"locked", "fetching"}
  <1> USE DEF LifeInv, Kinds, Goto, tokenVars
  <1>1. CASE ModuleStep(t)
    BY <1>1 DEF ModuleStep, Get, Close, Enter, GetExisting, GetMissing, Construct,
       LoadFails, CloseNothing, CloseClient, Forget, Hand
  <1>2. CASE ShutStep(t)
    BY <1>2 DEF ShutStep, CloseHeld, CheckClosed, BeginRelease, SkipRelease,
       EndRelease, SetClosed, EndClose
  <1>3. CASE FacadeStep(t)
    BY <1>3 DEF FacadeStep, FindFacade, MissFacade, FindEngine, BuildEngine,
       StoreEngine, StoreFacade
  <1> QED BY <1>1, <1>2, <1>3

LEMMA KeepsToken ==
  ASSUME LifeInv, NEW t \in Threads,
         ModuleStep(t) \/ ShutStep(t) \/ FacadeStep(t) \/ TokenStep(t)
  PROVE  TokenInv'
  <1> USE ThreadAssumption DEF LifeInv, Kinds, Goto, LockOf
  <1>1. \A s \in Threads \ {t} : pc'[s] = pc[s] /\ client'[s] = client[s]
    BY OtherThreads
  <1>2. pc[t] \in {"ready", "locking", "locked", "fetching"} => client[t] \in Ids
    BY DEF HandInv
  <1>3. CASE ModuleStep(t) \/ ShutStep(t) \/ FacadeStep(t)
    <2>1. /\ holder' = holder /\ fetches' = fetches
          /\ pc[t] \notin {"locked", "fetching"}
          /\ pc'[t] \notin {"locked", "fetching"}
      BY <1>3, TokenFrame
    <2>2. ASSUME NEW i \in Ids, NEW s \in Threads
          PROVE  holder'[i] = s <=> pc'[s] \in {"locked", "fetching"} /\ client'[s] = i
      BY <1>1, <2>1 DEF TokenInv
    <2>3. ASSUME NEW s \in Threads, pc'[s] = "fetching"
          PROVE  fetches'[client'[s]] = 0
      BY <1>1, <2>1, <2>3 DEF TokenInv
    <2> QED BY <2>1, <2>2, <2>3 DEF TokenInv
  <1>4. CASE UseToken(t) \/ MissToken(t)
    BY <1>4 DEF UseToken, MissToken, tokenVars, TokenInv
  <1>5. CASE LockToken(t)
    BY <1>2, <1>5 DEF LockToken, TokenInv
  <1>6. CASE FindToken(t)
    BY <1>2, <1>6 DEF FindToken, TokenInv
  <1>7. CASE RequestToken(t)
    BY <1>2, <1>7 DEF RequestToken, tokenVars, TokenInv
  <1>8. CASE GetToken(t)
    BY <1>2, <1>8 DEF GetToken, TokenInv
  <1>9. CASE TokenFails(t)
    BY <1>2, <1>9 DEF TokenFails, FinishCall, TokenInv
  <1>10. CASE Send(t)
    BY <1>10 DEF Send, FinishCall, tokenVars, TokenInv
  <1> QED BY <1>3, <1>4, <1>5, <1>6, <1>7, <1>8, <1>9, <1>10 DEF TokenStep

-----------------------------------------------------------------------------
(* Theorems.                                                               *)

\* The invariant holds whatever the threads do and in whichever order.
THEOREM LifeInvariance == Spec => []LifeInv
  <1>1. LifeInv /\ [Next]_vars => LifeInv'
    <2> SUFFICES ASSUME LifeInv, [Next]_vars PROVE LifeInv'
      OBVIOUS
    <2>1. CASE Next
      <3>1. PICK t \in Threads :
              ModuleStep(t) \/ ShutStep(t) \/ FacadeStep(t) \/ TokenStep(t)
        BY <2>1, StepKinds
      <3>2. Kinds' /\ UseInv' /\ GuardInv' /\ HandInv'
        BY <3>1, KeepsKinds, KeepsUse, KeepsGuard, KeepsHand
      <3>3. PoolInv' /\ ShutInv' /\ TokenInv'
        BY <3>1, KeepsPool, KeepsShut, KeepsToken
      <3> QED BY <3>2, <3>3 DEF LifeInv
    <2>2. CASE UNCHANGED vars
      BY <2>2 DEF vars, LifeInv, Kinds, UseInv, New, GuardInv, HandInv, PoolInv,
         ShutInv, TokenInv
    <2> QED BY <2>1, <2>2
  <1> QED BY <1>1, LifeInit, PTL DEF Spec

\* What a lock records is where its holder is (get_jibit_client,
\* close_jibit_client, ServiceAuthenticator.get_token).
THEOREM TypeCorrect == Spec => []TypeOK
  <1>1. LifeInv => TypeOK
    BY DEF LifeInv, Kinds, GuardInv, TokenInv, TypeOK
  <1> QED BY <1>1, LifeInvariance, PTL

\* However many threads open, use and close clients, there is no second pool
\* and none is left open (django/client.py).
THEOREM ClientIsTheOnlyOne == Spec => []OneOpenClient
  <1>1. LifeInv => OneOpenClient
    BY DEF LifeInv, PoolInv, OneOpenClient
  <1> QED BY <1>1, LifeInvariance, PTL

\* However many threads close one client at once, a client that says it is
\* closed has released its connections, or one of them is doing so
\* (JibitClient.close, HttpxTransport.close).
THEOREM CloseReleases == Spec => []ReleasedOrUnderWay
  <1>1. LifeInv => ReleasedOrUnderWay
    BY DEF LifeInv, Kinds, ShutInv, ReleasedOrUnderWay
  <1> QED BY <1>1, LifeInvariance, PTL

\* However many engines the races of the facade properties build, the client
\* asks for one token (JibitClient.authenticated_engine, ThreadLockProvider).
THEOREM EnginesShareAToken == Spec => []OneTokenRequest
  <1>1. LifeInv => OneTokenRequest
    BY DEF LifeInv, TokenInv, OneTokenRequest
  <1> QED BY <1>1, LifeInvariance, PTL

=============================================================================
