------------------------ MODULE TokenLifecycleProofs ------------------------
(***************************************************************************)
(* Theorems about TokenLifecycle for any workers, lock domains, lifetimes  *)
(* and bounds.  Where a theorem assumes Lease = Never it is about a lock   *)
(* that is held until it is released (ThreadLockProvider); the run of      *)
(* TokenLeaseOverlap.cfg shows why a Redis lease does not qualify.         *)
(***************************************************************************)
EXTENDS TokenLifecycle, TLAPS

\* Whoever uses a token has one.
UsingInv == \A w \in Workers : pc[w] = "using" => using[w] \in Tokens

TypeInv == TypeOK /\ UsingInv

\* Whoever is in the locked section holds the lock of its domain.
LockInv ==
  \A w \in Workers : pc[w] \in Critical => holder[DomainOf[w]] = w

\* Answers are for those who asked.
AskedInv ==
  \A w \in Workers : answer[w] # NoToken => pc[w] \in {"refreshing", "acquiring"}

\* A token that arrives is newer than the one its worker saw rejected, and no
\* first attempt has seen a rejection.
IdInv ==
  /\ Cached => cache.id <= issued
  /\ \A w \in Workers :
       /\ pc[w] \in {"idle", "checking", "purging"} => rejected[w] = 0
       /\ pc[w] = "using" => using[w].id <= issued
       /\ pc[w] = "using" => rejected[w] # using[w].id
       /\ rejected[w] <= issued
       /\ answer[w] # NoToken => rejected[w] < answer[w].id /\ answer[w].id <= issued

\* Times: what the client believes of a token is at most Latency too late, an
\* answer and a reading of the clock are recent.
FreshInv ==
  /\ Cached => cache.expires \in Nat /\ cache.expires <= cache.dies + Latency
  /\ \A w \in Workers :
       /\ answer[w] # NoToken => now + AccessTtl <= answer[w].dies + Latency
       /\ pc[w] \in {"checking", "rechecking"} => now <= stamp[w] + Pause

\* No reading of the clock is from the future.
StampInv == \A w \in Workers : stamp[w] <= now

\* Under one lock the newest token is the one on its way to its worker, then
\* the cached one; nobody uses one that was never issued.
NewestInv ==
  /\ \A w \in Workers : using[w] # NoToken => using[w].id <= issued
  /\ \A w \in Workers : answer[w] # NoToken =>
       /\ Cached => cache.id <= answer[w].id
       /\ \A v \in Workers : using[v] # NoToken => using[v].id <= answer[w].id
  /\ CacheIsNewest

-----------------------------------------------------------------------------
(* Types.                                                                  *)

\* _parse_token turns an answer into a complete token.
LEMMA ParseType ==
  ASSUME TypeOK, NEW token \in Tokens
  PROVE  Parse(token) \in Tokens /\ Parse(token).id = token.id
  <1> DEFINE e == CASE ExpirySource = "jwt"  -> token.dies
                    [] ExpirySource = "ttl"  -> now + AccessTtl
                    [] ExpirySource = "none" -> Never
             r == IF token.refresh = 0 \/ RefreshTtl = Never THEN token.refresh
                  ELSE now + RefreshTtl
  <1>1. e \in Nat \cup {Never}
    BY TimeAssumption DEF TypeOK, Tokens
  <1>2. r \in Nat \cup {Never}
    BY TimeAssumption DEF TypeOK, Tokens
  <1>3. Parse(token) = [token EXCEPT !.expires = e, !.refresh = r]
    BY DEF Parse
  <1> HIDE DEF e, r
  <1> QED BY <1>1, <1>2, <1>3 DEF Tokens

\* What _safe_get returns is a token.
LEMMA CachedType == ASSUME TypeOK, Cached PROVE cache \in Tokens
  BY DEF TypeOK, Cached

\* An answer on its way to a worker is a token.
LEMMA AnswerType ==
  ASSUME TypeOK, NEW w \in Workers, answer[w] # NoToken
  PROVE  answer[w] \in Tokens
  BY DEF TypeOK

\* The locals after a call has returned or a token was handed over.
LEMMA ReturnType ==
  ASSUME TypeInv, NEW w \in Workers, Return(w)
  PROVE  /\ pc' \in [Workers -> ControlStates]
         /\ stamp' \in [Workers -> Nat]
         /\ using' \in [Workers -> Tokens \cup {NoToken}]
         /\ rejected' \in [Workers -> Nat]
         /\ UsingInv'
  BY DEF TypeInv, TypeOK, UsingInv, Return, Goto, ControlStates

\* The locals after a token was handed to a request.
LEMMA HandType ==
  ASSUME TypeInv, NEW w \in Workers, NEW token \in Tokens, Hand(w, token)
  PROVE  /\ pc' \in [Workers -> ControlStates]
         /\ stamp' \in [Workers -> Nat]
         /\ using' \in [Workers -> Tokens \cup {NoToken}]
         /\ rejected' \in [Workers -> Nat]
         /\ UsingInv'
  BY DEF TypeInv, TypeOK, UsingInv, Hand, Goto, ControlStates

\* Giving a lock back keeps the lock variables in their types.
LEMMA ReleaseType ==
  ASSUME TypeOK, NEW w \in Workers, Release(w)
  PROVE  /\ holder' \in [Domains -> Workers \cup {Nobody}]
         /\ since' \in [Domains -> Nat]
  BY DomainAssumption DEF TypeOK, Release

\* Leaving the locked section, with a token or with an exception.
LEMMA LeaveType ==
  ASSUME TypeInv, NEW w \in Workers, NEW token \in Tokens, LeaveWith(w, token)
  PROVE  /\ holder' \in [Domains -> Workers \cup {Nobody}]
         /\ since' \in [Domains -> Nat]
         /\ pc' \in [Workers -> ControlStates]
         /\ stamp' \in [Workers -> Nat]
         /\ using' \in [Workers -> Tokens \cup {NoToken}]
         /\ rejected' \in [Workers -> Nat]
         /\ UsingInv'
  BY ReleaseType, ReturnType, HandType DEF LeaveWith, TypeInv

\* Steps that move the program counter and at most delete or stamp.
LEMMA PlainStepType ==
  ASSUME TypeInv, NEW w \in Workers,
         \/ Call(w) \/ FastMiss(w) \/ Purge(w) \/ Lock(w) \/ Request(w)
         \/ LoseAnswer(w) \/ RefreshRejected(w) \/ Reject(w)
  PROVE  TypeInv'
  <1> USE DomainAssumption DEF TypeInv, TypeOK, UsingInv, Goto, ControlStates, Critical
  <1>1. CASE Call(w) BY <1>1 DEF Call
  <1>2. CASE FastMiss(w) BY <1>2 DEF FastMiss
  <1>3. CASE Purge(w) BY <1>3 DEF Purge
  <1>4. CASE Lock(w) BY <1>4 DEF Lock
  <1>5. CASE Request(w) BY <1>5 DEF Request
  <1>6. CASE LoseAnswer(w) BY <1>6 DEF LoseAnswer
  <1>7. CASE RefreshRejected(w) BY <1>7 DEF RefreshRejected
  <1>8. CASE Reject(w) BY <1>8 DEF Reject
  <1> QED BY <1>1, <1>2, <1>3, <1>4, <1>5, <1>6, <1>7, <1>8

\* Steps that end a call, hand a token over or take an answer.
LEMMA OtherStepType ==
  ASSUME TypeInv, NEW w \in Workers,
         \/ FastHit(w) \/ Reuse(w) \/ Issue(w) \/ Receive(w) \/ Abort(w)
         \/ Finish(w) \/ Recover(w) \/ Invalidate(w) \/ Crash(w) \/ StoreRaises(w)
  PROVE  TypeInv'
  <1>1. CASE FastHit(w)
    BY <1>1, CachedType, HandType DEF FastHit, TypeInv, TypeOK
  <1>2. CASE Reuse(w)
    BY <1>2, CachedType, LeaveType DEF Reuse, Reusable, TypeInv, TypeOK
  <1>3. CASE Issue(w)
    <2>1. PICK h \in BOOLEAN :
            answer' = [answer EXCEPT ![w] =
              [id |-> issued + 1, expires |-> Never, dies |-> now + AccessTtl,
               refresh |-> IF h THEN Never ELSE 0]]
      BY <1>3 DEF Issue
    <2>2. [id |-> issued + 1, expires |-> Never, dies |-> now + AccessTtl,
           refresh |-> IF h THEN Never ELSE 0] \in Tokens
      BY TimeAssumption DEF TypeInv, TypeOK, Tokens
    <2>3. answer' \in [Workers -> Tokens \cup {NoToken}]
      BY <2>1, <2>2 DEF TypeInv, TypeOK
    <2> QED BY <1>3, <2>3 DEF Issue, TypeInv, TypeOK, UsingInv
  <1>4. CASE Receive(w)
    <2>1. Parse(answer[w]) \in Tokens
      BY <1>4, AnswerType, ParseType DEF Receive, TypeInv
    <2> QED BY <1>4, <2>1, LeaveType DEF Receive, TypeInv, TypeOK
  <1>5. CASE Abort(w)
    BY <1>5, ReleaseType, ReturnType DEF Abort, TypeInv, TypeOK
  <1>6. CASE Finish(w)
    BY <1>6, ReturnType DEF Finish, TypeInv, TypeOK
  <1>7. CASE Recover(w)
    BY <1>7 DEF Recover, Goto, TypeInv, TypeOK, UsingInv, ControlStates, Tokens
  <1>8. CASE Invalidate(w)
    BY <1>8, ReturnType DEF Invalidate, TypeInv, TypeOK
  <1>9. CASE Crash(w)
    BY <1>9 DEF Crash, Goto, TypeInv, TypeOK, UsingInv, ControlStates
  <1>10. CASE StoreRaises(w)
    <2>1. cache' \in Tokens \cup {NoToken}
      BY <1>10, AnswerType, ParseType DEF StoreRaises, TypeInv
    <2> QED BY <1>10, <2>1, ReleaseType, ReturnType DEF StoreRaises, TypeInv, TypeOK
  <1> QED BY <1>1, <1>2, <1>3, <1>4, <1>5, <1>6, <1>7, <1>8, <1>9, <1>10

\* Every step keeps the types.
LEMMA TypeStep == TypeInv /\ [Next]_vars => TypeInv'
  <1> SUFFICES ASSUME TypeInv, [Next]_vars PROVE TypeInv'
    OBVIOUS
  <1>1. CASE UNCHANGED vars
    BY <1>1 DEF vars, TypeInv, TypeOK, UsingInv
  <1>2. ASSUME NEW w \in Workers, Call(w) \/ WorkerStep(w) \/ Crash(w)
        PROVE  TypeInv'
    BY <1>2, PlainStepType, OtherStepType DEF WorkerStep
  <1>3. ASSUME NEW d \in Domains, LeaseExpires(d) PROVE TypeInv'
    BY <1>3 DEF LeaseExpires, TypeInv, TypeOK, UsingInv
  <1>4. CASE Tick
    BY <1>4 DEF Tick, TypeInv, TypeOK, UsingInv
  <1>5. CASE Evict
    BY <1>5 DEF Evict, TypeInv, TypeOK, UsingInv
  <1> QED BY <1>1, <1>2, <1>3, <1>4, <1>5 DEF Next

\* The types hold at the start.
LEMMA TypeInit == Init => TypeInv
  BY DEF Init, TypeInv, TypeOK, UsingInv, ControlStates

\* The types and the token of a worker that is using one, in every state.
LEMMA TypeInvariance == Spec => []TypeInv
  BY TypeInit, TypeStep, PTL DEF Spec

\* Every variable of the token lifecycle keeps its type: in particular a worker
\* that sends a request always has a token (get_token, recover).
THEOREM TypeCorrect == Spec => []TypeOK
  <1>1. TypeInv => TypeOK
    BY DEF TypeInv
  <1> QED BY <1>1, TypeInvariance, PTL

-----------------------------------------------------------------------------
(* Mutual exclusion.                                                       *)

\* Without a lease, every step keeps the lock with whoever is inside.
LEMMA LockStep ==
  ASSUME Lease = Never, TypeInv, LockInv, [Next]_vars
  PROVE  LockInv'
  <1> USE DEF TypeInv, TypeOK, LockInv, Critical
  <1>1. CASE UNCHANGED vars
    BY <1>1 DEF vars
  <1>2. ASSUME NEW w \in Workers, WorkerStep(w) PROVE LockInv'
    <2>1. CASE FastHit(w) \/ FastMiss(w) \/ Purge(w) \/ Request(w)
               \/ Finish(w) \/ Recover(w) \/ Reject(w) \/ Invalidate(w)
      BY <2>1 DEF FastHit, FastMiss, Purge, Request, Finish, Recover, Reject,
                  Invalidate, Hand, Return, Goto
    <2>2. CASE Issue(w) \/ LoseAnswer(w) \/ RefreshRejected(w)
      BY <2>2 DEF Issue, LoseAnswer, RefreshRejected, Goto
    <2>3. CASE Lock(w)
      BY <2>3, MarkerAssumption, DomainAssumption DEF Lock, Goto
    <2>4. CASE Reuse(w) \/ Receive(w)
      BY <2>4, DomainAssumption
      DEF Reuse, Receive, LeaveWith, Release, Owns, Hand, Return, Goto
    <2>5. CASE Abort(w) \/ StoreRaises(w)
      BY <2>5, DomainAssumption DEF Abort, StoreRaises, Release, Owns, Return, Goto
    <2> QED BY <1>2, <2>1, <2>2, <2>3, <2>4, <2>5 DEF WorkerStep
  <1>3. ASSUME NEW w \in Workers, Call(w) \/ Crash(w) PROVE LockInv'
    BY <1>3 DEF Call, Crash, Goto
  <1>4. ASSUME NEW d \in Domains, LeaseExpires(d) PROVE LockInv'
    BY <1>4 DEF LeaseExpires
  <1>5. CASE Tick \/ Evict
    BY <1>5 DEF Tick, Evict
  <1> QED BY <1>1, <1>2, <1>3, <1>4, <1>5 DEF Next

\* If everyone inside holds the lock of its domain, two workers inside the same
\* domain are one.
LEMMA LockExcludes ==
  ASSUME LockInv PROVE SingleFlight
  BY DEF LockInv, SingleFlight

\* With a lock that is held until it is released, token requests of one lock
\* domain never overlap, for any number of threads (ThreadLockProvider).
THEOREM SingleFlightHolds ==
  ASSUME Lease = Never
  PROVE  Spec => []SingleFlight
  <1>1. Init => LockInv
    BY DEF Init, LockInv, Critical
  <1>2. TypeInv /\ LockInv /\ [Next]_vars => LockInv'
    BY LockStep
  <1>3. LockInv => SingleFlight
    BY LockExcludes
  <1> QED BY <1>1, <1>2, <1>3, TypeInvariance, PTL DEF Spec

-----------------------------------------------------------------------------
(* A replay carries another token.                                         *)

\* Every step keeps the invariant about the tokens asked for.
LEMMA AskedStep ==
  ASSUME TypeInv, AskedInv, [Next]_vars
  PROVE  AskedInv'
  <1> USE DEF TypeInv, TypeOK, AskedInv
  <1>1. CASE UNCHANGED vars
    BY <1>1 DEF vars
  <1>2. ASSUME NEW w \in Workers, WorkerStep(w) PROVE AskedInv'
    <2>1. CASE FastHit(w) \/ FastMiss(w) \/ Purge(w) \/ Lock(w) \/ Request(w)
      BY <2>1 DEF FastHit, FastMiss, Purge, Lock, Request, Hand, Goto
    <2>2. CASE Issue(w) \/ LoseAnswer(w) \/ RefreshRejected(w)
      BY <2>2 DEF Issue, LoseAnswer, RefreshRejected, Goto
    <2>3. CASE Reuse(w) \/ Receive(w) \/ Abort(w) \/ StoreRaises(w)
      BY <2>3 DEF Reuse, Receive, Abort, StoreRaises, LeaveWith, Hand, Return, Goto
    <2>4. CASE Finish(w) \/ Recover(w) \/ Reject(w) \/ Invalidate(w)
      BY <2>4 DEF Finish, Recover, Reject, Invalidate, Return, Goto
    <2> QED BY <1>2, <2>1, <2>2, <2>3, <2>4 DEF WorkerStep
  <1>3. ASSUME NEW w \in Workers, Call(w) \/ Crash(w) PROVE AskedInv'
    BY <1>3 DEF Call, Crash, Goto
  <1>4. ASSUME NEW d \in Domains, LeaseExpires(d) PROVE AskedInv'
    BY <1>4 DEF LeaseExpires
  <1>5. CASE Tick \/ Evict
    BY <1>5 DEF Tick, Evict
  <1> QED BY <1>1, <1>2, <1>3, <1>4, <1>5 DEF Next

\* The invariant about the tokens asked for, in every state.
LEMMA AskedInvariance == Spec => []AskedInv
  <1>1. Init => AskedInv
    BY DEF Init, AskedInv
  <1>2. TypeInv /\ AskedInv /\ [Next]_vars => AskedInv'
    BY AskedStep
  <1> QED BY <1>1, <1>2, TypeInvariance, PTL DEF Spec

\* Every step keeps the invariant about token identities.
LEMMA IdStep ==
  ASSUME TypeInv, AskedInv, IdInv, [Next]_vars
  PROVE  IdInv'
  <1> USE DEF TypeInv, TypeOK, UsingInv, IdInv, Tokens, Cached
  <1>1. CASE UNCHANGED vars
    BY <1>1 DEF vars
  <1>2. ASSUME NEW w \in Workers, WorkerStep(w) PROVE IdInv'
    <2>1. CASE FastHit(w)
      BY <2>1 DEF FastHit, Hand, Goto
    <2>2. CASE FastMiss(w) \/ Purge(w) \/ Lock(w) \/ Request(w)
      BY <2>2 DEF FastMiss, Purge, Lock, Request, Goto
    <2>3. CASE Reuse(w)
      BY <2>3 DEF Reuse, Reusable, LeaveWith, Hand, Return, Goto
    <2>4. CASE Issue(w)
      <3>1. PICK h \in BOOLEAN :
              answer' = [answer EXCEPT ![w] =
                [id |-> issued + 1, expires |-> Never, dies |-> now + AccessTtl,
                 refresh |-> IF h THEN Never ELSE 0]]
        BY <2>4 DEF Issue
      <3>2. answer'[w].id = issued + 1 /\ \A v \in Workers \ {w} : answer'[v] = answer[v]
        BY <3>1
      <3> QED BY <2>4, <3>2 DEF Issue
    <2>5. CASE Receive(w)
      <3>1. Parse(answer[w]) \in Tokens /\ Parse(answer[w]).id = answer[w].id
        BY <2>5, AnswerType, ParseType DEF Receive
      <3> QED BY <2>5, <3>1 DEF Receive, LeaveWith, Hand, Return, Goto
    <2>6. CASE LoseAnswer(w) \/ RefreshRejected(w) \/ Reject(w)
      BY <2>6 DEF LoseAnswer, RefreshRejected, Reject, Goto
    <2>7. CASE Abort(w) \/ Finish(w) \/ Invalidate(w)
      BY <2>7 DEF Abort, Finish, Invalidate, Return, Goto
    <2>8. CASE Recover(w)
      BY <2>8 DEF Recover, Goto, AskedInv
    <2>9. CASE StoreRaises(w)
      <3>1. cache' = NoToken \/ cache'.id <= issued
        BY <2>9, AnswerType, ParseType DEF StoreRaises
      <3> QED BY <2>9, <3>1 DEF StoreRaises, Return, Goto
    <2> QED BY <1>2, <2>1, <2>2, <2>3, <2>4, <2>5, <2>6, <2>7, <2>8, <2>9
            DEF WorkerStep
  <1>3. ASSUME NEW w \in Workers, Call(w) \/ Crash(w) PROVE IdInv'
    BY <1>3 DEF Call, Crash, Goto
  <1>4. ASSUME NEW d \in Domains, LeaseExpires(d) PROVE IdInv'
    BY <1>4 DEF LeaseExpires
  <1>5. CASE Tick \/ Evict
    BY <1>5 DEF Tick, Evict
  <1> QED BY <1>1, <1>2, <1>3, <1>4, <1>5 DEF Next

\* The second request of a call never carries the token whose rejection caused
\* it, for any number of workers, with or without a lease.
THEOREM ReplaysUseAnotherToken == Spec => []ReplayUsesAnotherToken
  <1>1. Init => IdInv
    BY DEF Init, IdInv, Cached
  <1>2. TypeInv /\ AskedInv /\ IdInv /\ [Next]_vars => IdInv'
    BY IdStep
  <1>3. IdInv => ReplayUsesAnotherToken
    BY DEF IdInv, ReplayUsesAnotherToken
  <1> QED BY <1>1, <1>2, <1>3, TypeInvariance, AskedInvariance, PTL DEF Spec

-----------------------------------------------------------------------------
(* No request for a token that is already there.                           *)

\* Every step keeps the invariant about readings of the clock.
LEMMA StampStep ==
  ASSUME TypeInv, StampInv, [Next]_vars
  PROVE  StampInv'
  <1> USE DEF TypeInv, TypeOK, StampInv
  <1>1. CASE UNCHANGED vars
    BY <1>1 DEF vars
  <1>2. ASSUME NEW w \in Workers, WorkerStep(w) PROVE StampInv'
    <2>1. CASE FastHit(w) \/ FastMiss(w) \/ Purge(w) \/ Lock(w) \/ Request(w)
      BY <2>1 DEF FastHit, FastMiss, Purge, Lock, Request, Hand
    <2>2. CASE Issue(w) \/ LoseAnswer(w) \/ RefreshRejected(w)
      BY <2>2 DEF Issue, LoseAnswer, RefreshRejected
    <2>3. CASE Reuse(w) \/ Receive(w) \/ Abort(w) \/ StoreRaises(w)
      BY <2>3 DEF Reuse, Receive, Abort, StoreRaises, LeaveWith, Hand, Return
    <2>4. CASE Finish(w) \/ Recover(w) \/ Reject(w) \/ Invalidate(w)
      BY <2>4 DEF Finish, Recover, Reject, Invalidate, Return
    <2> QED BY <1>2, <2>1, <2>2, <2>3, <2>4 DEF WorkerStep
  <1>3. ASSUME NEW w \in Workers, Call(w) \/ Crash(w) PROVE StampInv'
    BY <1>3 DEF Call, Crash
  <1>4. ASSUME NEW d \in Domains, LeaseExpires(d) PROVE StampInv'
    BY <1>4 DEF LeaseExpires
  <1>5. CASE Tick \/ Evict
    BY <1>5 DEF Tick, Evict
  <1> QED BY <1>1, <1>2, <1>3, <1>4, <1>5 DEF Next

\* A token that is too old now was not valid at an earlier reading either way.
LEMMA ValidEarlier ==
  ASSUME NEW token \in Tokens, NEW s \in Nat, NEW t \in Nat, s <= t,
         AccessValid(token, t)
  PROVE  AccessValid(token, s)
  BY TimeAssumption DEF AccessValid, Tokens

\* Every step keeps RequestsOnlyWhenNeeded if there is one lock without a lease.
LEMMA NeededStep ==
  ASSUME Lease = Never, \A v, w \in Workers : DomainOf[v] = DomainOf[w],
         TypeInv, LockInv, AskedInv, StampInv, RequestsOnlyWhenNeeded, [Next]_vars
  PROVE  RequestsOnlyWhenNeeded'
  <1> DEFINE Asking(w) == pc[w] \in {"refreshing", "acquiring"}
  <1> SUFFICES ASSUME NEW v \in Workers, Asking(v)', Cached',
                      AccessValid(cache, now)'
               PROVE  cache'.id = rejected'[v]
    BY DEF RequestsOnlyWhenNeeded
  <1> USE DEF TypeInv, TypeOK, RequestsOnlyWhenNeeded
  <1>1. CASE UNCHANGED vars
    BY <1>1 DEF vars, Cached, AccessValid
  <1>2. ASSUME NEW w \in Workers, WorkerStep(w) PROVE cache'.id = rejected'[v]
    <2>1. CASE FastHit(w) \/ FastMiss(w) \/ Lock(w) \/ Recover(w) \/ Reject(w)
               \/ Issue(w) \/ LoseAnswer(w) \/ RefreshRejected(w)
      BY <2>1 DEF FastHit, FastMiss, Lock, Recover, Reject, Issue, LoseAnswer,
                  RefreshRejected, Hand, Goto, Cached, AccessValid
    <2>2. CASE Purge(w) \/ Invalidate(w)
      BY <2>2 DEF Purge, Invalidate, Cached
    <2>3. CASE Finish(w) \/ Abort(w) \/ Reuse(w)
      BY <2>3 DEF Finish, Abort, Reuse, LeaveWith, Hand, Return, Goto, Cached,
                  AccessValid
    <2>4. CASE Request(w)
      <3>1. CASE v # w
        BY <2>4, <3>1 DEF Request, Goto, Cached, AccessValid
      <3>2. CASE v = w
        <4>1. ~Reusable(w) /\ Cached /\ AccessValid(cache, now)
              /\ cache' = cache /\ rejected' = rejected
          BY <2>4, <3>2 DEF Request, Cached, AccessValid
        <4>2. Clock(w) \in Nat /\ Clock(w) <= now /\ cache \in Tokens
          BY <4>1, CachedType DEF Clock, StampInv
        <4>3. AccessValid(cache, Clock(w))
          BY <4>1, <4>2, ValidEarlier
        <4> QED BY <3>2, <4>1, <4>3 DEF Reusable
      <3> QED BY <3>1, <3>2
    <2>5. CASE Receive(w)
      <3>1. pc[w] \in {"refreshing", "acquiring"} /\ answer[w] # NoToken
        BY <2>5 DEF Receive, AskedInv
      <3>2. pc'[w] \notin {"refreshing", "acquiring"}
        BY <2>5 DEF Receive, LeaveWith, Hand, Return, Goto
      <3>3. v # w /\ pc[v] \in {"refreshing", "acquiring"}
        BY <2>5, <3>2 DEF Receive, LeaveWith, Hand, Return, Goto
      <3> QED BY <3>1, <3>3 DEF LockInv, Critical
    <2>6. CASE StoreRaises(w)
      <3>1. cache' # NoToken
        BY DEF Cached
      <3>2. pc[w] \in {"refreshing", "acquiring"}
        BY <2>6, <3>1 DEF StoreRaises, AskedInv
      <3>3. v # w /\ pc[v] \in {"refreshing", "acquiring"}
        BY <2>6 DEF StoreRaises, Return, Goto
      <3> QED BY <3>2, <3>3 DEF LockInv, Critical
    <2> QED BY <1>2, <2>1, <2>2, <2>3, <2>4, <2>5, <2>6 DEF WorkerStep
  <1>3. ASSUME NEW w \in Workers, Call(w) \/ Crash(w)
        PROVE  cache'.id = rejected'[v]
    BY <1>3 DEF Call, Crash, Goto, Cached, AccessValid
  <1>4. ASSUME NEW d \in Domains, LeaseExpires(d) PROVE cache'.id = rejected'[v]
    BY <1>4 DEF LeaseExpires, Cached, AccessValid
  <1>5. CASE Tick
    <2>1. Cached /\ cache' = cache /\ rejected' = rejected /\ pc' = pc
      BY <1>5 DEF Tick, Cached
    <2>2. AccessValid(cache, now)
      BY <1>5, <2>1, ValidEarlier, CachedType DEF Tick, AccessValid
    <2> QED BY <2>1, <2>2
  <1>6. CASE Evict
    BY <1>6 DEF Evict, Cached
  <1> QED BY <1>1, <1>2, <1>3, <1>4, <1>5, <1>6 DEF Next

\* If all workers share one lock that is held until it is released, nobody asks
\* for a token while a usable one is cached: the second look inside the lock
\* prevents the stampede that waiting for it prepares.
THEOREM NoStampede ==
  ASSUME Lease = Never, \A v, w \in Workers : DomainOf[v] = DomainOf[w]
  PROVE  Spec => []RequestsOnlyWhenNeeded
  <1>1. Init => LockInv /\ StampInv /\ RequestsOnlyWhenNeeded
    BY DEF Init, LockInv, Critical, StampInv, RequestsOnlyWhenNeeded
  <1>2. TypeInv /\ LockInv /\ [Next]_vars => LockInv'
    BY LockStep
  <1>3. TypeInv /\ StampInv /\ [Next]_vars => StampInv'
    BY StampStep
  <1>4. TypeInv /\ LockInv /\ AskedInv /\ StampInv /\ RequestsOnlyWhenNeeded
        /\ [Next]_vars => RequestsOnlyWhenNeeded'
    BY NeededStep
  <1> QED BY <1>1, <1>2, <1>3, <1>4, TypeInvariance, AskedInvariance, PTL DEF Spec

-----------------------------------------------------------------------------
(* The store never falls behind.                                           *)

\* Under one lock that is held until it is released, at most one answer is on
\* its way.
LEMMA OneAnswer ==
  ASSUME \A v, w \in Workers : DomainOf[v] = DomainOf[w], LockInv, AskedInv,
         NEW v \in Workers, NEW w \in Workers,
         answer[v] # NoToken, answer[w] # NoToken
  PROVE  v = w
  BY DEF LockInv, AskedInv, Critical

\* Every step keeps the order of the tokens.
LEMMA NewestStep ==
  ASSUME \A v, w \in Workers : DomainOf[v] = DomainOf[w],
         TypeInv, LockInv, AskedInv, IdInv, NewestInv, [Next]_vars
  PROVE  NewestInv'
  <1> USE DEF TypeInv, TypeOK, UsingInv, NewestInv, CacheIsNewest, Cached, Goto
  <1>1. CASE UNCHANGED vars
    BY <1>1 DEF vars
  <1>2. ASSUME NEW w \in Workers, WorkerStep(w) PROVE NewestInv'
    <2>1. CASE FastHit(w)
      <3>1. /\ cache.id <= issued /\ issued' = issued
            /\ cache' = cache /\ answer' = answer
            /\ using' = [using EXCEPT ![w] = cache] /\ Cached
        BY <2>1 DEF FastHit, Hand, IdInv
      <3>2. cache.id \in Nat
        BY <3>1, CachedType DEF Tokens
      <3> QED BY <3>1, <3>2
    <2>2. CASE Reuse(w)
      <3>1. /\ cache.id <= issued /\ issued' = issued /\ cache.id \in Nat
            /\ cache' = cache /\ answer' = answer /\ Cached
        BY <2>2, CachedType DEF Reuse, Reusable, IdInv, Tokens
      <3>2. using' \in {[using EXCEPT ![w] = cache], [using EXCEPT ![w] = NoToken]}
        BY <2>2 DEF Reuse, LeaveWith, Hand, Return
      <3> QED BY <3>1, <3>2
    <2>3. CASE Issue(w)
      <3>1. PICK h \in BOOLEAN :
              answer' = [answer EXCEPT ![w] =
                [id |-> issued + 1, expires |-> Never, dies |-> now + AccessTtl,
                 refresh |-> IF h THEN Never ELSE 0]]
        BY <2>3 DEF Issue
      <3>2. answer'[w].id = issued + 1 /\ \A v \in Workers \ {w} : answer'[v] = answer[v]
        BY <3>1
      <3>3. issued' = issued + 1 /\ cache' = cache /\ using' = using
        BY <2>3 DEF Issue
      <3>4. Cached => cache.id <= issued /\ cache.id \in Nat
        BY CachedType DEF IdInv, Tokens
      <3>5. \A v \in Workers : using[v] # NoToken => using[v].id \in Nat
        BY DEF Tokens
      <3> QED BY <3>2, <3>3, <3>4, <3>5
    <2>4. CASE Receive(w)
      <3>1. /\ answer[w] # NoToken
            /\ cache' = Parse(answer[w]) /\ issued' = issued
            /\ answer' = [answer EXCEPT ![w] = NoToken]
        BY <2>4 DEF Receive
      <3>2. using' \in {[using EXCEPT ![w] = cache'], [using EXCEPT ![w] = NoToken]}
        BY <2>4, <3>1 DEF Receive, LeaveWith, Hand, Return
      <3>3. cache'.id = answer[w].id /\ answer[w].id <= issued /\ answer[w].id \in Nat
        BY <3>1, AnswerType, ParseType DEF IdInv, Tokens
      <3>4. \A v \in Workers : answer'[v] = NoToken
        BY <3>1, OneAnswer
      <3> QED BY <3>1, <3>2, <3>3, <3>4
    <2>5. CASE StoreRaises(w)
      <3>1. /\ using' = [using EXCEPT ![w] = NoToken] /\ issued' = issued
            /\ answer' = [answer EXCEPT ![w] = NoToken]
        BY <2>5 DEF StoreRaises, Return
      <3>2. \/ cache' = NoToken
            \/ cache' = Parse(answer[w]) /\ answer[w] # NoToken
        BY <2>5 DEF StoreRaises
      <3>3. CASE cache' = NoToken
        BY <3>1, <3>3
      <3>4. CASE cache' = Parse(answer[w]) /\ answer[w] # NoToken
        <4>1. cache'.id = answer[w].id
          BY <3>4, AnswerType, ParseType
        <4>2. \A v \in Workers : answer'[v] = NoToken
          BY <3>1, <3>4, OneAnswer
        <4> QED BY <3>1, <3>4, <4>1, <4>2
      <3> QED BY <3>2, <3>3, <3>4
    <2>6. CASE FastMiss(w) \/ Lock(w) \/ Request(w) \/ RefreshRejected(w)
               \/ Recover(w) \/ Reject(w)
      BY <2>6 DEF FastMiss, Lock, Request, RefreshRejected, Recover, Reject
    <2>7. CASE LoseAnswer(w) \/ Purge(w)
      BY <2>7 DEF LoseAnswer, Purge
    <2>8. CASE Abort(w) \/ Finish(w) \/ Invalidate(w)
      BY <2>8 DEF Abort, Finish, Invalidate, Return
    <2> QED BY <1>2, <2>1, <2>2, <2>3, <2>4, <2>5, <2>6, <2>7, <2>8 DEF WorkerStep
  <1>3. ASSUME NEW w \in Workers, Call(w) \/ Crash(w) PROVE NewestInv'
    BY <1>3 DEF Call, Crash
  <1>4. ASSUME NEW d \in Domains, LeaseExpires(d) PROVE NewestInv'
    BY <1>4 DEF LeaseExpires
  <1>5. CASE Tick \/ Evict
    BY <1>5 DEF Tick, Evict
  <1> QED BY <1>1, <1>2, <1>3, <1>4, <1>5 DEF Next

\* If all workers share one lock that is held until it is released, no worker
\* holds a token that is newer than the cached one, though the store may fail,
\* evict the entry, or store a token and raise (store.set under the lock).
THEOREM StoreNeverFallsBehind ==
  ASSUME Lease = Never, \A v, w \in Workers : DomainOf[v] = DomainOf[w]
  PROVE  Spec => []CacheIsNewest
  <1>1. Init => LockInv /\ IdInv /\ NewestInv
    BY DEF Init, LockInv, Critical, IdInv, Cached, NewestInv, CacheIsNewest
  <1>2. TypeInv /\ LockInv /\ [Next]_vars => LockInv'
    BY LockStep
  <1>3. TypeInv /\ AskedInv /\ IdInv /\ [Next]_vars => IdInv'
    BY IdStep
  <1>4. TypeInv /\ LockInv /\ AskedInv /\ IdInv /\ NewestInv /\ [Next]_vars
          => NewestInv'
    BY NewestStep
  <1>5. NewestInv => CacheIsNewest
    BY DEF NewestInv
  <1> QED BY <1>1, <1>2, <1>3, <1>4, <1>5, TypeInvariance, AskedInvariance, PTL
          DEF Spec

-----------------------------------------------------------------------------
(* Tokens are alive when they are handed out.                              *)

\* The client's idea of an expiry is at most Latency later than the provider's.
LEMMA ParseFresh ==
  ASSUME TypeOK, NEW token \in Tokens, ExpirySource \in {"jwt", "ttl"},
         now + AccessTtl <= token.dies + Latency
  PROVE  /\ Parse(token).expires \in Nat
         /\ Parse(token).expires <= Parse(token).dies + Latency
         /\ Parse(token).dies = token.dies
  <1>1. Parse(token).dies = token.dies
    BY DEF Parse, Tokens
  <1>2. Parse(token).expires =
          CASE ExpirySource = "jwt"  -> token.dies
            [] ExpirySource = "ttl"  -> now + AccessTtl
            [] ExpirySource = "none" -> Never
    BY DEF Parse, Tokens
  <1>3. CASE ExpirySource = "jwt"
    <2>1. Parse(token).expires = token.dies
      BY <1>2, <1>3
    <2> QED BY <1>1, <2>1, TimeAssumption DEF Tokens
  <1>4. CASE ExpirySource = "ttl"
    <2>1. Parse(token).expires = now + AccessTtl
      BY <1>2, <1>4
    <2> QED BY <1>1, <2>1, TimeAssumption DEF Tokens, TypeOK
  <1> QED BY <1>3, <1>4

\* Every step keeps the bound on the expiry times the client believes in.
LEMMA FreshStep ==
  ASSUME ExpirySource \in {"jwt", "ttl"},
         TypeInv, AskedInv, FreshInv, [Next]_vars
  PROVE  FreshInv'
  <1> USE TimeAssumption DEF TypeInv, TypeOK, FreshInv, Cached
  <1>1. CASE UNCHANGED vars
    BY <1>1 DEF vars
  <1>2. ASSUME NEW w \in Workers, WorkerStep(w) PROVE FreshInv'
    <2>1. CASE FastHit(w) \/ FastMiss(w) \/ Purge(w) \/ Lock(w) \/ Request(w)
      BY <2>1 DEF FastHit, FastMiss, Purge, Lock, Request, Hand, Goto
    <2>2. CASE LoseAnswer(w) \/ RefreshRejected(w)
      BY <2>2 DEF LoseAnswer, RefreshRejected, Goto
    <2>3. CASE Issue(w)
      <3>1. PICK h \in BOOLEAN :
              answer' = [answer EXCEPT ![w] =
                [id |-> issued + 1, expires |-> Never, dies |-> now + AccessTtl,
                 refresh |-> IF h THEN Never ELSE 0]]
        BY <2>3 DEF Issue
      <3>2. answer'[w].dies = now + AccessTtl
            /\ \A v \in Workers \ {w} : answer'[v] = answer[v]
        BY <3>1
      <3> QED BY <2>3, <3>2 DEF Issue
    <2>4. CASE Receive(w)
      <3>1. /\ answer[w] \in Tokens
            /\ now + AccessTtl <= answer[w].dies + Latency
        BY <2>4, AnswerType DEF Receive
      <3>2. cache'.expires \in Nat /\ cache'.expires <= cache'.dies + Latency
        BY <2>4, <3>1, ParseFresh DEF Receive
      <3> QED BY <2>4, <3>2 DEF Receive, LeaveWith, Hand, Return, Goto
    <2>5. CASE Reuse(w) \/ Abort(w)
      BY <2>5 DEF Reuse, Abort, LeaveWith, Hand, Return, Goto
    <2>6. CASE Finish(w) \/ Recover(w) \/ Reject(w) \/ Invalidate(w)
      BY <2>6 DEF Finish, Recover, Reject, Invalidate, Return, Goto
    <2>7. CASE StoreRaises(w)
      <3>1. Cached' => cache'.expires \in Nat /\ cache'.expires <= cache'.dies + Latency
        BY <2>7, AnswerType, ParseFresh DEF StoreRaises
      <3> QED BY <2>7, <3>1 DEF StoreRaises, Return, Goto
    <2> QED BY <1>2, <2>1, <2>2, <2>3, <2>4, <2>5, <2>6, <2>7 DEF WorkerStep
  <1>3. ASSUME NEW w \in Workers, Call(w) \/ Crash(w) PROVE FreshInv'
    BY <1>3 DEF Call, Crash, Goto
  <1>4. ASSUME NEW d \in Domains, LeaseExpires(d) PROVE FreshInv'
    BY <1>4 DEF LeaseExpires
  <1>5. CASE Tick
    <2>1. now' = now + 1
          /\ UNCHANGED <<cache, pc, stamp, answer>>
      BY <1>5 DEF Tick
    <2>2. ASSUME NEW w \in Workers, answer[w] # NoToken
          PROVE  now + 1 + AccessTtl <= answer[w].dies + Latency
      <3>1. answer[w] \in Tokens
        BY <2>2, AnswerType
      <3> QED BY <1>5, <2>2, <3>1 DEF Tick, Tokens
    <2>3. ASSUME NEW w \in Workers, pc[w] \in {"checking", "rechecking"}
          PROVE  now + 1 <= stamp[w] + Pause
      BY <1>5, <2>3 DEF Tick
    <2> QED BY <2>1, <2>2, <2>3
  <1>6. CASE Evict
    BY <1>6 DEF Evict
  <1> QED BY <1>1, <1>2, <1>3, <1>4, <1>5, <1>6 DEF Next

\* The arithmetic of the leeway: a cached token that a recent reading of the
\* clock accepts is still alive.
LEMMA AcceptedIsAlive ==
  ASSUME TypeInv, FreshInv, Latency + Pause <= Leeway, Cached,
         NEW t \in Nat, now <= t + Pause, AccessValid(cache, t)
  PROVE  now < cache.dies
  <1>1. cache \in Tokens
    BY CachedType DEF TypeInv
  <1>2. t + Leeway < cache.expires /\ cache.expires <= cache.dies + Latency
        /\ cache.expires \in Nat
    BY MarkerAssumption DEF FreshInv, AccessValid
  <1> QED BY <1>1, <1>2, TimeAssumption DEF TypeInv, TypeOK, Tokens

\* A step that hands a token to a request hands over a live one.
LEMMA HandedFresh ==
  ASSUME ExpirySource \in {"jwt", "ttl"}, Latency + Pause <= Leeway,
         Latency < AccessTtl, TypeInv, AskedInv, FreshInv, [Next]_vars,
         NEW w \in Workers, pc[w] # "using", pc'[w] = "using"
  PROVE  now < using'[w].dies
  <1> USE DEF TypeInv, TypeOK
  <1>1. FastHit(w) \/ Reuse(w) \/ Receive(w)
    <2>1. ASSUME NEW v \in Workers, v # w, Call(v) \/ WorkerStep(v) \/ Crash(v)
          PROVE  pc'[w] = pc[w]
      BY <2>1 DEF WorkerStep, Call, FastHit, FastMiss, Purge, Lock, Reuse, Request,
         Issue, LoseAnswer, Receive, RefreshRejected, Abort, StoreRaises,
         Finish, Recover, Reject, Invalidate, Crash, LeaveWith, Hand, Return, Goto
    <2>2. ASSUME NEW d \in Domains, LeaseExpires(d) PROVE pc'[w] = pc[w]
      BY <2>2 DEF LeaseExpires
    <2>3. ASSUME Tick \/ Evict \/ UNCHANGED vars PROVE pc'[w] = pc[w]
      BY <2>3 DEF Tick, Evict, vars
    <2>4. ~Call(w) /\ ~Crash(w) /\ ~FastMiss(w) /\ ~Purge(w) /\ ~Lock(w)
          /\ ~Request(w) /\ ~Issue(w) /\ ~LoseAnswer(w) /\ ~RefreshRejected(w)
          /\ ~Abort(w) /\ ~StoreRaises(w) /\ ~Finish(w) /\ ~Recover(w) /\ ~Reject(w) /\ ~Invalidate(w)
      BY DEF Call, FastMiss, Purge, Lock, Request, Issue, LoseAnswer,
         RefreshRejected, Abort, StoreRaises, Finish, Recover, Reject, Invalidate,
         Crash, Return, Goto
    <2> QED BY <2>1, <2>2, <2>3, <2>4 DEF Next, WorkerStep
  <1>2. CASE FastHit(w)
    <2>1. now < cache.dies
      BY <1>2, AcceptedIsAlive DEF FastHit, FreshInv
    <2> QED BY <1>2, <2>1 DEF FastHit, Hand
  <1>3. CASE Reuse(w)
    <2>1. Clock(w) \in Nat /\ now <= Clock(w) + Pause
      BY <1>3, TimeAssumption DEF Reuse, Clock, FreshInv
    <2>2. now < cache.dies
      BY <1>3, <2>1, AcceptedIsAlive DEF Reuse, Reusable
    <2>3. using' = [using EXCEPT ![w] = cache]
      BY <1>3 DEF Reuse, LeaveWith, Hand, Return, Goto
    <2> QED BY <2>2, <2>3
  <1>4. CASE Receive(w)
    <2>1. answer[w] \in Tokens /\ now + AccessTtl <= answer[w].dies + Latency
      BY <1>4, AnswerType DEF Receive, FreshInv
    <2>2. now < answer[w].dies
      BY <2>1, TimeAssumption DEF Tokens
    <2>3. Parse(answer[w]).dies = answer[w].dies
      BY <2>1, ParseFresh
    <2>4. using' = [using EXCEPT ![w] = Parse(answer[w])]
      BY <1>4 DEF Receive, LeaveWith, Hand, Return, Goto
    <2> QED BY <2>2, <2>3, <2>4
  <1> QED BY <1>1, <1>2, <1>3, <1>4

\* If the leeway covers the time an answer travels and the time a reading of
\* the clock is old, every token that get_token or recover_from_unauthorized
\* returns is still accepted by the provider at that moment.
THEOREM TokensAreFresh ==
  ASSUME ExpirySource \in {"jwt", "ttl"}, Latency + Pause <= Leeway,
         Latency < AccessTtl
  PROVE  Spec => FreshToken
  <1>1. Init => FreshInv
    BY DEF Init, FreshInv, Cached
  <1>2. TypeInv /\ AskedInv /\ FreshInv /\ [Next]_vars => FreshInv'
    BY FreshStep
  <1>3. TypeInv /\ AskedInv /\ FreshInv /\ [Next]_vars =>
          [\A w \in Workers :
             pc[w] # "using" /\ pc'[w] = "using" => now < using'[w].dies]_vars
    BY HandedFresh
  <1> QED BY <1>1, <1>2, <1>3, TypeInvariance, AskedInvariance, PTL
          DEF Spec, FreshToken

=============================================================================
