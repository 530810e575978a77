--------------------------- MODULE TokenLifecycle ---------------------------
(***************************************************************************)
(* ServiceAuthenticator (auth/provider.py) under the calls of several      *)
(* workers: the shared token store, the per-key lock, the token endpoint   *)
(* and the clock.  A worker is a thread; threads of one process, or all    *)
(* threads if the lock is distributed, share a lock domain.  The model is  *)
(* of one cache key.  A token carries its identity (the access value), the *)
(* expiry times the client has computed and, for the properties only, the  *)
(* time at which the provider stops accepting it.                          *)
(***************************************************************************)
EXTENDS Naturals

CONSTANTS
  Workers, Domains, DomainOf,   \* threads, locks, and the lock of a thread
  AccessTtl,      \* lifetime of an access token at the provider
  RefreshTtl,     \* documented refresh lifetime, or Never
  ExpirySource,   \* how expires_at is found: "jwt", "ttl" or "none"
  Leeway,         \* AuthConfig.expiry_leeway_seconds
  Lease,          \* RedisLockProvider timeout; Never for ThreadLockProvider
  Latency,        \* bound: from issuing a token to parsing the answer
  Pause,          \* bound: from reading the clock to using that reading
  StoreCanFail,   \* whether the token store may raise
  Never, NoToken, Corrupt, Nobody,
  MaxTime, MaxCalls, MaxTokens   \* bounds of the state space

ASSUME DomainAssumption == DomainOf \in [Workers -> Domains]
ASSUME MarkerAssumption == Nobody \notin Workers /\ Never \notin Nat
ASSUME TimeAssumption ==
  /\ {AccessTtl, Leeway, Latency, Pause, MaxTime, MaxCalls, MaxTokens} \subseteq Nat
  /\ RefreshTtl \in Nat \cup {Never} /\ Lease \in Nat \cup {Never}
  /\ ExpirySource \in {"jwt", "ttl", "none"} /\ StoreCanFail \in BOOLEAN

VARIABLES
  now,        \* time.time(), the same for everyone
  cache,      \* the entry of the token store
  issued,     \* number of tokens the provider has handed out
  holder,     \* who holds each lock
  since,      \* when it was granted
  pc,         \* where each worker is
  calls,      \* calls begun by each worker
  stamp,      \* the local variable `now` of get_token
  using,      \* the token the worker was given last
  rejected,   \* the access value passed to recover_from_unauthorized, or 0
  answer      \* a token on its way to the worker

vars == <<now, cache, issued, holder, since, pc, calls, stamp, using,
          rejected, answer>>

\* refresh: when the refresh token expires, 0 if there is none.
Tokens == [id : Nat \ {0}, expires : Nat \cup {Never},
           refresh : Nat \cup {Never}, dies : Nat]

Critical == {"rechecking", "purgingLocked", "refreshing", "acquiring"}

ControlStates == Critical \cup
  {"idle", "checking", "purging", "locking", "using", "invalidating", "crashed"}

TypeOK ==
  /\ now \in Nat
  /\ cache \in Tokens \cup {NoToken, Corrupt}
  /\ issued \in Nat
  /\ holder \in [Domains -> Workers \cup {Nobody}]
  /\ since \in [Domains -> Nat]
  /\ pc \in [Workers -> ControlStates]
  /\ calls \in [Workers -> Nat]
  /\ stamp \in [Workers -> Nat]
  /\ using \in [Workers -> Tokens \cup {NoToken}]
  /\ rejected \in [Workers -> Nat]
  /\ answer \in [Workers -> Tokens \cup {NoToken}]

\* An entry written by another version of the SDK may be unreadable.
Init ==
  /\ now = 0 /\ issued = 0
  /\ cache \in {NoToken, Corrupt}
  /\ holder = [d \in Domains |-> Nobody]
  /\ since = [d \in Domains |-> 0]
  /\ pc = [w \in Workers |-> "idle"]
  /\ calls = [w \in Workers |-> 0]
  /\ stamp = [w \in Workers |-> 0]
  /\ using = [w \in Workers |-> NoToken]
  /\ rejected = [w \in Workers |-> 0]
  /\ answer = [w \in Workers |-> NoToken]

Cached == cache \notin {NoToken, Corrupt}

\* TokenState.is_access_valid and is_refresh_valid.
AccessValid(token, t) == token.expires = Never \/ t + Leeway < token.expires

RefreshValid(token, t) ==
  token.refresh # 0 /\ (token.refresh = Never \/ t + Leeway < token.refresh)

Goto(w, label) == pc' = [pc EXCEPT ![w] = label]

\* The call is over and its local variables are gone.
Return(w) ==
  /\ Goto(w, "idle")
  /\ stamp' = [stamp EXCEPT ![w] = 0]
  /\ using' = [using EXCEPT ![w] = NoToken]
  /\ rejected' = [rejected EXCEPT ![w] = 0]

\* The token goes to the request; `now` is not read again.
Hand(w, token) ==
  /\ Goto(w, "using")
  /\ stamp' = [stamp EXCEPT ![w] = 0]
  /\ using' = [using EXCEPT ![w] = token]
  /\ UNCHANGED rejected

Owns(w) == holder[DomainOf[w]] = w

Release(w) ==
  IF Owns(w)
    THEN /\ holder' = [holder EXCEPT ![DomainOf[w]] = Nobody]
         /\ since' = [since EXCEPT ![DomainOf[w]] = 0]
    ELSE UNCHANGED <<holder, since>>

\* Leaving the `with` by return: if the lease ran out the release raises, and
\* the call ends with that exception instead of a token.
LeaveWith(w, token) ==
  /\ Release(w)
  /\ IF Owns(w) THEN Hand(w, token) ELSE Return(w)

-----------------------------------------------------------------------------
(* get_token, up to the lock.                                              *)

Call(w) ==
  /\ pc[w] = "idle" /\ calls[w] < MaxCalls
  /\ calls' = [calls EXCEPT ![w] = @ + 1]
  /\ stamp' = [stamp EXCEPT ![w] = now]
  /\ Goto(w, "checking")
  /\ UNCHANGED <<now, cache, issued, holder, since, using, rejected, answer>>

\* Mutation: an unreadable entry is returned like any other.
FastHit_Unread(w) ==
  /\ pc[w] = "checking"
  /\ cache = Corrupt \/ (Cached /\ AccessValid(cache, stamp[w]))
  /\ Hand(w, cache)
  /\ UNCHANGED <<now, cache, issued, holder, since, calls, answer>>

FastHit(w) ==
  /\ pc[w] = "checking" /\ Cached /\ AccessValid(cache, stamp[w])
  /\ Hand(w, cache)
  /\ UNCHANGED <<now, cache, issued, holder, since, calls, answer>>

FastMiss(w) ==
  /\ pc[w] = "checking" /\ ~(Cached /\ AccessValid(cache, stamp[w]))
  /\ Goto(w, IF cache = Corrupt THEN "purging" ELSE "locking")
  /\ UNCHANGED <<now, cache, issued, holder, since, calls, stamp, using, rejected, answer>>

\* _safe_get deletes an unreadable entry, whatever is there by then.
Purge(w) ==
  /\ pc[w] \in {"purging", "purgingLocked"}
  /\ cache' = NoToken
  /\ Goto(w, IF pc[w] = "purging" THEN "locking" ELSE "acquiring")
  /\ UNCHANGED <<now, issued, holder, since, calls, stamp, using, rejected, answer>>

-----------------------------------------------------------------------------
(* Inside the lock: the second look at the cache, then _refresh_or_acquire.*)

\* Mutation: the clock is not read again once the lock is held.
Lock_OldClock(w) ==
  /\ pc[w] = "locking" /\ holder[DomainOf[w]] = Nobody
  /\ holder' = [holder EXCEPT ![DomainOf[w]] = w]
  /\ since' = [since EXCEPT ![DomainOf[w]] = now]
  /\ Goto(w, "rechecking")
  /\ UNCHANGED <<now, cache, issued, calls, stamp, using, rejected, answer>>

\* Mutation: the lock does not exclude anyone.
Lock_NoWait(w) ==
  /\ pc[w] = "locking"
  /\ holder' = [holder EXCEPT ![DomainOf[w]] = w]
  /\ since' = [since EXCEPT ![DomainOf[w]] = now]
  /\ stamp' = [stamp EXCEPT ![w] = now]
  /\ Goto(w, "rechecking")
  /\ UNCHANGED <<now, cache, issued, calls, using, rejected, answer>>

Lock(w) ==
  /\ pc[w] = "locking" /\ holder[DomainOf[w]] = Nobody
  /\ holder' = [holder EXCEPT ![DomainOf[w]] = w]
  /\ since' = [since EXCEPT ![DomainOf[w]] = now]
  /\ stamp' = [stamp EXCEPT ![w] = now]
  /\ Goto(w, "rechecking")
  /\ UNCHANGED <<now, cache, issued, calls, using, rejected, answer>>

\* get_token reads the clock before the cache, recover_from_unauthorized
\* after it.
Clock(w) == IF rejected[w] = 0 THEN stamp[w] ELSE now

\* Mutation: recovery takes any valid token, the rejected one included.
Reusable_AnyToken(w) == Cached /\ AccessValid(cache, Clock(w))

Reusable(w) ==
  Cached /\ cache.id # rejected[w] /\ AccessValid(cache, Clock(w))

Reuse(w) ==
  /\ pc[w] = "rechecking" /\ Reusable(w)
  /\ LeaveWith(w, cache)
  /\ UNCHANGED <<now, cache, issued, calls, answer>>

\* Mutation: the cache is not looked at again inside the lock.
Request_NoSecondLook(w) ==
  /\ pc[w] = "rechecking"
  /\ Goto(w, "acquiring")
  /\ UNCHANGED <<now, cache, issued, holder, since, calls, stamp, using, rejected, answer>>

Request(w) ==
  /\ pc[w] = "rechecking" /\ ~Reusable(w)
  /\ Goto(w, IF cache = Corrupt THEN "purgingLocked"
             ELSE IF Cached /\ RefreshValid(cache, Clock(w)) THEN "refreshing"
             ELSE "acquiring")
  /\ stamp' = [stamp EXCEPT ![w] = 0]
  /\ UNCHANGED <<now, cache, issued, holder, since, calls, using, rejected, answer>>

\* The provider takes a refresh or generate request and answers.
Issue(w) ==
  /\ pc[w] \in {"refreshing", "acquiring"} /\ answer[w] = NoToken
  /\ issued < MaxTokens
  /\ issued' = issued + 1
  /\ \E hasRefresh \in {pc[w] = "refreshing", TRUE} :
       answer' = [answer EXCEPT ![w] =
         [id |-> issued + 1, expires |-> Never, dies |-> now + AccessTtl,
          refresh |-> IF hasRefresh THEN Never ELSE 0]]
  /\ UNCHANGED <<now, cache, holder, since, pc, calls, stamp, using, rejected>>

\* The answer is lost and the engine repeats the idempotent token request.
LoseAnswer(w) ==
  /\ answer[w] # NoToken
  /\ answer' = [answer EXCEPT ![w] = NoToken]
  /\ UNCHANGED <<now, cache, issued, holder, since, pc, calls, stamp, using, rejected>>

\* _parse_token: lifetimes count from the moment the answer is read, and a
\* refresh token that is not replaced keeps serving.
Parse(token) ==
  [token EXCEPT
     !.expires = CASE ExpirySource = "jwt"  -> token.dies
                   [] ExpirySource = "ttl"  -> now + AccessTtl
                   [] ExpirySource = "none" -> Never,
     !.refresh = IF @ = 0 \/ RefreshTtl = Never THEN @ ELSE now + RefreshTtl]

\* store.set and the end of the locked section.
Receive(w) ==
  /\ answer[w] # NoToken
  /\ cache' = Parse(answer[w])
  /\ LeaveWith(w, Parse(answer[w]))
  /\ answer' = [answer EXCEPT ![w] = NoToken]
  /\ UNCHANGED <<now, issued, calls>>

\* 401, 400 or 422 on refresh: fall back to the credentials.
RefreshRejected(w) ==
  /\ pc[w] = "refreshing" /\ answer[w] = NoToken
  /\ Goto(w, "acquiring")
  /\ UNCHANGED <<now, cache, issued, holder, since, calls, stamp, using, rejected, answer>>

\* Mutation: an exception leaves the lock taken.
Abort_KeepsLock(w) ==
  /\ pc[w] \in {"refreshing", "acquiring"}
  /\ Return(w)
  /\ answer' = [answer EXCEPT ![w] = NoToken]
  /\ UNCHANGED <<now, cache, issued, holder, since, calls>>

\* Mutation: the wait for a Redis lock has no limit (blocking_timeout=None).
Abort_WaitsOn(w) ==
  /\ \/ pc[w] \in {"refreshing", "acquiring"}
     \/ StoreCanFail /\ pc[w] \in {"checking", "purging", "rechecking",
                                   "purgingLocked", "invalidating"}
  /\ Release(w)
  /\ Return(w)
  /\ answer' = [answer EXCEPT ![w] = NoToken]
  /\ UNCHANGED <<now, cache, issued, calls>>

\* Any other failure of a token request ends the call, and so does a token
\* store, or a wait for a Redis lock, that raises.
Abort(w) ==
  /\ \/ pc[w] \in {"refreshing", "acquiring"}
     \/ StoreCanFail /\ pc[w] \in {"checking", "purging", "rechecking",
                                   "purgingLocked", "invalidating"}
     \/ Lease # Never /\ pc[w] = "locking"
  /\ Release(w)
  /\ Return(w)
  /\ answer' = [answer EXCEPT ![w] = NoToken]
  /\ UNCHANGED <<now, cache, issued, calls>>

\* A write or a deletion took effect although the store raised: its answer was
\* lost.  The call ends as if nothing had been stored.
StoreRaises(w) ==
  /\ StoreCanFail
  /\ \/ answer[w] # NoToken /\ cache' = Parse(answer[w])
     \/ pc[w] \in {"purging", "purgingLocked", "invalidating"} /\ cache' = NoToken
  /\ Release(w)
  /\ Return(w)
  /\ answer' = [answer EXCEPT ![w] = NoToken]
  /\ UNCHANGED <<now, issued, calls>>

-----------------------------------------------------------------------------
(* The request made with the token (AuthenticatedRequestEngine.execute).   *)

Finish(w) ==
  /\ pc[w] = "using"
  /\ Return(w)
  /\ UNCHANGED <<now, cache, issued, holder, since, calls, answer>>

\* The first 401 of a call that may be replayed.
Recover(w) ==
  /\ pc[w] = "using" /\ rejected[w] = 0
  /\ rejected' = [rejected EXCEPT ![w] = using[w].id]
  /\ Goto(w, "locking")
  /\ UNCHANGED <<now, cache, issued, holder, since, calls, stamp, using, answer>>

\* The second 401, or the first one of a call that may not be replayed.
Reject(w) ==
  /\ pc[w] = "using"
  /\ Goto(w, "invalidating")
  /\ UNCHANGED <<now, cache, issued, holder, since, calls, stamp, using, rejected, answer>>

\* invalidate() takes no lock and does not look at what it deletes.
Invalidate(w) ==
  /\ pc[w] = "invalidating"
  /\ cache' = NoToken
  /\ Return(w)
  /\ UNCHANGED <<now, issued, holder, since, calls, answer>>

-----------------------------------------------------------------------------
(* Time, leases, crashes and evictions.                                    *)

Tick ==
  /\ now < MaxTime
  /\ \A w \in Workers :
       /\ answer[w] # NoToken => now + AccessTtl < answer[w].dies + Latency
       /\ pc[w] \in {"checking", "rechecking"} => now < stamp[w] + Pause
  /\ now' = now + 1
  /\ UNCHANGED <<cache, issued, holder, since, pc, calls, stamp, using, rejected, answer>>

LeaseExpires(d) ==
  /\ Lease # Never /\ holder[d] # Nobody /\ now >= since[d] + Lease
  /\ holder' = [holder EXCEPT ![d] = Nobody]
  /\ since' = [since EXCEPT ![d] = 0]
  /\ UNCHANGED <<now, cache, issued, pc, calls, stamp, using, rejected, answer>>

\* A process dies, and its variables with it.  A lock inside the process takes
\* its waiters along, so only a distributed lock can be left behind.
Crash(w) ==
  /\ Lease # Never /\ pc[w] # "crashed"
  /\ Goto(w, "crashed")
  /\ stamp' = [stamp EXCEPT ![w] = 0]
  /\ using' = [using EXCEPT ![w] = NoToken]
  /\ rejected' = [rejected EXCEPT ![w] = 0]
  /\ answer' = [answer EXCEPT ![w] = NoToken]
  /\ UNCHANGED <<now, cache, issued, holder, since, calls>>

\* A cache outside the process drops the entry on its own account.
Evict ==
  /\ StoreCanFail /\ Cached
  /\ cache' = NoToken
  /\ UNCHANGED <<now, issued, holder, since, pc, calls, stamp, using, rejected, answer>>

WorkerStep(w) ==
  \/ FastHit(w) \/ FastMiss(w) \/ Purge(w)
  \/ Lock(w) \/ Reuse(w) \/ Request(w)
  \/ Issue(w) \/ LoseAnswer(w) \/ Receive(w) \/ RefreshRejected(w) \/ Abort(w)
  \/ StoreRaises(w)
  \/ Finish(w) \/ Recover(w) \/ Reject(w) \/ Invalidate(w)

Next ==
  \/ \E w \in Workers : Call(w) \/ WorkerStep(w) \/ Crash(w)
  \/ \E d \in Domains : LeaseExpires(d)
  \/ Tick \/ Evict

\* Every thread is scheduled, every request made with a token ends, and every
\* token request is answered or fails (RequestEngine's CallEnds).
Fairness == \A w \in Workers : WF_vars(WorkerStep(w))

Spec == Init /\ [][Next]_vars /\ Fairness

-----------------------------------------------------------------------------
(* Properties.                                                             *)

\* At most one worker of a lock domain is between acquiring and releasing the
\* token lock, so refreshes never overlap (docs/authentication.md).
SingleFlight ==
  \A v, w \in Workers :
    pc[v] \in Critical /\ pc[w] \in Critical /\ DomainOf[v] = DomainOf[w] => v = w

\* A worker asks the provider for a token only while the cache holds none that
\* would do: what it has waited for the lock for may be there by now
\* (the second check in get_token, the comparison in recover).
RequestsOnlyWhenNeeded ==
  \A w \in Workers :
    pc[w] \in {"refreshing", "acquiring"} /\ Cached /\ AccessValid(cache, now)
    => cache.id = rejected[w]

\* The store never falls behind what it has handed out: no worker holds a
\* token that is newer than the cached one (store.set under the lock).
CacheIsNewest ==
  \A w \in Workers : Cached /\ using[w] # NoToken => using[w].id <= cache.id

\* A replay never carries the token that was just rejected, whichever worker
\* replaced it (recover_from_unauthorized).
ReplayUsesAnotherToken ==
  \A w \in Workers :
    pc[w] = "using" /\ rejected[w] # 0 => using[w].id # rejected[w]

\* A token is alive at the provider at the moment it is handed to a request,
\* although its expiry was counted from the answer and the clock was read
\* before the cache, as long as Latency + Pause <= Leeway.
FreshToken ==
  [][\A w \in Workers :
       pc[w] # "using" /\ pc'[w] = "using" => now < using'[w].dies]_vars

\* Every call gets a token or an error, and ends: nobody waits for the lock
\* forever, whatever the holder meets (ThreadLockProvider, get_token).
CallEnds ==
  \A w \in Workers : pc[w] = "checking" ~> pc[w] = "idle"

\* The call of a worker that lives ends with a token or an exception, although
\* others die with the lock or the store raises (RedisLockProvider, whose
\* blocking_timeout bounds the wait).
SurvivorsEnd ==
  \A w \in Workers : pc[w] = "checking" ~> pc[w] \in {"idle", "crashed"}

=============================================================================
