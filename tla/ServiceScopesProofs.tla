------------------------ MODULE ServiceScopesProofs ------------------------
(***************************************************************************)
(* ServiceScopes for any processes, services, settings and number of       *)
(* tokens.                                                                 *)
(***************************************************************************)
EXTENDS ServiceScopes, TLAPS

\* A process that has a configuration was started with valid settings.
ConfigInv ==
  /\ DOMAIN config = Processes /\ DOMAIN written = Processes
  /\ \A p \in Processes : config[p] # None =>
       /\ written[p] # None
       /\ Valid(written[p]) /\ config[p] = Validated(written[p])

\* What is cached under a key was issued for what the key names.
StoreInv ==
  \A k \in DOMAIN store :
    /\ store[k].service = k[1] /\ store[k].account = k[2] /\ store[k].origin = k[3]
    /\ store[k].scopes = IF k[1] \in TakesScopes THEN k[4] ELSE {}

\* The process whose request was sent is still running.
SenderInv ==
  wire # NoWire => wire.process \in Processes /\ config[wire.process] # None

WireInv ==
  SenderInv /\ TokensStayInScope /\ PairsStayTogether /\ StaticTokenOnly

Inv == ConfigInv /\ StoreInv /\ WireInv

\* Nothing is configured, cached or sent at first.
LEMMA InitInv == Init => Inv
<1> SUFFICES ASSUME Init PROVE Inv
  OBVIOUS
<1>1. ConfigInv /\ StoreInv
  BY DEF Init, ConfigInv, StoreInv
<1>2. WireInv
  BY DEF Init, WireInv, SenderInv, TokensStayInScope, PairsStayTogether,
         StaticTokenOnly
<1> QED
  BY <1>1, <1>2 DEF Inv

\* The entry that is used is one that the application wrote.
LEMMA EntryIsWritten ==
  ASSUME NEW s, NEW service, Entry(s, service) # None
  PROVE  Entry(s, service) \in WrittenFor(s, service)
<1> QED
  BY DEF Entry, WrittenFor

\* A configured service has the entry that was written for it.
LEMMA ConfigIsEntry ==
  ASSUME ConfigInv, NEW p \in Processes, NEW service \in Services, Usable(p, service)
  PROVE  /\ config[p][service] = Entry(written[p], service)
         /\ config[p][service] \in WrittenFor(written[p], service)
<1>1. config[p][service] = Entry(written[p], service)
  BY DEF ConfigInv, Usable, Validated
<1> QED
  BY <1>1, EntryIsWritten DEF Usable

\* A request that was sent stays explained while its sender keeps its settings.
LEMMA SameSender ==
  ASSUME WireInv, wire' = wire,
         wire # NoWire => /\ config'[wire.process] = config[wire.process]
                          /\ written'[wire.process] = written[wire.process]
  PROVE  WireInv'
<1>1. SenderInv'
  BY DEF WireInv, SenderInv
<1>2. TokensStayInScope'
  BY DEF WireInv, TokensStayInScope, Credentials, RequestedScopes
<1>3. PairsStayTogether'
  BY DEF WireInv, PairsStayTogether
<1>4. StaticTokenOnly'
  BY DEF WireInv, StaticTokenOnly
<1> QED
  BY <1>1, <1>2, <1>3, <1>4 DEF WireInv

\* A token request carries one written pair, and caches what its key names.
LEMMA AcquireStep ==
  ASSUME Inv, NEW p \in Processes, NEW service \in Services, Acquire(p, service)
  PROVE  Inv'
<1> DEFINE c == Credentials(p, service)
           key == CacheKey(p, service)
           request == [kind |-> "generate_token", process |-> p, service |-> service,
                       origin |-> Origin(p, service),
                       secret |-> <<c.api_key, c.secret_key>>,
                       scopes |-> RequestedScopes(p, service)]
           token == [service |-> service, origin |-> Origin(p, service),
                     account |-> c.api_key, scopes |-> RequestedScopes(p, service)]
<1>1. /\ service \in Managed /\ Usable(p, service) /\ c.api_key # None
      /\ wire' = request
      /\ store' = [k \in DOMAIN store \cup {key} |->
                     IF k \in DOMAIN store THEN store[k] ELSE token]
      /\ written' = written /\ config' = config
  BY DEF Acquire, HasAuthenticator
<1>2. ConfigInv'
  BY <1>1 DEF Inv, ConfigInv
<1>3. StoreInv'
  <2>1. key = <<service, c.api_key, Origin(p, service), config[p][service].scopes>>
    BY <1>1 DEF CacheKey, Identifier
  <2>2. token.scopes = IF key[1] \in TakesScopes THEN key[4] ELSE {}
    BY <2>1 DEF RequestedScopes
  <2> HIDE DEF key, c
  <2>3. /\ token.service = key[1] /\ token.account = key[2]
        /\ token.origin = key[3]
    BY <2>1
  <2> HIDE DEF token
  <2> QED
    BY <1>1, <2>2, <2>3 DEF Inv, StoreInv
<1>4. PairsStayTogether'
  <2>1. config[p][service] \in WrittenFor(written[p], service)
    BY <1>1, ConfigIsEntry DEF Inv
  <2> QED
    BY <1>1, <2>1 DEF PairsStayTogether, Credentials, WrittenFor
<1>5. SenderInv'
  BY <1>1 DEF SenderInv, Usable
<1>6. TokensStayInScope' /\ StaticTokenOnly'
  BY <1>1 DEF TokensStayInScope, StaticTokenOnly, Managed
<1> QED
  BY <1>2, <1>3, <1>4, <1>5, <1>6 DEF Inv, WireInv

\* A token that is used was cached under the key of its user.
LEMMA UseStep ==
  ASSUME Inv, NEW p \in Processes, NEW service \in Services, Use(p, service)
  PROVE  Inv'
<1> DEFINE token == store[CacheKey(p, service)]
<1>1. PICK kind \in {"call", "refresh_token"} :
        wire' = [kind |-> kind, process |-> p, service |-> service,
                 origin |-> Origin(p, service), token |-> token]
  BY DEF Use
<1>2. /\ service \in Managed /\ Usable(p, service) /\ Cached(p, service)
      /\ written' = written /\ config' = config /\ store' = store
  BY DEF Use, HasAuthenticator
<1>3. ConfigInv' /\ StoreInv'
  BY <1>2 DEF Inv, ConfigInv, StoreInv
<1>4. /\ token.service = service
      /\ token.account = Identifier(Credentials(p, service))
      /\ token.origin = Origin(p, service)
      /\ token.scopes = RequestedScopes(p, service)
  <2>1. CacheKey(p, service) \in DOMAIN store
    BY <1>2 DEF Cached
  <2>2. /\ CacheKey(p, service)[1] = service
        /\ CacheKey(p, service)[2] = Identifier(Credentials(p, service))
        /\ CacheKey(p, service)[3] = Origin(p, service)
        /\ CacheKey(p, service)[4] = config[p][service].scopes
    BY DEF CacheKey
  <2> QED
    BY <2>1, <2>2 DEF Inv, StoreInv, RequestedScopes
<1>5. TokensStayInScope'
  <2> HIDE DEF token
  <2>1. /\ Identifier(Credentials(p, service))' = Identifier(Credentials(p, service))
        /\ RequestedScopes(p, service)' = RequestedScopes(p, service)
    BY <1>2 DEF Identifier, Credentials, RequestedScopes
  <2> QED
    BY <1>1, <1>4, <2>1 DEF TokensStayInScope
<1>6. SenderInv' /\ PairsStayTogether' /\ StaticTokenOnly'
  BY <1>1, <1>2 DEF SenderInv, Usable, PairsStayTogether, StaticTokenOnly, Managed
<1> QED
  BY <1>3, <1>5, <1>6 DEF Inv, WireInv

\* A call of a static service carries the access token that was written for it.
LEMMA CallStaticStep ==
  ASSUME Inv, NEW p \in Processes, NEW service \in Services, CallStatic(p, service)
  PROVE  Inv'
<1>1. /\ Usable(p, service) /\ Credentials(p, service).access_token # None
      /\ wire' = [kind |-> "static_call", process |-> p, service |-> service,
                  origin |-> Origin(p, service),
                  token |-> Credentials(p, service).access_token]
      /\ written' = written /\ config' = config /\ store' = store
  BY DEF CallStatic
<1>2. ConfigInv' /\ StoreInv'
  BY <1>1 DEF Inv, ConfigInv, StoreInv
<1>3. StaticTokenOnly'
  <2>1. config[p][service] \in WrittenFor(written[p], service)
    BY <1>1, ConfigIsEntry DEF Inv
  <2> QED
    BY <1>1, <2>1 DEF StaticTokenOnly, Credentials, WrittenFor
<1>4. SenderInv' /\ TokensStayInScope' /\ PairsStayTogether'
  BY <1>1 DEF SenderInv, Usable, TokensStayInScope, PairsStayTogether
<1> QED
  BY <1>2, <1>3, <1>4 DEF Inv, WireInv

\* Starts, restarts and lost entries change nothing of what was sent.
LEMMA ProcessStep ==
  ASSUME Inv,
         \/ \E p \in Processes : Start(p) \/ Stop(p)
         \/ \E k \in DOMAIN store : Drop(k)
  PROVE  Inv'
<1>1. CASE \E p \in Processes : Start(p)
  <2>1. PICK p \in Processes : Start(p)
    BY <1>1
  <2>2. PICK s \in Settings :
          /\ written' = [written EXCEPT ![p] = s]
          /\ config' = [config EXCEPT ![p] = IF Valid(s) THEN Validated(s) ELSE None]
    BY <2>1 DEF Start
  <2>3. written[p] = None /\ store' = store /\ wire' = wire /\ s # None
    BY <2>1, SettingsAssumption DEF Start
  <2>4. ConfigInv'
    BY <2>2, <2>3 DEF Inv, ConfigInv
  <2>5. wire # NoWire => wire.process \in Processes \ {p}
    BY <2>3 DEF Inv, WireInv, SenderInv, ConfigInv
  <2>6. WireInv'
    BY <2>2, <2>3, <2>5, SameSender DEF Inv, ConfigInv
  <2> QED
    BY <2>3, <2>4, <2>6 DEF Inv, StoreInv
<1>2. CASE \E p \in Processes : Stop(p)
  <2>1. PICK p \in Processes : Stop(p)
    BY <1>2
  <2>2. /\ written' = [written EXCEPT ![p] = None]
        /\ config' = [config EXCEPT ![p] = None]
        /\ wire' = IF wire # NoWire /\ wire.process = p THEN NoWire ELSE wire
        /\ store' = store
    BY <2>1 DEF Stop
  <2>3. ConfigInv' /\ StoreInv'
    BY <2>2 DEF Inv, ConfigInv, StoreInv
  <2>4. ASSUME wire' = NoWire PROVE WireInv'
    BY <2>4 DEF WireInv, SenderInv, TokensStayInScope, PairsStayTogether,
                StaticTokenOnly
  <2>5. ASSUME wire' # NoWire PROVE WireInv'
    <3>1. wire' = wire /\ wire.process \in Processes \ {p}
      BY <2>2, <2>5 DEF Inv, WireInv, SenderInv
    <3> QED
      BY <2>2, <3>1, SameSender DEF Inv, ConfigInv
  <2> QED
    BY <2>3, <2>4, <2>5 DEF Inv, WireInv
<1>3. CASE \E k \in DOMAIN store : Drop(k)
  <2>1. PICK k \in DOMAIN store : Drop(k)
    BY <1>3
  <2>2. /\ store' = [j \in DOMAIN store \ {k} |-> store[j]]
        /\ written' = written /\ config' = config /\ wire' = wire
    BY <2>1 DEF Drop
  <2>3. ConfigInv' /\ StoreInv'
    BY <2>2 DEF Inv, ConfigInv, StoreInv
  <2>4. WireInv'
    BY <2>2, SameSender DEF Inv
  <2> QED
    BY <2>3, <2>4 DEF Inv
<1> QED
  BY <1>1, <1>2, <1>3

\* Every step keeps the invariant.
LEMMA StepInv == Inv /\ [Next]_vars => Inv'
<1> SUFFICES ASSUME Inv, [Next]_vars PROVE Inv'
  OBVIOUS
<1>1. ASSUME NEW p \in Processes, NEW service \in Services,
             Acquire(p, service) \/ Use(p, service) \/ CallStatic(p, service)
      PROVE  Inv'
  BY <1>1, AcquireStep, UseStep, CallStaticStep
<1>2. CASE UNCHANGED vars
  <2>1. ConfigInv' /\ StoreInv'
    BY <1>2 DEF Inv, ConfigInv, StoreInv, vars
  <2>2. WireInv'
    BY <1>2, SameSender DEF Inv, vars
  <2> QED
    BY <2>1, <2>2 DEF Inv
<1> QED
  BY <1>1, <1>2, ProcessStep DEF Next

\* The invariant holds in every reachable state.
LEMMA Invariance == Spec => []Inv
<1> QED
  BY InitInv, StepInv, PTL DEF Spec

\* However many processes share a store and whatever they are restarted with, a
\* token only leaves for the service, origin, account and scopes it was issued
\* for (_build_cache_key).
THEOREM ScopesHold == Spec => []TokensStayInScope
<1>1. Inv => TokensStayInScope
  BY DEF Inv, WireInv
<1> QED
  BY <1>1, Invariance, PTL

\* No token request mixes the halves of two pairs (from_mapping).
THEOREM PairsHold == Spec => []PairsStayTogether
<1>1. Inv => PairsStayTogether
  BY DEF Inv, WireInv
<1> QED
  BY <1>1, Invariance, PTL

\* Settings with an incomplete pair send nothing (ServiceCredentials).
THEOREM IncompleteIsSilent == Spec => []IncompleteNeverSends
<1>1. ASSUME Inv, wire # NoWire, NEW service \in Services,
             Entry(written[wire.process], service) # None
      PROVE  ValidCredentials(Entry(written[wire.process], service).credentials)
  BY <1>1 DEF Inv, WireInv, SenderInv, ConfigInv, Valid
<1>2. Inv => IncompleteNeverSends
  BY <1>1 DEF IncompleteNeverSends, ValidCredentials
<1> QED
  BY <1>2, Invariance, PTL

\* A static service sends the access token written for it, and no token of the
\* store (StaticBearerRequestEngine).
THEOREM StaticHolds == Spec => []StaticTokenOnly
<1>1. Inv => StaticTokenOnly
  BY DEF Inv, WireInv
<1> QED
  BY <1>1, Invariance, PTL

=============================================================================
