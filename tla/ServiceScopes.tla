--------------------------- MODULE ServiceScopes ---------------------------
(***************************************************************************)
(* Which credentials and tokens leave for which service.  Processes read   *)
(* their settings (JibitConfig.from_mapping), share one token store and    *)
(* are restarted with other settings while the store lives on.  A request  *)
(* and its answer are one step: TokenLifecycle has the interleavings of    *)
(* the clients of one cache key.                                           *)
(***************************************************************************)
EXTENDS Integers, FiniteSets

CONSTANTS
  Processes,
  Services,      \* some of ServiceName
  Settings,      \* what applications write
  None, NoWire,
  MaxTokens      \* bound on the entries of the store

ASSUME SettingsAssumption == None \notin Settings

\* StaticBearerRequestEngine serves KYC; the others have an AuthSpec.
Static == {"kyc"}
Managed == Services \ Static

\* Only the token request of Cobank has a field for scopes.
TakesScopes == {"cobank"}

VARIABLES
  written,    \* the settings each process was started with, or None
  config,     \* the validated entry of each service, or None
  store,      \* the token cached under each key, as a function of the keys in use
  wire        \* the last request that left

vars == <<written, config, store, wire>>

Init ==
  /\ written = [p \in Processes |-> None]
  /\ config = [p \in Processes |-> None]
  /\ store = [k \in {} |-> None]
  /\ wire = NoWire

-----------------------------------------------------------------------------
(* Settings.  An entry is what an application wrote for one service; its   *)
(* credentials are a record of the five fields, None where nothing is      *)
(* written.  Entries stand at the top level or under "services".           *)

\* Mutation: the pairs are checked by their first halves alone.
ValidCredentials_FirstHalf(c) ==
  Cardinality({m \in {"api_key", "username", "access_token"} : c[m] # None}) = 1

\* ServiceCredentials: exactly one method, and pairs are complete.
ValidCredentials(c) ==
  LET api_pair  == c.api_key # None \/ c.secret_key # None
      user_pair == c.username # None \/ c.password # None
      token     == c.access_token # None
  IN  /\ api_pair => c.api_key # None /\ c.secret_key # None
      /\ user_pair => c.username # None /\ c.password # None
      /\ Cardinality({m \in {<<1, api_pair>>, <<2, user_pair>>, <<3, token>>} : m[2]}) = 1

\* Mutation: the fields of the two places are merged.
Entry_Merged(s, service) ==
  LET top == s.top[service]
      nested == s.services[service]
  IN  IF top = None THEN nested
      ELSE IF nested = None THEN top
      ELSE [top EXCEPT !.credentials =
              [f \in DOMAIN @ |-> IF @[f] # None THEN @[f] ELSE nested.credentials[f]]]

\* An entry at the top level replaces the one under "services" as a whole.
Entry(s, service) ==
  IF s.top[service] # None THEN s.top[service] ELSE s.services[service]

Validated(s) == [service \in Services |-> Entry(s, service)]

Valid(s) ==
  \A service \in Services :
    Entry(s, service) # None => ValidCredentials(Entry(s, service).credentials)

\* A process starts; with invalid settings it has no client.
Start(p) ==
  /\ written[p] = None
  /\ \E s \in Settings :
       /\ written' = [written EXCEPT ![p] = s]
       /\ config' = [config EXCEPT ![p] = IF Valid(s) THEN Validated(s) ELSE None]
  /\ UNCHANGED <<store, wire>>

\* A process ends, or dies; a shared store keeps what it cached.
Stop(p) ==
  /\ written[p] # None
  /\ written' = [written EXCEPT ![p] = None]
  /\ config' = [config EXCEPT ![p] = None]
  /\ wire' = IF wire # NoWire /\ wire.process = p THEN NoWire ELSE wire
  /\ UNCHANGED store

-----------------------------------------------------------------------------
(* Clients.                                                                *)

\* JibitConfig.service: a missing or disabled service raises.
Usable(p, service) ==
  /\ config[p] # None
  /\ config[p][service] # None
  /\ config[p][service].enabled

Credentials(p, service) == config[p][service].credentials

\* A base URL of the service, or of the SDK.
Origin(p, service) ==
  IF config[p][service].base_url # None THEN config[p][service].base_url
  ELSE written[p].base_url

Identifier(c) == IF c.api_key # None THEN c.api_key ELSE c.username

\* Mutation: the scopes are left out of the key.
CacheKey_NoScopes(p, service) ==
  <<service, Identifier(Credentials(p, service)), Origin(p, service), {}>>

\* _build_cache_key; it raises without an identifier.
CacheKey(p, service) ==
  <<service, Identifier(Credentials(p, service)), Origin(p, service),
    config[p][service].scopes>>

HasAuthenticator(p, service) ==
  /\ service \in Managed /\ Usable(p, service)
  /\ Identifier(Credentials(p, service)) # None

Cached(p, service) == CacheKey(p, service) \in DOMAIN store

RequestedScopes(p, service) ==
  IF service \in TakesScopes THEN config[p][service].scopes ELSE {}

\* _generation_body: whoever has a user name only fails at its first call.
Acquire(p, service) ==
  LET c == Credentials(p, service) IN
  /\ HasAuthenticator(p, service) /\ ~Cached(p, service)
  /\ c.api_key # None /\ c.secret_key # None
  /\ Cardinality(DOMAIN store) < MaxTokens
  /\ wire' = [kind |-> "generate_token", process |-> p, service |-> service,
              origin |-> Origin(p, service), secret |-> <<c.api_key, c.secret_key>>,
              scopes |-> RequestedScopes(p, service)]
  /\ store' = [k \in DOMAIN store \cup {CacheKey(p, service)} |->
                 IF k \in DOMAIN store THEN store[k]
                 ELSE [service |-> service, origin |-> Origin(p, service),
                       account |-> c.api_key, scopes |-> RequestedScopes(p, service)]]
  /\ UNCHANGED <<written, config>>

\* A call with the cached token, or a refresh with it: the replacement has the
\* scope of the token it replaces.
Use(p, service) ==
  /\ HasAuthenticator(p, service) /\ Cached(p, service)
  /\ \E kind \in {"call", "refresh_token"} :
       wire' = [kind |-> kind, process |-> p, service |-> service,
                origin |-> Origin(p, service), token |-> store[CacheKey(p, service)]]
  /\ UNCHANGED <<written, config, store>>

\* The entry is invalidated after a 401, expires, or is evicted.
Drop(k) ==
  /\ store' = [j \in DOMAIN store \ {k} |-> store[j]]
  /\ UNCHANGED <<written, config, wire>>

\* Mutation: a service without an access token takes its other secret.
CallStatic_AnySecret(p, service) ==
  /\ service \in Static /\ Usable(p, service)
  /\ wire' = [kind |-> "static_call", process |-> p, service |-> service,
              origin |-> Origin(p, service),
              token |-> IF Credentials(p, service).access_token # None
                        THEN Credentials(p, service).access_token
                        ELSE Credentials(p, service).secret_key]
  /\ UNCHANGED <<written, config, store>>

\* StaticBearerRequestEngine: the configured token, or JibitConfigurationError.
CallStatic(p, service) ==
  /\ service \in Static /\ Usable(p, service)
  /\ Credentials(p, service).access_token # None
  /\ wire' = [kind |-> "static_call", process |-> p, service |-> service,
              origin |-> Origin(p, service),
              token |-> Credentials(p, service).access_token]
  /\ UNCHANGED <<written, config, store>>

Next ==
  \/ \E p \in Processes :
       \/ Start(p) \/ Stop(p)
       \/ \E service \in Services :
            Acquire(p, service) \/ Use(p, service) \/ CallStatic(p, service)
  \/ \E k \in DOMAIN store : Drop(k)

Spec == Init /\ [][Next]_vars
-----------------------------------------------------------------------------
(* Properties.                                                             *)

\* What an application wrote for a service, wherever it wrote it.
WrittenFor(s, service) == {s.top[service], s.services[service]} \ {None}

\* A token goes to the service and the origin that issued it, for the account
\* and with the scopes of the process that sends it, whoever obtained it and
\* however processes were restarted (_build_cache_key, _build_url).
TokensStayInScope ==
  wire # NoWire /\ wire.kind \in {"call", "refresh_token"} =>
    /\ wire.token.service = wire.service
    /\ wire.token.origin = wire.origin
    /\ wire.token.account = Identifier(Credentials(wire.process, wire.service))
    /\ wire.token.scopes = RequestedScopes(wire.process, wire.service)

\* A token request carries a pair that the application wrote together in one
\* place, and for that service (from_mapping, _generation_body).
PairsStayTogether ==
  wire # NoWire /\ wire.kind = "generate_token" =>
    \E e \in WrittenFor(written[wire.process], wire.service) :
      wire.secret = <<e.credentials.api_key, e.credentials.secret_key>>

\* Nothing leaves from settings in which an entry that counts lacks half of a
\* pair, not even for the other services: docs/configuration.md, "incomplete
\* credential pairs are rejected before a network request is attempted".
IncompleteNeverSends ==
  wire # NoWire =>
    \A service \in Services :
      LET e == Entry(written[wire.process], service) IN
      e # None => /\ e.credentials.api_key = None <=> e.credentials.secret_key = None
                  /\ e.credentials.username = None <=> e.credentials.password = None

\* KYC has no token of its own: it sends the access token that was written for
\* it and nothing else (docs/authentication.md).
StaticTokenOnly ==
  wire # NoWire /\ wire.service \in Static =>
    /\ wire.kind = "static_call"
    /\ \E e \in WrittenFor(written[wire.process], wire.service) :
         wire.token = e.credentials.access_token /\ wire.token # None

=============================================================================
