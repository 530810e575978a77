-------------------------- MODULE MCServiceScopes --------------------------
(* Instances of ServiceScopes for TLC.                                     *)
EXTENDS ServiceScopes

Nothing == [api_key |-> None, secret_key |-> None, username |-> None,
            password |-> None, access_token |-> None]

ApiPair(a, s) == [Nothing EXCEPT !.api_key = a, !.secret_key = s]
Half(a) == [Nothing EXCEPT !.api_key = a]
UserPair == [Nothing EXCEPT !.username = "user", !.password = "word"]
AccessToken == [Nothing EXCEPT !.access_token = "token"]

Plain(c) == [credentials |-> c, base_url |-> None, enabled |-> TRUE, scopes |-> {}]

Entries ==
  {Plain(c) : c \in {ApiPair("a", "sa"), ApiPair("b", "sb"), Half("b"), UserPair, AccessToken}}
    \cup {[Plain(ApiPair("a", "sa")) EXCEPT !.base_url = "other"],
          [Plain(ApiPair("a", "sa")) EXCEPT !.scopes = {"settlement"}],
          [Plain(AccessToken) EXCEPT !.enabled = FALSE]}

Unset == [s \in Services |-> None]

\* One service written in every way; the same service in both places; and two
\* services with one account.
SmallSettings ==
  {[base_url |-> "napi", top |-> [Unset EXCEPT ![s] = e], services |-> Unset] :
     s \in Services, e \in Entries}
    \cup
  {[base_url |-> "napi", top |-> [Unset EXCEPT ![s] = e],
    services |-> [Unset EXCEPT ![s] = Plain(ApiPair("a", "sa"))]] :
     s \in Services, e \in {Plain(Half("b")), Plain(ApiPair("b", "sb"))}}
    \cup
  {[base_url |-> b, top |-> Unset,
    services |-> [s \in Services |->
                    IF s \in Static THEN x ELSE Plain(ApiPair("a", "sa"))]] :
     b \in {"napi", "other"}, x \in {None, Plain(AccessToken), Plain(Half("b"))}}

=============================================================================
