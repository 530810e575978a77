------------------------- MODULE CallbackProcessing -------------------------
(***************************************************************************)
(* parse_callback (webhooks/base.py) in the request handlers of an         *)
(* application, several at a time, over one deduplication store.  The      *)
(* provider repeats a callback until it is acknowledged; others may send   *)
(* callbacks that look alike.  The application around parse_callback is    *)
(* the one docs/webhooks.md shows: acknowledge a duplicate, and process    *)
(* an original before it is acknowledged.                                  *)
(***************************************************************************)
EXTENDS Naturals

CONSTANTS Handlers,   \* request handlers of the application
          Keys        \* deduplication keys: purchase ids

VARIABLES
  setup,        \* what each handler passes to parse_callback
  pc,           \* where the handler is
  delivery,     \* the callback it works on
  claimed,      \* the keys in the deduplication store
  originals,    \* how often a key was claimed and handed over as new
  handled,      \* keys the application has processed
  interrupted,  \* keys whose claim was lost with its handler or its answer
  acknowledged  \* keys whose callback was answered with a success

vars == <<setup, pc, delivery, claimed, originals, handled, interrupted,
          acknowledged>>
keyVars == <<claimed, originals, handled, interrupted, acknowledged>>

\* With all parameters, or with one of verifier, deduplication_store and
\* deduplication_key left out.
Setups == {"complete", "no_verifier", "no_store", "no_key"}

Deliveries == [key : Keys, wellFormed : BOOLEAN, authentic : BOOLEAN]

ControlStates ==
  {"idle", "received", "parsed", "verified", "original", "duplicate"}

TypeOK ==
  /\ setup \in [Handlers -> Setups]
  /\ pc \in [Handlers -> ControlStates]
  /\ delivery \in [Handlers -> Deliveries]
  /\ claimed \subseteq Keys /\ handled \subseteq Keys
  /\ interrupted \subseteq Keys /\ acknowledged \subseteq Keys
  /\ originals \in [Keys -> Nat]

Init ==
  /\ setup \in [Handlers -> Setups]
  /\ pc = [h \in Handlers |-> "idle"]
  /\ \E k \in Keys : delivery =
       [h \in Handlers |-> [key |-> k, wellFormed |-> TRUE, authentic |-> TRUE]]
  /\ originals = [k \in Keys |-> 0]
  /\ claimed = {} /\ handled = {} /\ interrupted = {} /\ acknowledged = {}

Goto(h, state) == pc' = [pc EXCEPT ![h] = state]

-----------------------------------------------------------------------------
(* Arrival of a callback: the first, a repetition or a delayed copy of one *)
(* the provider has sent, or somebody else's.                              *)

Receive(h) ==
  /\ pc[h] = "idle"
  /\ \E d \in Deliveries :
       /\ d.authentic => d.wellFormed
       /\ delivery' = [delivery EXCEPT ![h] = d]
  /\ Goto(h, "received")
  /\ UNCHANGED <<setup, keyVars>>

-----------------------------------------------------------------------------
(* parse_callback.  A rejection raises JibitWebhookVerificationError; the  *)
(* handler answers with an error and the provider will try again.          *)

Reject(h) ==
  /\ Goto(h, "idle")
  /\ UNCHANGED <<setup, delivery, keyVars>>

Parse(h) ==
  /\ pc[h] = "received" /\ delivery[h].wellFormed
  /\ Goto(h, "parsed")
  /\ UNCHANGED <<setup, delivery, keyVars>>

RejectPayload(h) ==
  /\ pc[h] = "received" /\ ~delivery[h].wellFormed /\ Reject(h)

Verify(h) ==
  /\ pc[h] = "parsed" /\ setup[h] # "no_verifier" /\ delivery[h].authentic
  /\ Goto(h, "verified")
  /\ UNCHANGED <<setup, delivery, keyVars>>

\* Mutation: the key is claimed before the callback is verified.
RejectAuthenticity_AfterClaim(h) ==
  /\ pc[h] = "parsed"
  /\ claimed' = claimed \cup {delivery[h].key}
  /\ Goto(h, "idle")
  /\ UNCHANGED <<setup, delivery, originals, handled, interrupted, acknowledged>>

\* No verifier, a verifier that says no, or one that raises.
RejectAuthenticity(h) == pc[h] = "parsed" /\ Reject(h)

RejectSetup(h) == pc[h] = "verified" /\ setup[h] = "no_key" /\ Reject(h)

SkipStore(h) ==
  /\ pc[h] = "verified" /\ setup[h] = "no_store"
  /\ Goto(h, "original")
  /\ UNCHANGED <<setup, delivery, keyVars>>

Claiming(h) == pc[h] = "verified" /\ setup[h] = "complete"

\* claim returns True.
Claim(h) ==
  /\ Claiming(h) /\ delivery[h].key \notin claimed
  /\ claimed' = claimed \cup {delivery[h].key}
  /\ originals' = [originals EXCEPT ![delivery[h].key] = @ + 1]
  /\ Goto(h, "original")
  /\ UNCHANGED <<setup, delivery, handled, interrupted, acknowledged>>

\* claim returns False.
FindDuplicate(h) ==
  /\ Claiming(h) /\ delivery[h].key \in claimed
  /\ Goto(h, "duplicate")
  /\ UNCHANGED <<setup, delivery, keyVars>>

\* Mutation: a store that raises does not stop the callback.
ClaimRaises_FailsOpen(h) ==
  /\ Claiming(h)
  /\ originals' = [originals EXCEPT ![delivery[h].key] = @ + 1]
  /\ Goto(h, "original")
  /\ UNCHANGED <<setup, delivery, claimed, handled, interrupted, acknowledged>>

\* Mutation: a store that raises is taken for a duplicate.
ClaimRaises_AsDuplicate(h) ==
  /\ Claiming(h)
  /\ Goto(h, "duplicate")
  /\ UNCHANGED <<setup, delivery, keyVars>>

\* claim raises, before or after the store has taken the key: rejected.
ClaimRaises(h) ==
  /\ Claiming(h)
  /\ \/ UNCHANGED <<claimed, interrupted>>
     \/ /\ delivery[h].key \notin claimed
        /\ claimed' = claimed \cup {delivery[h].key}
        /\ interrupted' = interrupted \cup {delivery[h].key}
  /\ Goto(h, "idle")
  /\ UNCHANGED <<setup, delivery, originals, handled, acknowledged>>

ParseCallback(h) ==
  \/ Parse(h) \/ RejectPayload(h) \/ Verify(h) \/ RejectAuthenticity(h)
  \/ RejectSetup(h) \/ SkipStore(h) \/ Claim(h) \/ FindDuplicate(h)
  \/ ClaimRaises(h)

-----------------------------------------------------------------------------
(* The application and its process.                                        *)

\* The purchase of an original is verified, or its reconciliation scheduled;
\* a duplicate is only acknowledged.
Acknowledge(h) ==
  /\ pc[h] \in {"original", "duplicate"}
  /\ acknowledged' = acknowledged \cup {delivery[h].key}
  /\ handled' = IF pc[h] = "original"
                  THEN handled \cup {delivery[h].key} ELSE handled
  /\ Goto(h, "idle")
  /\ UNCHANGED <<setup, delivery, claimed, originals, interrupted>>

\* The worker dies; what the store holds stays.
Crash(h) ==
  /\ pc[h] # "idle"
  /\ interrupted' = IF pc[h] = "original" /\ setup[h] = "complete"
                      THEN interrupted \cup {delivery[h].key} ELSE interrupted
  /\ Goto(h, "idle")
  /\ UNCHANGED <<setup, delivery, claimed, originals, handled, acknowledged>>

Next ==
  \E h \in Handlers :
    Receive(h) \/ ParseCallback(h) \/ Acknowledge(h) \/ Crash(h)

Spec == Init /\ [][Next]_vars
-----------------------------------------------------------------------------
(* Properties.                                                             *)

\* However often a callback is delivered, and whatever fails in between, at
\* most one handler with a store gets it as new (the claim in parse_callback,
\* "application-owned atomic deduplication" in docs/webhooks.md).
OriginalOnce == \A k \in Keys : originals[k] <= 1

\* Only an authentic callback uses up its key: whatever is claimed was handed
\* over as new, or the store failed over it (verification stands before the
\* claim in parse_callback).
ClaimsAreAccounted ==
  \A k \in claimed : originals[k] = 1 \/ k \in interrupted

InProgress(k) == \E h \in Handlers : pc[h] = "original" /\ delivery[h].key = k

\* A success is answered only for a callback that was processed, is being
\* processed by another handler, or was held by a handler that a crash or a
\* failing store interrupted: the two ways in which one can be lost.
AcknowledgedIsAccounted ==
  \A k \in acknowledged : k \in handled \cup interrupted \/ InProgress(k)

=============================================================================
