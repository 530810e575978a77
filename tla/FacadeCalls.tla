---------------------------- MODULE FacadeCalls ----------------------------
(***************************************************************************)
(* Calls of the methods that the service facades really have: ServiceCall  *)
(* with the category, the layers and the checks of ServiceCatalogue.  No   *)
(* method passes an idempotency key.                                       *)
(***************************************************************************)
EXTENDS ServiceCall, ServiceCatalogue

VARIABLE method   \* the facade method of each call

facadeVars == <<allVars, method>>

MethodOptions(m) == [safety |-> m.safety, key |-> NoKey]

FacadeInit ==
  /\ method \in [Calls -> Catalogue]
  /\ options = [c \in Calls |-> MethodOptions(method[c])]
  /\ facade = [c \in Calls |-> method[c].facade]
  /\ CallStart

\* A method that checks nothing rejects nothing, and one that does not parse
\* the body of a 2xx cannot find it malformed.
AsDeclared(c) ==
  stage'[c] = "done" /\ stage[c] # "done" =>
    /\ ~method[c].checked => stage[c] # "idle" \/ outcome'[c] # "Validation"
    /\ ~method[c].typed /\ pc[c] = "returned" => outcome'[c] # "Response"

FacadeNext == CallNext /\ UNCHANGED method /\ \A c \in Calls : AsDeclared(c)

\* See CallFairness.
FacadeFairness ==
  \A c \in Calls :
    WF_facadeVars(CallerStep(c) /\ UNCHANGED method /\ AsDeclared(c))

FacadeSpec == FacadeInit /\ [][FacadeNext]_facadeVars /\ FacadeFairness
-----------------------------------------------------------------------------
(* Properties.                                                             *)

\* The submissions named in docs/retry-and-idempotency.md, which the SDK "never
\* blindly resubmits": payment, refund, transfer, settlement, Direct Debit,
\* messages, contracts, and their cancellation.
Submissions ==
  [payment_gateway |-> {"create_purchase", "refund_purchase", "retry_refund",
                        "cancel_refund"},
   transfers       |-> {"submit_batch", "retry_failed", "cancel"},
   cobank          |-> {"create_settlement"},
   direct_debit    |-> {"create_mandate", "collect", "revoke_mandate"},
   sms             |-> {"send", "send_pattern", "create_bulk"},
   contracts       |-> {"initiate", "cancel"},
   identicator     |-> {},
   kyc             |-> {}]

\* One call of a submission method puts it on the wire once and the provider
\* performs it at most once, and never after the caller was told that it
\* failed (the categories passed by services/*/service.py, RetryPolicy.decide).
SubmittedOnce ==
  \A c \in Calls :
    method[c].name \in Submissions[method[c].service] =>
      /\ Len(copies[c]) <= 1
      /\ stage[c] = "done" /\ audit[c] = <<"failed">> => ~MayBeApplied(c)

\* Every method but the gateway's inquiries accounts for what it did: when a
\* call that reached the provider ends with data or an SDK error, exactly one
\* event was written, and it says "succeeded" whenever the caller has data
\* (services/base.py and the audited methods of PaymentGatewayService).
EveryCallIsAudited ==
  \A c \in Calls :
    /\ stage[c] = "done" /\ copies[c] # <<>> /\ outcome[c] # "exception"
    /\ method[c] \notin GatewayInquiries
    => /\ Len(audit[c]) = 1
       /\ outcome[c] = "response" => audit[c] = <<"succeeded">>
       /\ audit[c] = <<"succeeded">> => Applied(c)

=============================================================================
