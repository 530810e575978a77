------------------------- MODULE FacadeCallsProofs -------------------------
(***************************************************************************)
(* Theorems about the methods of the catalogue, from the invariant of      *)
(* ServiceCall: what a submission puts on the wire and what the audit      *)
(* trail says of it, for any number of calls of any methods.               *)
(***************************************************************************)
EXTENDS FacadeCalls, ServiceCallProofs

-----------------------------------------------------------------------------
(* Facts about the catalogue.                                              *)

\* What the theorems need to know of a method: which layers it passes, that
\* only the inquiries of the gateway are unaudited, and that a submission is
\* unsafe.
Declared(m) ==
  /\ m.facade \in Facades
  /\ m.facade = "plain" => m \in GatewayInquiries /\ m.safety = "read_only"
  /\ m.name \in Submissions[m.service] => m.safety = "unsafe"

\* The submissions, service by service.
LEMMA SubmissionNames ==
  /\ Submissions["payment_gateway"] =
       {"create_purchase", "refund_purchase", "retry_refund", "cancel_refund"}
  /\ Submissions["transfers"] = {"submit_batch", "retry_failed", "cancel"}
  /\ Submissions["cobank"] = {"create_settlement"}
  /\ Submissions["direct_debit"] = {"create_mandate", "collect", "revoke_mandate"}
  /\ Submissions["sms"] = {"send", "send_pattern", "create_bulk"}
  /\ Submissions["contracts"] = {"initiate", "cancel"}
  /\ Submissions["identicator"] = {} /\ Submissions["kyc"] = {}
  BY DEF Submissions

\* The payment gateway.
LEMMA GatewayDeclared ==
  ASSUME NEW m \in PurchaseWrites \cup RefundActions \cup GatewayInquiries
  PROVE  Declared(m)
  <1>1. CASE m \in PurchaseWrites
    <2>1. /\ m.service = "payment_gateway" /\ m.facade = "gateway"
          /\ m.safety = "unsafe" \/ m.name \in {"verify_purchase", "reverse_purchase"}
      BY <1>1 DEF PurchaseWrites, Methods
    <2> QED BY <2>1, SubmissionNames DEF Declared, Facades
  <1>2. CASE m \in RefundActions
    <2>1. m.facade = "gateway" /\ m.safety = "unsafe"
      BY <1>2 DEF RefundActions, Methods
    <2> QED BY <2>1 DEF Declared, Facades
  <1>3. CASE m \in GatewayInquiries
    <2>1. /\ m.service = "payment_gateway" /\ m.facade = "plain"
          /\ m.safety = "read_only"
          /\ m.name \in {"inquire_purchase", "inquire_refund", "filter_purchases",
                         "list_terminals", "filter_settlements",
                         "filter_purchase_histories", "get_balances", "health"}
      BY <1>3 DEF GatewayInquiries, Methods
    <2> QED BY <1>3, <2>1, SubmissionNames DEF Declared, Facades
  <1> QED BY <1>1, <1>2, <1>3

\* Transfers and cobank.
LEMMA TransfersDeclared ==
  ASSUME NEW m \in TransferWrites \cup TransferInquiries \cup Cobank
  PROVE  Declared(m)
  <1>1. CASE m \in TransferWrites
    <2>1. m.facade = "executor" /\ m.safety = "unsafe"
      BY <1>1 DEF TransferWrites, Methods
    <2> QED BY <2>1 DEF Declared, Facades
  <1>2. CASE m \in TransferInquiries
    <2>1. /\ m.service = "transfers" /\ m.facade = "executor"
          /\ m.name \in {"inquire", "filter_transfers", "get_daily_usage_report",
                         "get_balances", "get_supported_normal_banks",
                         "get_active_normal_banks", "generate_batch"}
      BY <1>2 DEF TransferInquiries, Methods
    <2> QED BY <2>1, SubmissionNames DEF Declared, Facades
  <1>3. CASE m \in Cobank
    <2>1. /\ m.service = "cobank" /\ m.facade = "executor"
          /\ \/ m.safety = "unsafe"
             \/ m.name \in {"batch_inquire_settlements", "set_settlement_receipt",
                            "set_record_receipt", "inquire_settlement",
                            "list_settlements", "get_merchant_accounts"}
      BY <1>3 DEF Cobank, Methods
    <2> QED BY <2>1, SubmissionNames DEF Declared, Facades
  <1> QED BY <1>1, <1>2, <1>3

\* Direct debit.
LEMMA MandatesDeclared ==
  ASSUME NEW m \in MandateWrites \cup MandateUpdates \cup MandateInquiries
  PROVE  Declared(m)
  <1>1. CASE m \in MandateWrites \cup MandateUpdates
    <2>1. m.facade = "executor" /\ m.safety = "unsafe"
      BY <1>1 DEF MandateWrites, MandateUpdates, Methods
    <2> QED BY <2>1 DEF Declared, Facades
  <1>2. CASE m \in MandateInquiries
    <2>1. /\ m.service = "direct_debit" /\ m.facade = "executor"
          /\ m.name \in {"inquire_transaction", "list_subscription_transactions",
                         "inquire_mandate", "inquire_creditor_mandate",
                         "get_active_banks"}
      BY <1>2 DEF MandateInquiries, Methods
    <2> QED BY <2>1, SubmissionNames DEF Declared, Facades
  <1> QED BY <1>1, <1>2

\* Messages and contracts.
LEMMA MessagesDeclared ==
  ASSUME NEW m \in Sms \cup Contracts
  PROVE  Declared(m)
  <1>1. CASE m \in Sms
    <2>1. /\ m.service = "sms" /\ m.facade = "executor"
          /\ \/ m.safety = "unsafe"
             \/ m.name \in {"get_status", "get_status_by_client_id", "get_bulk",
                            "fetch_inbound"}
      BY <1>1 DEF Sms, Methods
    <2> QED BY <2>1, SubmissionNames DEF Declared, Facades
  <1>2. CASE m \in Contracts
    <2>1. /\ m.service = "contracts" /\ m.facade = "executor"
          /\ m.safety = "unsafe" \/ m.name \in {"inquire", "download_signed"}
      BY <1>2 DEF Contracts, Methods
    <2> QED BY <2>1, SubmissionNames DEF Declared, Facades
  <1> QED BY <1>1, <1>2

\* The identicator and KYC.
LEMMA IdentitiesDeclared ==
  ASSUME NEW m \in BankingInquiries \cup IdentityInquiries
                     \cup RegistryInquiries \cup Kyc
  PROVE  Declared(m)
  <1>1. CASE m \in BankingInquiries \cup IdentityInquiries \cup RegistryInquiries
    <2>1. m.service = "identicator" /\ m.facade = "executor"
      BY <1>1 DEF BankingInquiries, IdentityInquiries, RegistryInquiries, Methods
    <2> QED BY <2>1, SubmissionNames DEF Declared, Facades
  <1>2. CASE m \in Kyc
    <2>1. m.facade = "static" /\ m.safety = "unsafe"
      BY <1>2 DEF Kyc, Methods
    <2> QED BY <2>1 DEF Declared, Facades
  <1> QED BY <1>1, <1>2

\* No method of any facade can repeat a submission, and none but the inquiries
\* of the gateway escapes the audit trail.
THEOREM CatalogueDeclared == \A m \in Catalogue : Declared(m)
  <1> SUFFICES ASSUME NEW m \in Catalogue PROVE Declared(m)
    OBVIOUS
  <1>1. \/ m \in PurchaseWrites \cup RefundActions \cup GatewayInquiries
        \/ m \in TransferWrites \cup TransferInquiries \cup Cobank
        \/ m \in MandateWrites \cup MandateUpdates \cup MandateInquiries
        \/ m \in Sms \cup Contracts
        \/ m \in BankingInquiries \cup IdentityInquiries \cup RegistryInquiries
                   \cup Kyc
    BY DEF Catalogue
  <1> QED BY <1>1, GatewayDeclared, TransfersDeclared, MandatesDeclared,
             MessagesDeclared, IdentitiesDeclared

-----------------------------------------------------------------------------
(* Calls of the methods.                                                   *)

\* The invariant of ServiceCall, for calls that are what their methods declare.
FacadeInv ==
  /\ CallInv
  /\ method \in [Calls -> Catalogue]
  /\ \A c \in Calls : /\ options[c] = MethodOptions(method[c])
                      /\ facade[c] = method[c].facade

\* What a method passes on of its declaration.
LEMMA OptionsOfMethod ==
  \A m : MethodOptions(m).safety = m.safety /\ MethodOptions(m).key = NoKey
  BY DEF MethodOptions

\* It holds before any call, and no method then has effects or events.
LEMMA FacadeInitInv == FacadeInit => FacadeInv /\ Contract!Init
  <1> SUFFICES ASSUME FacadeInit PROVE FacadeInv /\ Contract!Init
    OBVIOUS
  <1>1. /\ method \in [Calls -> Catalogue] /\ CallStart
        /\ \A c \in Calls : /\ options[c] = MethodOptions(method[c])
                            /\ facade[c] = method[c].facade
    BY DEF FacadeInit
  <1>2. \A c \in Calls : /\ method[c].facade \in Facades
                         /\ method[c].facade = "plain" =>
                              method[c].safety = "read_only"
    BY <1>1, CatalogueDeclared DEF Declared
  <1>3. facade \in [Calls -> Facades]
    BY <1>2 DEF FacadeInit
  <1>4. \A c \in Calls : facade[c] = "plain" => options[c].safety = "read_only"
    <2>1. ASSUME NEW c \in Calls, facade[c] = "plain"
          PROVE  options[c].safety = "read_only"
      <3>1. method[c].safety = "read_only"
        BY <1>1, <1>2, <2>1
      <3>2. options[c] = MethodOptions(method[c])
        BY <1>1
      <3>3. options[c].safety = method[c].safety
        BY <3>2, OptionsOfMethod
      <3> QED BY <3>1, <3>3
    <2> QED BY <2>1
  <1>5. CallInv
    BY <1>1, <1>3, <1>4, StartInv
  <1> QED BY <1>1, <1>5, ContractInit DEF FacadeInv

\* A step that a thread takes for a call leaves its options and layers alone.
LEMMA OptionsStay ==
  ASSUME TypeOK, CallNext
  PROVE  options' = options /\ facade' = facade
  <1>1. ASSUME NEW c \in Calls, ProviderStep(c)
        PROVE  options' = options /\ facade' = facade
    BY <1>1, WorldEffects DEF ProviderStep, callVars
  <1>2. ASSUME NEW c \in Calls, Enter(c) \/ EngineStep(c)
        PROVE  options' = options /\ facade' = facade
    BY <1>2, ThreadFrame DEF Enter, EngineStep, callVars
  <1>3. ASSUME NEW c \in Calls, NEW events, NEW end, End(c, events, end)
        PROVE  options' = options /\ facade' = facade
    BY <1>3 DEF End, vars
  <1>4. ASSUME NEW c \in Calls, Recover(c) \/ Replay(c)
        PROVE  options' = options /\ facade' = facade
    BY <1>4 DEF Recover, Replay, vars
  <1>5. ASSUME NEW c \in Calls, Ending(c)
        PROVE  options' = options /\ facade' = facade
    BY <1>3, <1>5 DEF Ending, RejectInput, TokenUnavailable, ClientClosed,
       Responded, Failed, GiveUp, RecoveryFails, TokenRaises, EndWithResponse,
       EndWithError, EndWithException
  <1> QED BY <1>1, <1>2, <1>4, <1>5 DEF CallNext, CallerStep, Ending

\* Every step keeps the invariant and is a step of the contract.
LEMMA FacadeStepInv ==
  FacadeInv /\ [FacadeNext]_facadeVars =>
    FacadeInv' /\ [Contract!Next]_(Contract!contractVars)
  <1> SUFFICES ASSUME FacadeInv, [FacadeNext]_facadeVars
               PROVE  FacadeInv' /\ [Contract!Next]_(Contract!contractVars)
    OBVIOUS
  <1>1. [CallNext]_allVars /\ method' = method
    BY DEF FacadeNext, facadeVars
  <1>2. CallInv' /\ [Contract!Next]_(Contract!contractVars)
    BY <1>1, CallStepInv, ContractStep DEF FacadeInv
  <1>3. options' = options /\ facade' = facade
    <2>1. CASE CallNext
      BY <2>1, OptionsStay DEF FacadeInv, CallInv, IInv
    <2>2. CASE UNCHANGED allVars
      BY <2>2 DEF allVars, callVars, vars
    <2> QED BY <1>1, <2>1, <2>2
  <1> QED BY <1>1, <1>2, <1>3 DEF FacadeInv

\* The invariant holds whatever methods are called.
THEOREM FacadeInvariance == FacadeSpec => []FacadeInv
  BY FacadeInitInv, FacadeStepInv, PTL DEF FacadeSpec

\* One call of a submission method is on the wire at most once, and is not
\* performed after it was reported as failed.
THEOREM SubmissionsLeaveOnce == FacadeSpec => []SubmittedOnce
  <1>1. ASSUME FacadeInv PROVE SubmittedOnce
    <2> SUFFICES ASSUME NEW c \in Calls,
                        method[c].name \in Submissions[method[c].service]
                 PROVE  /\ Len(copies[c]) <= 1
                        /\ stage[c] = "done" /\ audit[c] = <<"failed">> =>
                             ~MayBeApplied(c)
      BY DEF SubmittedOnce
    <2>1. Unrepeatable(c)
      <3>1. method[c] \in Catalogue /\ options[c] = MethodOptions(method[c])
        BY <1>1 DEF FacadeInv
      <3>2. options[c].safety = method[c].safety /\ options[c].key = NoKey
        BY <3>1, OptionsOfMethod
      <3>3. method[c].safety = "unsafe"
        BY <3>1, CatalogueDeclared DEF Declared
      <3> QED BY <3>2, <3>3 DEF Unrepeatable
    <2>2. Len(copies[c]) <= 1
      BY <1>1, <2>1 DEF FacadeInv, CallInv, IInv, SentInv
    <2>3. stage[c] = "done" /\ audit[c] = <<"failed">> => ~MayBeApplied(c)
      BY <1>1, <2>1, TrailsDiffer DEF FacadeInv, CallInv, UncertaintyIsAudited
    <2> QED BY <2>2, <2>3
  <1> QED BY <1>1, FacadeInvariance, PTL

\* Every audited method accounts for what it did: one event whenever a request
\* left, success whenever the caller has data, and only for what was performed.
THEOREM CallsAreAudited == FacadeSpec => []EveryCallIsAudited
  <1>1. ASSUME FacadeInv PROVE EveryCallIsAudited
    <2> SUFFICES ASSUME NEW c \in Calls, stage[c] = "done", copies[c] # <<>>,
                        outcome[c] # "exception", method[c] \notin GatewayInquiries
                 PROVE  /\ Len(audit[c]) = 1
                        /\ outcome[c] = "response" => audit[c] = <<"succeeded">>
                        /\ audit[c] = <<"succeeded">> => Applied(c)
      BY DEF EveryCallIsAudited
    <2>1. facade[c] # "plain"
      BY <1>1, CatalogueDeclared DEF FacadeInv, Declared
    <2>2. /\ audit[c] \in Trails /\ audit[c] # <<>>
          /\ outcome[c] = "response" => audit[c] = <<"succeeded">>
          /\ audit[c] = <<"succeeded">> => Acted(c)
      BY <1>1, <2>1 DEF FacadeInv, CallInv, TrailInv
    <2>3. \A x : Len(<<x>>) = 1
      OBVIOUS
    <2>4. Len(audit[c]) = 1
      BY <2>2, <2>3 DEF Trails
    <2>5. ~Honoured(c)
      <3>1. options[c] = MethodOptions(method[c])
        BY <1>1 DEF FacadeInv
      <3>2. options[c].key = NoKey
        BY <3>1, OptionsOfMethod
      <3> QED BY <3>2 DEF Honoured
    <2> QED BY <2>2, <2>4, <2>5 DEF Acted
  <1> QED BY <1>1, FacadeInvariance, PTL

\* The typing, the audit of uncertainty and the gateway's event hold for calls
\* of the real methods.
THEOREM FacadesAudit ==
  FacadeSpec => [](CallTypeOK /\ UncertaintyIsAudited /\ GatewayAuditMatchesCaller)
  <1>1. FacadeInv =>
          CallTypeOK /\ UncertaintyIsAudited /\ GatewayAuditMatchesCaller
    BY CallTypes DEF FacadeInv, CallInv
  <1> QED BY <1>1, FacadeInvariance, PTL

\* Calls of the real methods implement the contract.
THEOREM FacadesImplementTheContract == FacadeSpec => ImplementsContractSafely
  <1>1. FacadeSpec => Contract!Init /\ [][Contract!Next]_(Contract!contractVars)
    BY FacadeInitInv, FacadeStepInv, FacadeInvariance, PTL DEF FacadeSpec
  <1> QED BY <1>1 DEF ImplementsContractSafely

=============================================================================
