------------------------------ MODULE Requests ------------------------------
(***************************************************************************)
(* One caller of the service methods that check what they send.  It passes *)
(* keywords, or a request object that it constructed earlier and may have  *)
(* assigned to since: request models are not frozen, and nothing checks an *)
(* assignment.  When the outcome of a submission is uncertain, it asks for *)
(* the result by the reference that it chose.                              *)
(***************************************************************************)
EXTENDS RequestRules

CONSTANTS
  Inputs,       \* for each model, the values that callers try
  Reconciled,   \* the submissions of which UncertainIsReconcilable speaks
  MaxAssigns    \* bound on the assignments to an object

\* Callers pass values of the declared types: pydantic converts or refuses others.
ASSUME InputsAssumption ==
  /\ \A model \in Models : Inputs[model] \subseteq Fields[model]
  /\ MaxAssigns \in Nat

VARIABLES
  object,    \* the caller's request object: its model and its values
  checked,   \* the values with which it was constructed
  assigns,   \* assignments since then
  wire,      \* the last request that left, while the object is as it was then
  outcome,   \* how the last step of the caller ended
  inquiry    \* how the inquiry after an uncertain submission ended

NoObject == [model |-> "none"]
NoWire == [method |-> "none"]

vars == <<object, checked, assigns, wire, outcome, inquiry>>

MethodModel ==
  [create_purchase |-> "purchase", reverse_purchase |-> "identifier",
   refund_purchase |-> "refund", filter_purchases |-> "purchase_filter",
   filter_purchase_histories |-> "history_filter",
   filter_settlements |-> "settlement_filter", submit_batch |-> "batch",
   generate_batch |-> "generator", inquire |-> "selector", cancel |-> "selector",
   retry_failed |-> "selector", set_receipt_enabled |-> "selector",
   filter_transfers |-> "transfer_filter", create_settlement |-> "settlement",
   batch_inquire_settlements |-> "track_ids", create_mandate |-> "mandate",
   collect |-> "collection", send |-> "message", send_pattern |-> "message",
   create_bulk |-> "bulk", fetch_inbound |-> "inbound", initiate |-> "contract",
   match |-> "matching", compare_identity_names |-> "similarity",
   inquire_card |-> "card", verify_video |-> "video", verify_photo |-> "photo",
   ocr_national_card |-> "ocr", ocr_cheque |-> "ocr", ocr_bank_card |-> "ocr"]

Methods == DOMAIN MethodModel

\* Methods that take an object and nothing else, or an object or keywords.
CriteriaMethods ==
  {"filter_purchases", "filter_purchase_histories", "filter_settlements"}
EitherMethods ==
  {"create_mandate", "match", "compare_identity_names", "generate_batch"}

\* The models whose objects callers build: those of these methods, and the parts
\* of the requests of submit_batch, create_purchase and initiate.
Parts == {"transfer", "switching", "signer"}
ObjectModels == {MethodModel[m] : m \in CriteriaMethods \cup EitherMethods} \cup Parts

\* The reference by which the caller can ask for a submission, and the rule of
\* the method that asks.
ReferenceOf ==
  [create_purchase |-> "client_reference_number", submit_batch |-> "batch_id",
   create_settlement |-> "record_track_id", initiate |-> "track_id",
   create_mandate |-> "creditor_mandate_reference",
   collect |-> "creditor_transaction_no",
   send |-> "client_message_id", send_pattern |-> "client_message_id"]

InquiryRule ==
  [create_purchase |-> PurchaseInquiry, submit_batch |-> BatchInquiry,
   create_settlement |-> SettlementInquiry, initiate |-> ContractInquiry,
   create_mandate |-> DebitInquiry, collect |-> DebitInquiry,
   send |-> MessageInquiry, send_pattern |-> MessageInquiry]

Submissions == DOMAIN ReferenceOf

Init ==
  /\ object = NoObject /\ checked = None /\ assigns = 0
  /\ wire = NoWire /\ outcome = "none" /\ inquiry = "none"

-----------------------------------------------------------------------------
(* Request objects.                                                        *)

\* pydantic raises its own ValidationError to the caller that constructs, and
\* lets a TypeError of a validator through.
Construct(model) ==
  /\ object = NoObject /\ model \in ObjectModels
  /\ \E v \in Inputs[model] :
       IF Accepts(model, v)
       THEN /\ object' = [model |-> model, values |-> v]
            /\ checked' = v /\ outcome' = "constructed"
       ELSE /\ outcome' = IF Incomparable(model, v) THEN "TypeError"
                          ELSE "ValidationError"
            /\ UNCHANGED <<object, checked>>
  /\ wire' = NoWire /\ inquiry' = "none"
  /\ UNCHANGED assigns

\* Mutation: request models accept unknown fields (extra="allow").
Assign_Unknown ==
  /\ object # NoObject /\ assigns < MaxAssigns
  /\ object' = [object EXCEPT !.values =
                  [f \in DOMAIN object.values \cup {"unknown"} |->
                     IF f \in DOMAIN object.values THEN object.values[f] ELSE "x"]]
  /\ assigns' = assigns + 1
  /\ wire' = NoWire /\ outcome' = "assigned" /\ inquiry' = "none"
  /\ UNCHANGED checked

\* object.field = value: no validator runs.
Assign ==
  /\ object # NoObject /\ assigns < MaxAssigns
  /\ \E v \in Inputs[object.model] :
       /\ \E f \in DOMAIN v :
            v[f] # object.values[f] /\ v = [object.values EXCEPT ![f] = v[f]]
       /\ object' = [object EXCEPT !.values = v]
  /\ assigns' = assigns + 1
  /\ wire' = NoWire /\ outcome' = "assigned" /\ inquiry' = "none"
  /\ UNCHANGED checked

-----------------------------------------------------------------------------
(* Calls.                                                                  *)

Leave(method, workflow, body, source) ==
  /\ \E uncertain \in BOOLEAN :
       /\ uncertain => method \in Submissions
       /\ wire' = [method |-> method, workflow |-> workflow, body |-> body,
                   source |-> source, uncertain |-> uncertain]
  /\ outcome' = "sent" /\ inquiry' = "none"
  /\ UNCHANGED <<object, checked, assigns>>

Refuse(error) ==
  /\ wire' = NoWire /\ outcome' = error /\ inquiry' = "none"
  /\ UNCHANGED <<object, checked, assigns>>

\* Mutation: the incompatible fields are removed from the request itself.
Mandate_InPlace(workflow, v, source) ==
  IF workflow \in Workflows /\ MandateIsComplete(workflow, v)
  THEN /\ wire' = [method |-> "create_mandate", workflow |-> workflow,
                   body |-> MandateBody(workflow, v), source |-> source,
                   uncertain |-> FALSE]
       /\ object' = IF source = "object"
                    THEN [object EXCEPT !.values =
                            [f \in DOMAIN v |-> IF f \in Incompatible[workflow]
                                                THEN None ELSE v[f]]]
                    ELSE object
       /\ outcome' = "sent" /\ inquiry' = "none"
       /\ UNCHANGED <<checked, assigns>>
  ELSE Refuse("Validation")

\* create_mandate checks what the workflow needs at every call and removes
\* what it does not know from the payload.
CreateMandate(workflow, v, source) ==
  IF workflow \in Workflows /\ MandateIsComplete(workflow, v)
  THEN Leave("create_mandate", workflow, MandateBody(workflow, v), source)
  ELSE Refuse("Validation")

Issue(method, v, source) ==
  \/ /\ method = "create_mandate"
     /\ \E workflow \in Workflows \cup {"weekly"} : CreateMandate(workflow, v, source)
  \/ /\ method # "create_mandate"
     /\ Leave(method, None, Payload(v), source)

\* An object is sent as it is now.
CallWithObject(method) ==
  /\ object # NoObject /\ method \in CriteriaMethods \cup EitherMethods
  /\ object.model = MethodModel[method]
  /\ Issue(method, object.values, "object")

\* filter_purchases() and filter_settlements() send every default.
CallWithNothing(method) ==
  /\ object = NoObject /\ method \in {"filter_purchases", "filter_settlements"}
  /\ Leave(method, None, Payload(<<>>), "keywords")

\* "Provide request or keyword values, not both".
CallWithBoth(method) ==
  /\ object # NoObject /\ method \in EitherMethods
  /\ object.model = MethodModel[method]
  /\ Refuse("Validation")

\* validate_request turns ValidationError into JibitValidationError, and lets
\* a TypeError through.
CallWithKeywords(method) ==
  /\ object = NoObject /\ method \notin CriteriaMethods
  /\ \E v \in Inputs[MethodModel[method]] :
       IF Accepts(MethodModel[method], v)
       THEN Issue(method, v, "keywords")
       ELSE Refuse(IF Incomparable(MethodModel[method], v) THEN "TypeError"
                   ELSE "Validation")

\* submit_batch with a TransferItemRequest, create_purchase with a
\* TerminalSwitching, that was constructed before: pydantic checks the fields
\* around an instance and takes the instance as it is now.
CallWithTransfer ==
  /\ object # NoObject /\ object.model = "transfer"
  /\ \E v \in Inputs["batch"] :
       IF BatchFields(v)
       THEN Leave("submit_batch", None,
                  Payload([v EXCEPT !.amount = object.values.amount]), "object")
       ELSE Refuse("Validation")

CallWithSwitching ==
  /\ object # NoObject /\ object.model = "switching"
  /\ \E v \in Inputs["purchase"] :
       IF PurchaseFields(v)
       THEN Leave("create_purchase", None,
                  Payload([v EXCEPT !.terminal_ids = object.values.terminal_ids]), "object")
       ELSE Refuse("Validation")

\* initiate with a Signer that was constructed before, or with a mapping.
CallWithSigner ==
  \/ /\ object # NoObject /\ object.model = "signer"
     /\ Leave("initiate", None, SignerBody(object.values), "object")
  \/ /\ object = NoObject
     /\ \E v \in Inputs["signer"] :
          IF Accepts("signer", v)
          THEN Leave("initiate", None, SignerBody(v), "keywords")
          ELSE Refuse("Validation")

\* After a timeout the caller asks by the reference it kept: inquire_purchase,
\* inquire, inquire_settlement, ..., get_status_by_client_id.
Inquire ==
  /\ wire # NoWire /\ wire.uncertain /\ inquiry = "none"
  /\ ReferenceOf[wire.method] \in DOMAIN wire.body
  /\ inquiry' = IF Fits(wire.body[ReferenceOf[wire.method]], InquiryRule[wire.method])
                THEN "sent" ELSE "refused"
  /\ UNCHANGED <<object, checked, assigns, wire, outcome>>

Call(method) ==
  \/ CallWithObject(method) \/ CallWithNothing(method)
  \/ CallWithBoth(method) \/ CallWithKeywords(method)

Next ==
  \/ \E model \in ObjectModels : Construct(model)
  \/ \E method \in Methods : Call(method)
  \/ Assign \/ CallWithTransfer \/ CallWithSwitching \/ CallWithSigner \/ Inquire

Spec == Init /\ [][Next]_vars
-----------------------------------------------------------------------------
(* Properties.                                                             *)

\* Variables keep their types; an object keeps the fields of its model
\* (JibitRequestModel forbids others), and an inquiry only follows an uncertain
\* submission.
TypeOK ==
  /\ object = NoObject \/ (object.model \in ObjectModels /\ DOMAIN object.values = DOMAIN checked)
  /\ assigns \in 0..MaxAssigns /\ (object = NoObject => assigns = 0)
  /\ outcome \in {"none", "constructed", "assigned", "sent", "Validation",
                  "ValidationError", "TypeError"}
  /\ outcome = "sent" <=> wire # NoWire
  /\ inquiry \in {"none", "sent", "refused"}
  /\ inquiry # "none" => wire # NoWire /\ wire.uncertain

\* The published rules, read on the fields that are sent.
NamesAPurchase(p) == {"client_reference_number", "purchase_id"} \cap DOMAIN p # {}

OrderedWhenGiven(p, first, second) ==
  {first, second} \subseteq DOMAIN p => p[first] <= p[second]

EarlierWhenGiven(p, first, second) ==
  {first, second} \subseteq DOMAIN p => p[first].time < p[second].time

Within(p, field, lo, hi) ==
  field \in DOMAIN p => lo <= p[field] /\ p[field] <= hi

MatchesOnePair(p) ==
  \/ DOMAIN p \in {{"fida", "passport_number"}, {"national_code", "mobile_number"},
                   {"iban", "legal_national_code"}}
  \/ \E account \in {{"iban"}, {"card_number"}, {"deposit_number", "bank"}},
        person \in {{"name"}, {"national_code"}, {"national_code", "birth_date"}} :
       DOMAIN p = account \cup person

WageFits(p) == p.amount >= 5000 /\ 20 * p.wage <= 3 * p.amount

PayerMobileFits(p) ==
  "check_payer_mobile_number" \in DOMAIN p /\ p.check_payer_mobile_number =>
    "payer_mobile_number" \in DOMAIN p /\ p.payer_mobile_number # ""

PayerCardsFit(p) ==
  "payer_card_numbers" \in DOMAIN p =>
    /\ Cardinality(Range(p.payer_card_numbers)) = Len(p.payer_card_numbers)
    /\ p.payer_card_numbers # <<>> /\ "payer_card_number" \in DOMAIN p
       => p.payer_card_number = ""

PublishedHistoryFilter(p) ==
  /\ Within(p, "page", 1, 10) /\ Within(p, "size", 1, 20000)
  /\ DOMAIN p \cap {"from_", "to"} \in {{}, {"from_", "to"}}
  /\ EarlierWhenGiven(p, "from_", "to")
  /\ "from_" \in DOMAIN p => p.from_.time + 180 > p.to.time
  /\ DOMAIN p \cap {"purchase_id", "statuses", "from_"} # {}

Published(model, p) ==
  /\ model = "purchase" =>
       /\ WageFits(p) /\ PayerMobileFits(p) /\ PayerCardsFit(p)
       /\ "terminal_ids" \in DOMAIN p => p.terminal_ids # <<>>
  /\ model \in {"identifier", "refund"} => NamesAPurchase(p)
  /\ model \in {"purchase_filter", "settlement_filter"} =>
       Within(p, "page", 1, 20) /\ Within(p, "size", 1, 250)
  /\ model = "purchase_filter" => EarlierWhenGiven(p, "from_", "to")
  /\ model = "history_filter" => PublishedHistoryFilter(p)
  /\ model \in {"batch", "generator", "settlement", "collection"} => p.amount > 0
  /\ model = "selector" => DOMAIN p \cap {"batch_id", "transfer_id"} # {}
  /\ model = "transfer_filter" =>
       /\ p.page > 0 /\ Within(p, "size", 1, 250)
       /\ OrderedWhenGiven(p, "from_time", "to_time")
  /\ model = "mandate" => OrderedWhenGiven(p, "start_date", "expire_date")
  /\ model = "bulk" => Cardinality(DOMAIN p \cap {"message", "predefined_message_id"}) = 1
  /\ model = "inbound" => p.page >= 0 /\ p.from_date.time <= p.to_date.time
  /\ model = "matching" => MatchesOnePair(p)
  /\ model = "similarity" => \E f \in DOMAIN p : p[f] # ""

\* A request that breaks a published rule can only come from an object that was
\* assigned to after its check: keywords never leave unchecked, and no method
\* changes what was checked (the model validators; PurchaseHistoryFilter "must
\* be shorter than three hours").
SentIsPublished ==
  wire # NoWire /\ ~Published(MethodModel[wire.method], wire.body)
  => wire.source = "object" /\ object.values # checked

\* Whatever was assigned to a mandate request, and whichever workflow it was
\* used for before, a mandate leaves with exactly the fields of its workflow
\* (DirectDebitService.create_mandate).
MandateFitsItsWorkflow ==
  wire # NoWire /\ wire.method = "create_mandate" =>
    LET special == DOMAIN wire.body
                     \cap {"frequency", "retry", "otp_requirement_status", "otp_condition"}
    IN  \/ /\ wire.workflow = "time-frame" /\ "otp_requirement_status" \in special
           /\ special \subseteq {"otp_requirement_status", "otp_condition"}
        \/ wire.workflow = "subscription" /\ special = {"retry"}
        \/ /\ wire.workflow = "one-tap"
           /\ {"frequency", "otp_requirement_status"} \subseteq special
           /\ "retry" \notin special

\* The legal entity of a signer is sent whole or not at all, even if one half
\* was assigned away after the check (Signer.to_provider_payload).
SignerIsWhole ==
  wire # NoWire /\ "dependent" \in DOMAIN wire.body =>
    wire.body.dependent = None \/ None \notin Range(wire.body.dependent)

\* A request object can be used again: only its owner changes it
\* (CreateMandateRequest across workflows, PurchaseFilter across pages).
CallsKeepTheObject == [][wire' # NoWire => UNCHANGED object]_vars

\* A submission whose outcome is uncertain can be asked for by the reference
\* that was accepted with it (docs/retry-and-idempotency.md).
UncertainIsReconcilable ==
  inquiry = "refused" => wire.method \notin Reconciled

=============================================================================
