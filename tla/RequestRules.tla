---------------------------- MODULE RequestRules ----------------------------
(***************************************************************************)
(* The rules of the request models (services/*/models.py) and what becomes *)
(* of their values on the wire.  A model's values are a record; None is a  *)
(* field that was left out.  Only the fields that a rule relates to others *)
(* or bounds appear; a string is a class of strings.                       *)
(***************************************************************************)
EXTENDS Integers, Sequences, FiniteSets, Functions

CONSTANT None

ASSUME NoneAssumption == None \notin Int

\* Python truth of an optional string.
Truthy(x) == x \notin {None, ""}

\* An optional number with its bounds.
Between(x, lo, hi) == x = None \/ (lo <= x /\ x <= hi)

Unlimited == 1000000

Positive(x) == Between(x, 1, Unlimited)

-----------------------------------------------------------------------------
(* References: the caller's names for what it submits.                     *)

\* A UUID; letters, digits, "_" and "-"; also "."; also letters and digits of
\* other alphabets (str.isalnum); anything.
Alphabets == {"uuid", "track", "dotted", "letters", "free"}

TrackAlphabet == {"uuid", "track"}
PathAlphabet == TrackAlphabet \cup {"dotted"}
DebitAlphabet == PathAlphabet \cup {"letters"}

Rule(lo, hi, alphabets) == [min |-> lo, max |-> hi, alphabets |-> alphabets]

Fits(reference, rule) ==
  /\ reference # None
  /\ rule.min <= reference.length /\ reference.length <= rule.max
  /\ reference.alphabet \in rule.alphabets

UuidRule == Rule(36, 36, {"uuid"})

\* What a submission accepts as its reference ...
PurchaseReference == Rule(1, 50, Alphabets)
BatchReference == Rule(1, 100, Alphabets)
SettlementReference == UuidRule
ContractReference == Rule(1, 200, TrackAlphabet)
MandateReference == Rule(10, 50, Alphabets)
CollectionReference == Rule(1, 100, Alphabets)
MessageReference == Rule(1, 100, Alphabets)

\* ... and what the inquiry by that reference accepts.
PurchaseInquiry == Rule(0, Unlimited, Alphabets)
BatchInquiry == Rule(1, Unlimited, Alphabets)
SettlementInquiry == UuidRule
\* Mutation: the inquiry has the length limit of another service.
ContractInquiry_Short == Rule(1, 100, TrackAlphabet)
ContractInquiry == Rule(1, 200, TrackAlphabet)
DebitInquiry == Rule(1, Unlimited, DebitAlphabet)
MessageInquiry == Rule(1, 200, PathAlphabet)

-----------------------------------------------------------------------------
(* The fields of the models; a model knows no others.                      *)

Optional(S) == S \cup {None}

Reference == [length : Nat, alphabet : Alphabets]
Moment == [time : Int, aware : BOOLEAN]
File == [size : Nat, type : STRING]

ASSUME NoMomentAssumption == None \notin Moment

Identifiers ==
  {"iban", "card_number", "deposit_number", "bank", "name", "national_code",
   "birth_date", "legal_national_code", "mobile_number", "fida", "passport_number"}

Names == {"first_name", "last_name", "full_name", "father_name"}

Fields ==
  [purchase |-> [client_reference_number : Reference, amount : Int, wage : Int,
                 payer_mobile_number : Optional(STRING),
                 check_payer_mobile_number : BOOLEAN,
                 payer_card_number : Optional(STRING),
                 payer_card_numbers : Optional(Seq(STRING)),
                 terminal_ids : Optional(Seq(STRING))],
   identifier |-> [client_reference_number : Optional(Reference),
                   purchase_id : Optional(Int)],
   refund |-> [client_reference_number : Optional(Reference),
               purchase_id : Optional(Int), amount : Optional(Int)],
   switching |-> [terminal_ids : Seq(STRING)],
   purchase_filter |-> [purchase_id : Optional(Int), page : Optional(Int),
                        size : Optional(Int),
                        from_ : Optional(Moment), to : Optional(Moment)],
   history_filter |-> [purchase_id : Optional(Int), page : Optional(Int),
                       size : Optional(Int), statuses : Optional(Seq(STRING)),
                       from_ : Optional(Moment), to : Optional(Moment)],
   settlement_filter |-> [{"settlement_id", "page", "size"} -> Optional(Int)],
   batch |-> [batch_id : Reference, transfers : Nat, amount : Int],
   transfer |-> [amount : Int],
   generator |-> [amount : Int],
   selector |-> [{"batch_id", "transfer_id"} -> Optional(STRING)],
   transfer_filter |-> [page : Int, size : Int,
                        from_time : Optional(Int), to_time : Optional(Int)],
   settlement |-> [record_track_id : Reference, amount : Int],
   track_ids |-> [track_ids : Nat],
   mandate |-> [creditor_mandate_reference : Reference,
                start_date : Int, expire_date : Int, frequency : Optional(Int),
                retry : Optional(STRING), otp_requirement_status : Optional(STRING),
                otp_condition : Optional(STRING)],
   collection |-> [creditor_transaction_no : Reference, amount : Int],
   message |-> [client_message_id : Optional(Reference)],
   bulk |-> [receptors : Nat, message : Optional(STRING),
             predefined_message_id : Optional(STRING)],
   inbound |-> [from_date : Moment, to_date : Moment, page : Int],
   signer |-> [{"dependent_legal_national_code", "dependent_legal_name"} -> Optional(STRING)],
   contract |-> [track_id : Reference, pdf : STRING, signers : Nat],
   matching |-> [Identifiers -> Optional(STRING)],
   similarity |-> [Names -> Optional(STRING)],
   card |-> [{"deposit", "iban", "nationalCode"} -> BOOLEAN],
   video |-> [max_accepted_dist : Optional(Int), national_id : Nat, line : STRING,
              video : File],
   photo |-> [national_id : Nat, live_face : File, reference_face : Optional(File)],
   ocr |-> [image : File]]

Models == DOMAIN Fields

-----------------------------------------------------------------------------
(* The models.  Each operator says which values construct one.             *)

\* datetime objects with and without a time zone cannot be compared.
Mixed(x, y) == x # None /\ y # None /\ x.aware # y.aware

\* TerminalSwitching of a purchase, if it has one.
Switching(v) == v.terminal_ids # <<>>

\* The fields of a purchase but for its switching.
PurchaseFields(v) ==
  /\ Fits(v.client_reference_number, PurchaseReference)
  /\ v.amount >= 5000 /\ v.wage >= 0
  /\ v.wage * 100 <= v.amount * 15
  /\ v.check_payer_mobile_number => Truthy(v.payer_mobile_number)
  /\ Truthy(v.payer_card_number) => v.payer_card_numbers \in {None, <<>>}
  /\ v.payer_card_numbers # None => IsInjective(v.payer_card_numbers)

Purchase(v) == PurchaseFields(v) /\ Switching(v)

PurchaseIdentifier(v) ==
  /\ v.client_reference_number = None
       \/ Fits(v.client_reference_number, PurchaseReference)
  /\ Positive(v.purchase_id)
  /\ v.client_reference_number # None \/ v.purchase_id # None

Refund(v) == PurchaseIdentifier(v) /\ Positive(v.amount)

\* The fields of the filters on their own: their validators run after these.
PurchaseFilterFields(v) ==
  Positive(v.purchase_id) /\ Between(v.page, 1, 20) /\ Between(v.size, 1, 250)

HistoryFilterFields(v) ==
  Positive(v.purchase_id) /\ Between(v.page, 1, 10) /\ Between(v.size, 1, 20000)

PurchaseFilter(v) ==
  /\ PurchaseFilterFields(v) /\ ~Mixed(v.from_, v.to)
  /\ v.from_ # None /\ v.to # None => v.from_.time < v.to.time

\* Mutation: the three hours are inclusive.
PurchaseHistoryFilter_Inclusive(v) ==
  /\ HistoryFilterFields(v) /\ ~Mixed(v.from_, v.to)
  /\ v.from_ = None <=> v.to = None
  /\ v.from_ # None => /\ v.from_.time < v.to.time
                       /\ v.to.time - v.from_.time <= 180
  /\ v.purchase_id # None \/ v.statuses # None \/ v.from_ # None
  /\ v.statuses # <<>>

\* Times in minutes.
PurchaseHistoryFilter(v) ==
  /\ HistoryFilterFields(v) /\ ~Mixed(v.from_, v.to)
  /\ v.from_ = None <=> v.to = None
  /\ v.from_ # None => /\ v.from_.time < v.to.time
                       /\ v.to.time - v.from_.time < 180
  /\ v.purchase_id # None \/ v.statuses # None \/ v.from_ # None
  /\ v.statuses # <<>>

SettlementFilter(v) ==
  Positive(v.settlement_id) /\ Between(v.page, 1, 20) /\ Between(v.size, 1, 250)

TransferItem(v) == v.amount > 0

\* A batch but for its transfers, of which one stands for all.
BatchFields(v) == Fits(v.batch_id, BatchReference) /\ v.transfers # 0

Batch(v) == BatchFields(v) /\ TransferItem(v)

BatchGenerator(v) == v.amount > 0

TransferSelector(v) ==
  /\ v.batch_id # "" /\ v.transfer_id # ""
  /\ v.batch_id # None \/ v.transfer_id # None

TransferFilter(v) ==
  /\ v.page >= 1 /\ 1 <= v.size /\ v.size <= 250
  /\ v.from_time # None /\ v.to_time # None => v.from_time <= v.to_time

Settlement(v) ==
  /\ Fits(v.record_track_id, SettlementReference)
  /\ v.amount > 0

BatchInquiryRequest(v) == 1 <= v.track_ids /\ v.track_ids <= 10000

\* Dates have a fixed form, so their order as strings is that of the days.
Mandate(v) ==
  /\ Fits(v.creditor_mandate_reference, MandateReference)
  /\ v.start_date <= v.expire_date
  /\ Positive(v.frequency)

Collection(v) ==
  Fits(v.creditor_transaction_no, CollectionReference) /\ v.amount > 0

Message(v) ==
  v.client_message_id = None \/ Fits(v.client_message_id, MessageReference)

Bulk(v) ==
  /\ 1 <= v.receptors /\ v.receptors <= 1000
  /\ v.message = None <=> v.predefined_message_id # None

InboundQuery(v) ==
  /\ v.page >= 0 /\ ~Mixed(v.from_date, v.to_date)
  /\ v.from_date.time <= v.to_date.time

Signer(v) ==
  v.dependent_legal_national_code = None <=> v.dependent_legal_name = None

\* The Signers of a contract are instances: they are not checked again.
Contract(v) ==
  /\ Fits(v.track_id, ContractReference)
  /\ v.pdf = "%PDF-" /\ 1 <= v.signers /\ v.signers <= 10

Pairs ==
  {{"iban", "name"}, {"iban", "national_code"},
   {"iban", "national_code", "birth_date"}, {"iban", "legal_national_code"},
   {"card_number", "name"}, {"card_number", "national_code"},
   {"card_number", "national_code", "birth_date"},
   {"deposit_number", "bank", "name"}, {"deposit_number", "bank", "national_code"},
   {"deposit_number", "bank", "national_code", "birth_date"},
   {"national_code", "mobile_number"}, {"fida", "passport_number"}}

Matching(v) == {f \in Identifiers : v[f] # None} \in Pairs

Similarity(v) ==
  \E f \in Names : Truthy(v[f])

Card(v) == Cardinality({f \in DOMAIN v : v[f]}) <= 1

\* KycService._validate_media: sizes in MiB, types by their prefix.
Media(media, limit, type) == media.size <= limit /\ media.type = type

Video(v) ==
  /\ Between(v.max_accepted_dist, 1, 10)
  /\ v.national_id = 10 /\ v.line # ""
  /\ Media(v.video, 40, "video/")

Photo(v) ==
  /\ v.national_id = 10
  /\ Media(v.live_face, 10, "image/")
  /\ v.reference_face = None \/ Media(v.reference_face, 10, "image/")

Ocr(v) == Media(v.image, 4, "image/")

\* model_validate: whether values construct a model.
Accepts(model, v) ==
  CASE model = "purchase"          -> Purchase(v)
    [] model = "identifier"        -> PurchaseIdentifier(v)
    [] model = "refund"            -> Refund(v)
    [] model = "switching"         -> Switching(v)
    [] model = "purchase_filter"   -> PurchaseFilter(v)
    [] model = "history_filter"    -> PurchaseHistoryFilter(v)
    [] model = "settlement_filter" -> SettlementFilter(v)
    [] model = "batch"             -> Batch(v)
    [] model = "transfer"          -> TransferItem(v)
    [] model = "generator"         -> BatchGenerator(v)
    [] model = "selector"          -> TransferSelector(v)
    [] model = "transfer_filter"   -> TransferFilter(v)
    [] model = "settlement"        -> Settlement(v)
    [] model = "track_ids"         -> BatchInquiryRequest(v)
    [] model = "mandate"           -> Mandate(v)
    [] model = "collection"        -> Collection(v)
    [] model = "message"           -> Message(v)
    [] model = "bulk"              -> Bulk(v)
    [] model = "inbound"           -> InboundQuery(v)
    [] model = "signer"            -> Signer(v)
    [] model = "contract"          -> Contract(v)
    [] model = "matching"          -> Matching(v)
    [] model = "similarity"        -> Similarity(v)
    [] model = "card"              -> Card(v)
    [] model = "video"             -> Video(v)
    [] model = "photo"             -> Photo(v)
    [] model = "ocr"               -> Ocr(v)

\* The validator of a model that finds its fields in order compares their times:
\* it raises TypeError, which is not a ValidationError, when they do not compare.
\* A history filter with one time alone is refused before.
Incomparable(model, v) ==
  \/ /\ model = "purchase_filter" /\ PurchaseFilterFields(v)
     /\ Mixed(v.from_, v.to)
  \/ /\ model = "history_filter" /\ HistoryFilterFields(v)
     /\ Mixed(v.from_, v.to)
  \/ /\ model = "inbound" /\ v.page >= 0
     /\ Mixed(v.from_date, v.to_date)

-----------------------------------------------------------------------------
(* What is sent.                                                           *)

\* to_payload and to_query: the fields that are not None.
Payload(v) == Restrict(v, {f \in DOMAIN v : v[f] # None})

Workflows == {"time-frame", "subscription", "one-tap"}

\* What create_mandate demands of a request beyond its model.
MandateIsComplete(workflow, v) ==
  /\ workflow = "one-tap" => v.frequency # None
  /\ workflow = "subscription" => v.retry # None
  /\ workflow # "subscription" => v.otp_requirement_status # None

\* Mutation: subscription keeps the condition of an OTP it does not use.
Incompatible_KeepsCondition ==
  [w \in Workflows |->
     CASE w = "time-frame"   -> {"frequency", "retry"}
       [] w = "subscription" -> {"frequency", "otp_requirement_status"}
       [] w = "one-tap"      -> {"retry"}]

Incompatible ==
  [w \in Workflows |->
     CASE w = "time-frame"   -> {"frequency", "retry"}
       [] w = "subscription" -> {"frequency", "otp_requirement_status", "otp_condition"}
       [] w = "one-tap"      -> {"retry"}]

MandateBody(workflow, v) ==
  LET payload == Payload(v)
  IN  Restrict(payload, DOMAIN payload \ Incompatible[workflow])

\* Mutation: one of the two fields is enough.
SignerBody_Either(v) ==
  [dependent |-> IF v.dependent_legal_national_code # None \/ v.dependent_legal_name # None
                 THEN <<v.dependent_legal_national_code, v.dependent_legal_name>>
                 ELSE None]

\* Signer.to_provider_payload: both fields leave the natural signer, and the
\* legal entity appears when both have a value.
SignerBody(v) ==
  [dependent |-> IF v.dependent_legal_national_code # None /\ v.dependent_legal_name # None
                 THEN <<v.dependent_legal_national_code, v.dependent_legal_name>>
                 ELSE None]

=============================================================================
