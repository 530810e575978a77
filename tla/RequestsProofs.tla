--------------------------- MODULE RequestsProofs ---------------------------
(***************************************************************************)
(* Theorems about Requests for all values of the declared types, however   *)
(* many there are: what the rules of the models, checked once when an      *)
(* object is constructed, mean for the requests that leave.                *)
(***************************************************************************)
EXTENDS Requests, FiniteSetTheorems, TLAPS

-----------------------------------------------------------------------------
(* What leaves of the values of a model.                                   *)

LEMMA PayloadFields ==
  ASSUME NEW v
  PROVE  /\ DOMAIN Payload(v) = {f \in DOMAIN v : v[f] # None}
         /\ \A f \in DOMAIN Payload(v) : Payload(v)[f] = v[f]
  BY DEF Payload, Restrict

\* A field within its bounds when it was given is within them on the wire.
LEMMA LimitsAreKept ==
  ASSUME NEW v, NEW f, NEW lo, NEW hi, f \in DOMAIN v => Between(v[f], lo, hi)
  PROVE  Within(Payload(v), f, lo, hi)
  BY PayloadFields DEF Between, Within

\* A sequence without repetitions has as many members as elements.
LEMMA DistinctElements ==
  ASSUME NEW S, NEW s \in Seq(S), IsInjective(s)
  PROVE  Cardinality(Range(s)) = Len(s)
  <1>1. s \in [1..Len(s) -> Range(s)] /\ Len(s) \in Nat
    BY DEF Range
  <1>2. s \in Bijection(1..Len(s), Range(s))
    BY <1>1 DEF IsInjective, Bijection, Injection, Surjection, Range
  <1>3. IsFiniteSet(1..Len(s)) /\ Cardinality(1..Len(s)) = Len(s)
    <2>1. /\ IsFiniteSet(1..Len(s))
          /\ Cardinality(1..Len(s)) = IF 1 > Len(s) THEN 0 ELSE Len(s) - 1 + 1
      BY <1>1, FS_Interval
    <2> QED BY <1>1, <2>1
  <1>4. ExistsBijection(1..Len(s), Range(s))
    BY <1>2 DEF ExistsBijection
  <1> QED BY <1>3, <1>4, FS_Bijection

-----------------------------------------------------------------------------
(* What a model accepts obeys the published rules on the wire.             *)

LEMMA PurchasePublished ==
  ASSUME NEW v \in Fields["purchase"], Purchase(v)
  PROVE  Published("purchase", Payload(v))
  <1> DEFINE p == Payload(v)
  <1>1. /\ DOMAIN v = {"client_reference_number", "amount", "wage", "payer_mobile_number",
                       "check_payer_mobile_number", "payer_card_number",
                       "payer_card_numbers", "terminal_ids"}
        /\ v.amount \in Int /\ v.wage \in Int
        /\ v.payer_card_numbers \in Seq(STRING) \cup {None}
    BY DEF Fields, Optional
  <1>2. DOMAIN p = {f \in DOMAIN v : v[f] # None} /\ \A f \in DOMAIN p : p[f] = v[f]
    BY PayloadFields
  <1>3. p.amount = v.amount /\ p.wage = v.wage
    BY <1>1, <1>2, NoneAssumption
  <1>4. WageFits(p)
    BY <1>1, <1>3 DEF Purchase, PurchaseFields, WageFits
  <1>5. PayerMobileFits(p)
    <2> SUFFICES ASSUME "check_payer_mobile_number" \in DOMAIN p, p.check_payer_mobile_number
                 PROVE  "payer_mobile_number" \in DOMAIN p /\ p.payer_mobile_number # ""
      BY Zenon DEF PayerMobileFits
    <2>1. v.check_payer_mobile_number
      BY <1>2
    <2>2. Truthy(v.payer_mobile_number)
      BY <2>1 DEF Purchase, PurchaseFields
    <2>3. v.payer_mobile_number # None /\ v.payer_mobile_number # ""
      BY <2>2 DEF Truthy
    <2> QED BY <1>1, <1>2, <2>3
  <1>6. PayerCardsFit(p)
    <2> SUFFICES ASSUME "payer_card_numbers" \in DOMAIN p
                 PROVE  /\ Cardinality(Range(p.payer_card_numbers)) = Len(p.payer_card_numbers)
                        /\ p.payer_card_numbers # <<>> /\ "payer_card_number" \in DOMAIN p
                           => p.payer_card_number = ""
      BY Zenon DEF PayerCardsFit
    <2>1. /\ p.payer_card_numbers = v.payer_card_numbers
          /\ v.payer_card_numbers # None
      BY <1>2
    <2>2. IsInjective(v.payer_card_numbers) /\ v.payer_card_numbers \in Seq(STRING)
      BY <1>1, <2>1 DEF Purchase, PurchaseFields
    <2>3. Cardinality(Range(p.payer_card_numbers)) = Len(p.payer_card_numbers)
      BY <2>1, <2>2, DistinctElements
    <2>4. ASSUME p.payer_card_numbers # <<>>, "payer_card_number" \in DOMAIN p
          PROVE  p.payer_card_number = ""
      <3>1. p.payer_card_number = v.payer_card_number /\ v.payer_card_number # None
        BY <1>2, <2>4
      <3>2. ~Truthy(v.payer_card_number)
        BY <2>1, <2>4 DEF Purchase, PurchaseFields
      <3> QED BY <3>1, <3>2 DEF Truthy
    <2> QED BY <2>3, <2>4
  <1>7. "terminal_ids" \in DOMAIN p => p.terminal_ids # <<>>
    BY <1>2 DEF Purchase, Switching
  <1> HIDE DEF p
  <1>8. Published("purchase", p)
    BY <1>4, <1>5, <1>6, <1>7 DEF Published
  <1> QED BY <1>8 DEF p

LEMMA PurchaseFilterPublished ==
  ASSUME NEW v \in Fields["purchase_filter"], PurchaseFilter(v)
  PROVE  Published("purchase_filter", Payload(v))
  <1> DEFINE p == Payload(v)
  <1>1. DOMAIN p = {f \in DOMAIN v : v[f] # None} /\ \A f \in DOMAIN p : p[f] = v[f]
    BY PayloadFields
  <1>2. /\ DOMAIN v = {"purchase_id", "page", "size", "from_", "to"}
        /\ v.from_ \in Moment \cup {None} /\ v.to \in Moment \cup {None}
    BY DEF Fields, Optional
  <1>3. Within(p, "page", 1, 20) /\ Within(p, "size", 1, 250)
    BY LimitsAreKept DEF PurchaseFilter, PurchaseFilterFields
  <1> HIDE DEF p
  <1>4. EarlierWhenGiven(p, "from_", "to")
    BY <1>1, <1>2 DEF EarlierWhenGiven, PurchaseFilter
  <1>5. Published("purchase_filter", p)
    BY <1>3, <1>4 DEF Published
  <1> QED BY <1>5 DEF p

LEMMA HistoryFilterPublished ==
  ASSUME NEW v \in Fields["history_filter"], PurchaseHistoryFilter(v)
  PROVE  Published("history_filter", Payload(v))
  <1> DEFINE p == Payload(v)
  <1>1. DOMAIN p = {f \in DOMAIN v : v[f] # None} /\ \A f \in DOMAIN p : p[f] = v[f]
    BY PayloadFields
  <1>2. /\ DOMAIN v = {"purchase_id", "page", "size", "statuses", "from_", "to"}
        /\ v.from_ \in Moment \cup {None} /\ v.to \in Moment \cup {None}
        /\ \A m \in Moment : m.time \in Int
    BY DEF Fields, Optional, Moment
  <1>3. Within(p, "page", 1, 10) /\ Within(p, "size", 1, 20000)
    BY LimitsAreKept DEF PurchaseHistoryFilter, HistoryFilterFields
  <1> HIDE DEF p
  <1>4. DOMAIN p \cap {"from_", "to"} \in {{}, {"from_", "to"}}
    BY <1>1, <1>2 DEF PurchaseHistoryFilter
  <1>5. EarlierWhenGiven(p, "from_", "to")
    BY <1>1, <1>2 DEF EarlierWhenGiven, PurchaseHistoryFilter
  <1>6. ASSUME "from_" \in DOMAIN p PROVE p.from_.time + 180 > p.to.time
    <2>1. /\ p.from_ = v.from_ /\ v.from_ # None /\ v.to # None
          /\ v.to.time - v.from_.time < 180
      BY <1>1, <1>6 DEF PurchaseHistoryFilter
    <2>2. p.to = v.to
      BY <1>1, <1>2, <2>1
    <2>3. v.from_.time \in Int /\ v.to.time \in Int
      BY <1>2, <2>1
    <2> QED BY <2>1, <2>2, <2>3
  <1>7. DOMAIN p \cap {"purchase_id", "statuses", "from_"} # {}
    BY <1>1, <1>2 DEF PurchaseHistoryFilter
  <1>8. PublishedHistoryFilter(p)
    BY <1>3, <1>4, <1>5, <1>6, <1>7 DEF PublishedHistoryFilter
  <1>9. Published("history_filter", p)
    BY <1>8 DEF Published
  <1> QED BY <1>9 DEF p

LEMMA SettlementFilterPublished ==
  ASSUME NEW v \in Fields["settlement_filter"], SettlementFilter(v)
  PROVE  Published("settlement_filter", Payload(v))
  <1>1. Within(Payload(v), "page", 1, 20) /\ Within(Payload(v), "size", 1, 250)
    BY LimitsAreKept DEF SettlementFilter
  <1> QED BY <1>1 DEF Published

LEMMA TransferFilterPublished ==
  ASSUME NEW v \in Fields["transfer_filter"], TransferFilter(v)
  PROVE  Published("transfer_filter", Payload(v))
  <1> DEFINE p == Payload(v)
  <1>1. DOMAIN p = {f \in DOMAIN v : v[f] # None} /\ \A f \in DOMAIN p : p[f] = v[f]
    BY PayloadFields
  <1>2. /\ DOMAIN v = {"page", "size", "from_time", "to_time"}
        /\ v.page \in Int
        /\ v.from_time \in Int \cup {None} /\ v.to_time \in Int \cup {None}
    BY DEF Fields, Optional
  <1>3. Within(p, "size", 1, 250)
    <2>1. Between(v.size, 1, 250)
      BY DEF TransferFilter, Between
    <2> QED BY <2>1, LimitsAreKept
  <1> HIDE DEF p
  <1>4. p.page > 0
    BY <1>1, <1>2, NoneAssumption DEF TransferFilter
  <1>5. OrderedWhenGiven(p, "from_time", "to_time")
    BY <1>1, <1>2 DEF OrderedWhenGiven, TransferFilter
  <1>6. Published("transfer_filter", p)
    BY <1>3, <1>4, <1>5 DEF Published
  <1> QED BY <1>6 DEF p

LEMMA InboundPublished ==
  ASSUME NEW v \in Fields["inbound"], InboundQuery(v)
  PROVE  Published("inbound", Payload(v))
  <1> DEFINE p == Payload(v)
  <1>1. /\ DOMAIN v = {"from_date", "to_date", "page"}
        /\ v.page \in Int /\ v.from_date \in Moment /\ v.to_date \in Moment
    BY DEF Fields
  <1>2. DOMAIN p = {f \in DOMAIN v : v[f] # None} /\ \A f \in DOMAIN p : p[f] = v[f]
    BY PayloadFields
  <1> HIDE DEF p
  <1>3. p.page = v.page /\ p.from_date = v.from_date /\ p.to_date = v.to_date
    BY <1>1, <1>2, NoneAssumption, NoMomentAssumption
  <1>4. p.page >= 0 /\ p.from_date.time <= p.to_date.time
    BY <1>3 DEF InboundQuery
  <1>5. Published("inbound", p)
    BY <1>4 DEF Published
  <1> QED BY <1>5 DEF p

\* An amount leaves as it is, and was positive.
LEMMA AmountsPublished ==
  ASSUME NEW model \in {"batch", "generator", "settlement", "collection"},
         NEW v \in Fields[model], Accepts(model, v)
  PROVE  Published(model, Payload(v))
  <1>1. "amount" \in DOMAIN v /\ v.amount \in Int /\ v.amount > 0
    <2>1. CASE model = "batch"
      BY <2>1 DEF Fields, Accepts, Batch, TransferItem
    <2>2. CASE model = "generator"
      BY <2>2 DEF Fields, Accepts, BatchGenerator
    <2>3. CASE model = "settlement"
      BY <2>3 DEF Fields, Accepts, Settlement
    <2>4. CASE model = "collection"
      BY <2>4 DEF Fields, Accepts, Collection
    <2> QED BY <2>1, <2>2, <2>3, <2>4
  <1>2. Payload(v).amount = v.amount
    BY <1>1, PayloadFields, NoneAssumption
  <1>3. Payload(v).amount > 0
    BY <1>1, <1>2
  <1> QED BY <1>3 DEF Published

\* Whatever fields the workflow removes, the dates of a mandate stay in order.
LEMMA MandatePublished ==
  ASSUME NEW v \in Fields["mandate"], Mandate(v), NEW workflow
  PROVE  Published("mandate", MandateBody(workflow, v))
  <1> DEFINE q == Payload(v)
             p == MandateBody(workflow, v)
  <1>1. \A f \in DOMAIN q : q[f] = v[f]
    BY PayloadFields
  <1>2. DOMAIN p \subseteq DOMAIN q /\ \A f \in DOMAIN p : p[f] = q[f]
    BY DEF MandateBody, Restrict
  <1>3. v.start_date \in Int /\ v.expire_date \in Int
    BY DEF Fields
  <1> HIDE DEF p, q
  <1>4. OrderedWhenGiven(p, "start_date", "expire_date")
    BY <1>1, <1>2, <1>3 DEF OrderedWhenGiven, Mandate
  <1>5. Published("mandate", p)
    BY <1>4 DEF Published
  <1> QED BY <1>5 DEF p

LEMMA IdentifiersPublished ==
  /\ \A v \in Fields["identifier"] :
       PurchaseIdentifier(v) => Published("identifier", Payload(v))
  /\ \A v \in Fields["refund"] :
       Refund(v) => Published("refund", Payload(v))
  /\ \A v \in Fields["selector"] :
       TransferSelector(v) => Published("selector", Payload(v))
  <1>1. ASSUME NEW v, {"client_reference_number", "purchase_id"} \subseteq DOMAIN v,
               v.client_reference_number # None \/ v.purchase_id # None
        PROVE  NamesAPurchase(Payload(v))
    BY <1>1, PayloadFields DEF NamesAPurchase
  <1>2. ASSUME NEW v \in Fields["identifier"], PurchaseIdentifier(v)
        PROVE  Published("identifier", Payload(v))
    <2>1. {"client_reference_number", "purchase_id"} \subseteq DOMAIN v
      BY DEF Fields
    <2>2. NamesAPurchase(Payload(v))
      BY <1>1, <1>2, <2>1 DEF PurchaseIdentifier
    <2> QED BY <2>2 DEF Published
  <1>3. ASSUME NEW v \in Fields["refund"], Refund(v)
        PROVE  Published("refund", Payload(v))
    <2>1. {"client_reference_number", "purchase_id"} \subseteq DOMAIN v
      BY DEF Fields
    <2>2. NamesAPurchase(Payload(v))
      BY <1>1, <1>3, <2>1 DEF Refund, PurchaseIdentifier
    <2> QED BY <2>2 DEF Published
  <1>4. ASSUME NEW v \in Fields["selector"], TransferSelector(v)
        PROVE  Published("selector", Payload(v))
    <2>1. DOMAIN v = {"batch_id", "transfer_id"}
      BY DEF Fields
    <2>2. DOMAIN Payload(v) \cap {"batch_id", "transfer_id"} # {}
      BY <1>4, <2>1, PayloadFields DEF TransferSelector
    <2> QED BY <2>2 DEF Published
  <1> QED BY <1>2, <1>3, <1>4

\* A bulk message has a text or a stored one.
LEMMA BulkPublished ==
  ASSUME NEW v \in Fields["bulk"], Bulk(v)
  PROVE  Published("bulk", Payload(v))
  <1> DEFINE p == Payload(v)
             given == DOMAIN p \cap {"message", "predefined_message_id"}
  <1>1. DOMAIN v = {"receptors", "message", "predefined_message_id"}
    BY DEF Fields
  <1>2. given = {"message"} \/ given = {"predefined_message_id"}
    <2>1. /\ "message" \in DOMAIN p <=> v.message # None
          /\ "predefined_message_id" \in DOMAIN p <=> v.predefined_message_id # None
      BY <1>1, PayloadFields
    <2>2. "message" \in DOMAIN p <=> "predefined_message_id" \notin DOMAIN p
      BY <2>1 DEF Bulk
    <2> HIDE DEF p
    <2> QED BY <2>2
  <1>3. Cardinality(given) = 1
    BY <1>2, FS_Singleton
  <1>4. Published("bulk", p)
    BY <1>3 DEF Published
  <1> QED BY <1>4

\* The documented combinations are an account and a person, or two names of one
\* person.
LEMMA MatchingPublished ==
  ASSUME NEW v \in Fields["matching"], Matching(v)
  PROVE  Published("matching", Payload(v))
  <1> DEFINE p == Payload(v)
  <1>1. DOMAIN v = Identifiers
    BY DEF Fields
  <1>2. DOMAIN p \in Pairs
    BY <1>1, PayloadFields DEF Matching
  <1> HIDE DEF p
  <1>3. ASSUME NEW account \in {{"iban"}, {"card_number"}, {"deposit_number", "bank"}},
               NEW person \in {{"name"}, {"national_code"}, {"national_code", "birth_date"}},
               DOMAIN p = account \cup person
        PROVE  MatchesOnePair(p)
    BY <1>3 DEF MatchesOnePair
  <1>4. ASSUME \/ DOMAIN p = {"fida", "passport_number"}
               \/ DOMAIN p = {"national_code", "mobile_number"}
               \/ DOMAIN p = {"iban", "legal_national_code"}
        PROVE  MatchesOnePair(p)
    BY <1>4, Zenon DEF MatchesOnePair
  <1>5. ASSUME \/ DOMAIN p = {"iban", "name"}
               \/ DOMAIN p = {"iban", "national_code"}
               \/ DOMAIN p = {"iban", "national_code", "birth_date"}
        PROVE  MatchesOnePair(p)
    <2>1. /\ {"iban", "name"} = {"iban"} \cup {"name"}
          /\ {"iban", "national_code"} = {"iban"} \cup {"national_code"}
          /\ {"iban", "national_code", "birth_date"}
               = {"iban"} \cup {"national_code", "birth_date"}
      OBVIOUS
    <2>2. CASE DOMAIN p = {"iban", "name"}
      BY <1>3, <2>1, <2>2, Zenon
    <2>3. CASE DOMAIN p = {"iban", "national_code"}
      BY <1>3, <2>1, <2>3, Zenon
    <2>4. CASE DOMAIN p = {"iban", "national_code", "birth_date"}
      BY <1>3, <2>1, <2>4, Zenon
    <2> QED BY <1>5, <2>2, <2>3, <2>4
  <1>6. ASSUME \/ DOMAIN p = {"card_number", "name"}
               \/ DOMAIN p = {"card_number", "national_code"}
               \/ DOMAIN p = {"card_number", "national_code", "birth_date"}
        PROVE  MatchesOnePair(p)
    <2>1. /\ {"card_number", "name"} = {"card_number"} \cup {"name"}
          /\ {"card_number", "national_code"} = {"card_number"} \cup {"national_code"}
          /\ {"card_number", "national_code", "birth_date"}
               = {"card_number"} \cup {"national_code", "birth_date"}
      OBVIOUS
    <2>2. CASE DOMAIN p = {"card_number", "name"}
      BY <1>3, <2>1, <2>2, Zenon
    <2>3. CASE DOMAIN p = {"card_number", "national_code"}
      BY <1>3, <2>1, <2>3, Zenon
    <2>4. CASE DOMAIN p = {"card_number", "national_code", "birth_date"}
      BY <1>3, <2>1, <2>4, Zenon
    <2> QED BY <1>6, <2>2, <2>3, <2>4
  <1>7. ASSUME \/ DOMAIN p = {"deposit_number", "bank", "name"}
               \/ DOMAIN p = {"deposit_number", "bank", "national_code"}
               \/ DOMAIN p = {"deposit_number", "bank", "national_code", "birth_date"}
        PROVE  MatchesOnePair(p)
    <2>1. /\ {"deposit_number", "bank", "name"} = {"deposit_number", "bank"} \cup {"name"}
          /\ {"deposit_number", "bank", "national_code"} = {"deposit_number", "bank"} \cup {"national_code"}
          /\ {"deposit_number", "bank", "national_code", "birth_date"}
               = {"deposit_number", "bank"} \cup {"national_code", "birth_date"}
      OBVIOUS
    <2>2. CASE DOMAIN p = {"deposit_number", "bank", "name"}
      BY <1>3, <2>1, <2>2, Zenon
    <2>3. CASE DOMAIN p = {"deposit_number", "bank", "national_code"}
      BY <1>3, <2>1, <2>3, Zenon
    <2>4. CASE DOMAIN p = {"deposit_number", "bank", "national_code", "birth_date"}
      BY <1>3, <2>1, <2>4, Zenon
    <2> QED BY <1>7, <2>2, <2>3, <2>4
  <1>8. MatchesOnePair(p)
    BY <1>2, <1>4, <1>5, <1>6, <1>7, Zenon DEF Pairs
  <1>9. Published("matching", p)
    BY <1>8 DEF Published
  <1> QED BY <1>9 DEF p

LEMMA SimilarityPublished ==
  ASSUME NEW v \in Fields["similarity"], Similarity(v)
  PROVE  Published("similarity", Payload(v))
  <1>1. DOMAIN v = Names
    BY DEF Fields
  <1>2. \E f \in DOMAIN Payload(v) : Payload(v)[f] # ""
    BY <1>1, PayloadFields DEF Similarity, Truthy
  <1> QED BY <1>2 DEF Published

\* Every model's rules make its published rules true on the wire.
LEMMA AcceptedIsPublished ==
  ASSUME NEW model \in Models \ {"mandate"}, NEW v \in Fields[model], Accepts(model, v)
  PROVE  Published(model, Payload(v))
  <1>1. CASE model = "purchase"
    BY <1>1, PurchasePublished DEF Accepts
  <1>2. CASE model = "purchase_filter"
    BY <1>2, PurchaseFilterPublished DEF Accepts
  <1>3. CASE model = "history_filter"
    BY <1>3, HistoryFilterPublished DEF Accepts
  <1>4. CASE model = "transfer_filter"
    BY <1>4, TransferFilterPublished DEF Accepts
  <1>5. CASE model = "identifier"
    BY <1>5, IdentifiersPublished DEF Accepts
  <1>6. CASE model = "refund"
    BY <1>6, IdentifiersPublished DEF Accepts
  <1>7. CASE model = "selector"
    BY <1>7, IdentifiersPublished DEF Accepts
  <1>8. CASE model = "bulk"
    BY <1>8, BulkPublished DEF Accepts
  <1>9. CASE model = "matching"
    BY <1>9, MatchingPublished DEF Accepts
  <1>10. CASE model = "similarity"
    BY <1>10, SimilarityPublished DEF Accepts
  <1>11. CASE model = "settlement_filter"
    BY <1>11, SettlementFilterPublished DEF Accepts
  <1>12. CASE model = "inbound"
    BY <1>12, InboundPublished DEF Accepts
  <1>13. CASE model \in {"batch", "generator", "settlement", "collection"}
    BY <1>13, AmountsPublished
  <1>14. CASE model \notin {"purchase", "purchase_filter", "history_filter",
                           "transfer_filter", "identifier", "refund", "selector",
                           "bulk", "matching", "similarity", "settlement_filter",
                           "inbound", "batch", "generator", "settlement", "collection"}
    BY <1>14 DEF Published
  <1> QED BY <1>1, <1>2, <1>3, <1>4, <1>5, <1>6, <1>7, <1>8, <1>9, <1>10, <1>11, <1>12,
             <1>13, <1>14

-----------------------------------------------------------------------------
(* The methods and their models.                                           *)

\* The submissions that keywords alone make, and whose inquiry takes every
\* reference that they accept.
Recoverable == {"create_purchase", "submit_batch", "create_settlement", "initiate"}

LEMMA MethodFacts ==
  ASSUME NEW m \in Methods
  PROVE  /\ MethodModel[m] \in Models
         /\ MethodModel[m] = "mandate" <=> m = "create_mandate"
         /\ m # "none"
  BY DEF Methods, MethodModel, Models, Fields

LEMMA RecoverableModels ==
  /\ MethodModel["create_purchase"] = "purchase"
  /\ MethodModel["submit_batch"] = "batch"
  /\ MethodModel["create_settlement"] = "settlement"
  /\ MethodModel["initiate"] = "contract"
  /\ {"initiate", "submit_batch", "create_purchase"} \subseteq Methods
  /\ Recoverable \cap (CriteriaMethods \cup EitherMethods) = {}
  BY DEF MethodModel, Methods, Recoverable, CriteriaMethods, EitherMethods

LEMMA ObjectFacts ==
  /\ ObjectModels \subseteq Models
  /\ "none" \notin ObjectModels
  /\ Parts \subseteq ObjectModels
  /\ CriteriaMethods \cup EitherMethods \subseteq Methods
  <1>1. CriteriaMethods \cup EitherMethods \subseteq Methods
    BY DEF CriteriaMethods, EitherMethods, Methods, MethodModel
  <1>2. Parts \subseteq Models /\ "none" \notin Models
    BY DEF Models, Fields, Parts
  <1> QED BY <1>1, <1>2, MethodFacts DEF ObjectModels

\* The legal entity of a signer is no field of any model: to_provider_payload
\* makes it.
LEMMA NoFieldIsDependent ==
  ASSUME NEW model \in Models, NEW v \in Fields[model]
  PROVE  "dependent" \notin DOMAIN v
  <1> USE DEF Fields
  <1>1. CASE model = "purchase" BY <1>1
  <1>2. CASE model = "identifier" BY <1>2
  <1>3. CASE model = "refund" BY <1>3
  <1>4. CASE model = "purchase_filter" BY <1>4
  <1>5. CASE model = "history_filter" BY <1>5
  <1>6. CASE model = "settlement_filter" BY <1>6
  <1>7. CASE model = "batch" BY <1>7
  <1>8. CASE model = "generator" BY <1>8
  <1>9. CASE model = "selector" BY <1>9
  <1>10. CASE model = "transfer_filter" BY <1>10
  <1>11. CASE model = "settlement" BY <1>11
  <1>12. CASE model = "track_ids" BY <1>12
  <1>13. CASE model = "mandate" BY <1>13
  <1>14. CASE model = "collection" BY <1>14
  <1>15. CASE model = "message" BY <1>15
  <1>16. CASE model = "bulk" BY <1>16
  <1>17. CASE model = "inbound" BY <1>17
  <1>18. CASE model = "signer" BY <1>18
  <1>19. CASE model = "contract" BY <1>19
  <1>20. CASE model = "matching" BY <1>20 DEF Identifiers
  <1>21. CASE model = "similarity" BY <1>21 DEF Names
  <1>22. CASE model = "card" BY <1>22
  <1>23. CASE model = "video" BY <1>23
  <1>24. CASE model = "photo" BY <1>24
  <1>25. CASE model = "ocr" BY <1>25
  <1>26. CASE model = "transfer" BY <1>26
  <1>27. CASE model = "switching" BY <1>27
  <1> QED BY <1>1, <1>2, <1>3, <1>4, <1>5, <1>6, <1>7, <1>8, <1>9, <1>10, <1>11, <1>12,
             <1>13, <1>14, <1>15, <1>16, <1>17, <1>18, <1>19, <1>20, <1>21, <1>22, <1>23,
             <1>24, <1>25, <1>26, <1>27 DEF Models

\* What a purchase or a batch accepts as its reference, its inquiry accepts too.
LEMMA PurchaseReferenceFits ==
  ASSUME NEW v \in Fields["purchase"], PurchaseFields(v)
  PROVE  Fits(v.client_reference_number, PurchaseInquiry)
  <1>1. v.client_reference_number \in Reference
    BY DEF Fields
  <1>2. Fits(v.client_reference_number, PurchaseReference)
    BY DEF PurchaseFields
  <1> QED BY <1>1, <1>2 DEF Fits, PurchaseReference, PurchaseInquiry, Rule, Unlimited,
             Reference

LEMMA BatchReferenceFits ==
  ASSUME NEW v \in Fields["batch"], BatchFields(v)
  PROVE  Fits(v.batch_id, BatchInquiry)
  <1>1. v.batch_id \in Reference
    BY DEF Fields
  <1>2. Fits(v.batch_id, BatchReference)
    BY DEF BatchFields
  <1> QED BY <1>1, <1>2 DEF Fits, BatchReference, BatchInquiry, Rule, Unlimited, Reference

\* What can be asked for by the reference it was submitted with.
LEMMA ReferencesFit ==
  ASSUME NEW m \in Recoverable, NEW v \in Fields[MethodModel[m]],
         Accepts(MethodModel[m], v), ReferenceOf[m] \in DOMAIN v
  PROVE  Fits(v[ReferenceOf[m]], InquiryRule[m])
  <1> USE RecoverableModels
  <1>1. CASE m = "create_purchase"
    <2>1. v \in Fields["purchase"] /\ PurchaseFields(v)
      BY <1>1 DEF Accepts, Purchase
    <2>2. /\ ReferenceOf[m] = "client_reference_number"
          /\ InquiryRule[m] = PurchaseInquiry
      BY <1>1 DEF ReferenceOf, InquiryRule
    <2> QED BY <2>1, <2>2, PurchaseReferenceFits
  <1>2. CASE m = "submit_batch"
    <2>1. v \in Fields["batch"] /\ BatchFields(v)
      BY <1>2 DEF Accepts, Batch
    <2>2. ReferenceOf[m] = "batch_id" /\ InquiryRule[m] = BatchInquiry
      BY <1>2 DEF ReferenceOf, InquiryRule
    <2> QED BY <2>1, <2>2, BatchReferenceFits
  <1>3. CASE m = "create_settlement"
    <2>1. v \in Fields["settlement"] /\ Accepts("settlement", v)
      BY <1>3
    <2>2. ReferenceOf[m] = "record_track_id" /\ InquiryRule[m] = SettlementInquiry
      BY <1>3 DEF ReferenceOf, InquiryRule
    <2>3. Fits(v.record_track_id, SettlementReference)
      BY <2>1 DEF Accepts, Settlement
    <2> QED BY <2>2, <2>3 DEF SettlementReference, SettlementInquiry
  <1>4. CASE m = "initiate"
    <2>1. v \in Fields["contract"] /\ Accepts("contract", v)
      BY <1>4
    <2>2. ReferenceOf[m] = "track_id" /\ InquiryRule[m] = ContractInquiry
      BY <1>4 DEF ReferenceOf, InquiryRule
    <2>3. Fits(v.track_id, ContractReference)
      BY <2>1 DEF Accepts, Contract
    <2> QED BY <2>2, <2>3 DEF ContractReference, ContractInquiry
  <1> QED BY <1>1, <1>2, <1>3, <1>4 DEF Recoverable

-----------------------------------------------------------------------------
(* The inductive invariant.                                                *)

\* The fields of a mandate as its workflow wants them.
FitsWorkflow(workflow, body) ==
  LET special == DOMAIN body
                   \cap {"frequency", "retry", "otp_requirement_status", "otp_condition"}
  IN  \/ /\ workflow = "time-frame" /\ "otp_requirement_status" \in special
         /\ special \subseteq {"otp_requirement_status", "otp_condition"}
      \/ workflow = "subscription" /\ special = {"retry"}
      \/ /\ workflow = "one-tap"
         /\ {"frequency", "otp_requirement_status"} \subseteq special
         /\ "retry" \notin special

Whole(body) ==
  "dependent" \in DOMAIN body =>
    body.dependent = None \/ None \notin Range(body.dependent)

\* What can be said of every request that leaves: its values were checked, or
\* they come from an object that has been assigned to since.
Sound(method, workflow, body, source) ==
  /\ method \in Methods
  /\ \/ Published(MethodModel[method], body)
     \/ source = "object" /\ object.values # checked
  /\ method = "create_mandate" => FitsWorkflow(workflow, body)
  /\ Whole(body)
  /\ method \in Recoverable /\ ReferenceOf[method] \in DOMAIN body =>
       Fits(body[ReferenceOf[method]], InquiryRule[method])

\* A request object was accepted when it was constructed, and still has the
\* fields and types of its model.
ObjectInv ==
  \/ object = NoObject /\ assigns = 0
  \/ /\ object = [model |-> object.model, values |-> object.values]
     /\ object.model \in ObjectModels /\ Accepts(object.model, checked)
     /\ checked \in Inputs[object.model] /\ object.values \in Inputs[object.model]
     /\ DOMAIN object.values = DOMAIN checked

WireInv ==
  wire # NoWire => Sound(wire.method, wire.workflow, wire.body, wire.source)

\* How the last step and the last inquiry ended.
EndInv ==
  /\ assigns \in 0..MaxAssigns
  /\ outcome \in {"none", "constructed", "assigned", "sent", "Validation",
                  "ValidationError", "TypeError"}
  /\ outcome = "sent" <=> wire # NoWire
  /\ inquiry \in {"none", "sent", "refused"}
  /\ inquiry # "none" => wire # NoWire /\ wire.uncertain
  /\ inquiry = "refused" => wire.method \notin Recoverable

RequestInv == ObjectInv /\ WireInv /\ EndInv

LEMMA RequestInit == Init => RequestInv
  BY InputsAssumption
  DEF Init, RequestInv, ObjectInv, WireInv, EndInv

\* A step that sends something sound keeps the invariant.
LEMMA LeaveKeeps ==
  ASSUME RequestInv, NEW method, NEW workflow, NEW body, NEW source,
         Sound(method, workflow, body, source),
         Leave(method, workflow, body, source)
  PROVE  RequestInv' /\ UNCHANGED object
  <1>1. PICK u \in BOOLEAN :
          wire' = [method |-> method, workflow |-> workflow, body |-> body,
                   source |-> source, uncertain |-> u]
    BY DEF Leave
  <1>2. /\ wire'.method = method /\ wire'.workflow = workflow
        /\ wire'.body = body /\ wire'.source = source
    BY <1>1
  <1>3. wire' # NoWire
    BY <1>2, MethodFacts DEF Sound, NoWire
  <1>4. /\ UNCHANGED <<object, checked, assigns>>
        /\ outcome' = "sent" /\ inquiry' = "none"
    BY DEF Leave
  <1>5. Sound(method, workflow, body, source)'
    BY <1>4 DEF Sound
  <1>6. WireInv'
    BY <1>2, <1>4 DEF WireInv, Sound
  <1>7. ObjectInv' /\ EndInv'
    BY <1>3, <1>4 DEF RequestInv, ObjectInv, EndInv
  <1> QED BY <1>4, <1>6, <1>7 DEF RequestInv

\* So does one that sends nothing.
LEMMA RefuseKeeps ==
  ASSUME RequestInv, NEW error \in {"Validation", "TypeError"}, Refuse(error)
  PROVE  RequestInv' /\ UNCHANGED object
  BY DEF Refuse, RequestInv, ObjectInv, WireInv, EndInv

-----------------------------------------------------------------------------
(* What the calls send is sound.                                           *)

\* A mandate that the method lets through has the fields of its workflow,
\* whatever was assigned to the request.
LEMMA MandateFits ==
  ASSUME NEW v \in Fields["mandate"], NEW workflow \in Workflows,
         MandateIsComplete(workflow, v)
  PROVE  FitsWorkflow(workflow, MandateBody(workflow, v))
  <1> DEFINE body == MandateBody(workflow, v)
             special == DOMAIN body
                   \cap {"frequency", "retry", "otp_requirement_status", "otp_condition"}
  <1>1. DOMAIN v = {"creditor_mandate_reference", "start_date", "expire_date",
                    "frequency", "retry", "otp_requirement_status", "otp_condition"}
    BY DEF Fields
  <1>2. DOMAIN body = {f \in DOMAIN v : v[f] # None} \ Incompatible[workflow]
    BY PayloadFields DEF MandateBody, Restrict
  <1> HIDE DEF body
  <1>3. CASE workflow = "time-frame"
    <2>1. Incompatible[workflow] = {"frequency", "retry"}
      BY <1>3 DEF Incompatible, Workflows
    <2>2. v.otp_requirement_status # None
      BY <1>3 DEF MandateIsComplete
    <2> QED BY <1>1, <1>2, <1>3, <2>1, <2>2 DEF FitsWorkflow, body
  <1>4. CASE workflow = "subscription"
    <2>1. Incompatible[workflow] =
            {"frequency", "otp_requirement_status", "otp_condition"}
      BY <1>4 DEF Incompatible, Workflows
    <2>2. v.retry # None
      BY <1>4 DEF MandateIsComplete
    <2>3. special = {"retry"}
      BY <1>1, <1>2, <2>1, <2>2
    <2> QED BY <1>4, <2>3 DEF FitsWorkflow, body
  <1>5. CASE workflow = "one-tap"
    <2>1. Incompatible[workflow] = {"retry"}
      BY <1>5 DEF Incompatible, Workflows
    <2>2. v.otp_requirement_status # None /\ v.frequency # None
      BY <1>5 DEF MandateIsComplete
    <2> QED BY <1>1, <1>2, <1>5, <2>1, <2>2 DEF FitsWorkflow, body
  <1> QED BY <1>3, <1>4, <1>5 DEF Workflows

\* No model's field is the legal entity of a signer.
LEMMA PayloadsAreWhole ==
  ASSUME NEW model \in Models, NEW v \in Fields[model], NEW workflow
  PROVE  Whole(Payload(v)) /\ Whole(MandateBody(workflow, v))
  <1>1. "dependent" \notin DOMAIN v
    BY NoFieldIsDependent
  <1>2. "dependent" \notin DOMAIN Payload(v)
    BY <1>1, PayloadFields
  <1>3. "dependent" \notin DOMAIN MandateBody(workflow, v)
    BY <1>2 DEF MandateBody, Restrict
  <1> QED BY <1>2, <1>3 DEF Whole

\* The legal entity of a signer is whole whatever the signer's fields are.
LEMMA SignersAreWhole ==
  ASSUME NEW v
  PROVE  DOMAIN SignerBody(v) = {"dependent"} /\ Whole(SignerBody(v))
  <1>1. ASSUME NEW a, NEW b, a # None, b # None
        PROVE  None \notin Range(<<a, b>>)
    BY <1>1 DEF Range
  <1>2. DOMAIN SignerBody(v) = {"dependent"}
    BY DEF SignerBody
  <1>3. SignerBody(v).dependent =
          IF v.dependent_legal_national_code # None /\ v.dependent_legal_name # None
          THEN <<v.dependent_legal_national_code, v.dependent_legal_name>> ELSE None
    BY DEF SignerBody
  <1> QED BY <1>1, <1>2, <1>3 DEF Whole

\* What a method sends of values that were accepted, or that come from an object
\* that is not what was accepted.
LEMMA IssueKeeps ==
  ASSUME RequestInv, NEW method \in Methods, NEW v \in Fields[MethodModel[method]],
         NEW source,
         \/ Accepts(MethodModel[method], v)
         \/ source = "object" /\ object.values # checked /\ method \notin Recoverable,
         Issue(method, v, source)
  PROVE  RequestInv' /\ UNCHANGED object
  <1>1. MethodModel[method] \in Models
    BY MethodFacts
  <1>2. CASE method = "create_mandate"
    <2>1. MethodModel[method] = "mandate" /\ v \in Fields["mandate"]
      BY <1>2, MethodFacts
    <2>2. PICK workflow : CreateMandate(workflow, v, source)
      BY <1>2 DEF Issue
    <2>3. CASE workflow \in Workflows /\ MandateIsComplete(workflow, v)
      <3>1. FitsWorkflow(workflow, MandateBody(workflow, v))
        BY <2>1, <2>3, MandateFits
      <3>2. Accepts("mandate", v) => Published("mandate", MandateBody(workflow, v))
        BY <2>1, MandatePublished DEF Accepts
      <3>3. Whole(MandateBody(workflow, v))
        BY <1>1, PayloadsAreWhole
      <3>4. Sound("create_mandate", workflow, MandateBody(workflow, v), source)
        BY <1>2, <2>1, <3>1, <3>2, <3>3 DEF Sound, Recoverable
      <3>5. Leave("create_mandate", workflow, MandateBody(workflow, v), source)
        BY <2>2, <2>3 DEF CreateMandate
      <3> QED BY <3>4, <3>5, LeaveKeeps
    <2>4. CASE ~(workflow \in Workflows /\ MandateIsComplete(workflow, v))
      <3>1. Refuse("Validation")
        BY <2>2, <2>4 DEF CreateMandate
      <3> QED BY <3>1, RefuseKeeps
    <2> QED BY <2>3, <2>4
  <1>3. CASE method # "create_mandate"
    <2>1. Leave(method, None, Payload(v), source)
      BY <1>3 DEF Issue
    <2>2. MethodModel[method] \in Models \ {"mandate"}
      BY <1>1, <1>3, MethodFacts
    <2>3. Accepts(MethodModel[method], v) => Published(MethodModel[method], Payload(v))
      BY <2>2, AcceptedIsPublished
    <2>4. Whole(Payload(v))
      BY <1>1, PayloadsAreWhole
    <2>5. ASSUME method \in Recoverable, ReferenceOf[method] \in DOMAIN Payload(v)
          PROVE  Fits(Payload(v)[ReferenceOf[method]], InquiryRule[method])
      <3>1. /\ Payload(v)[ReferenceOf[method]] = v[ReferenceOf[method]]
            /\ ReferenceOf[method] \in DOMAIN v
        BY <2>5, PayloadFields
      <3>2. Accepts(MethodModel[method], v)
        BY <2>5
      <3> QED BY <2>5, <3>1, <3>2, ReferencesFit
    <2>6. Sound(method, None, Payload(v), source)
      BY <1>3, <2>3, <2>4, <2>5 DEF Sound
    <2> QED BY <2>1, <2>6, LeaveKeeps
  <1> QED BY <1>2, <1>3

\* The calls of a method.
LEMMA CallKeeps ==
  ASSUME RequestInv, NEW method \in Methods, Call(method)
  PROVE  RequestInv' /\ UNCHANGED object
  <1>1. CASE CallWithObject(method)
    <2>1. /\ object # NoObject /\ object.model = MethodModel[method]
          /\ method \in CriteriaMethods \cup EitherMethods
          /\ Issue(method, object.values, "object")
      BY <1>1 DEF CallWithObject
    <2>2. /\ object.values \in Fields[MethodModel[method]]
          /\ Accepts(MethodModel[method], checked)
      BY <2>1, InputsAssumption, MethodFacts DEF RequestInv, ObjectInv
    <2>3. method \notin Recoverable
      BY <2>1, RecoverableModels
    <2>4. \/ Accepts(MethodModel[method], object.values)
          \/ object.values # checked
      BY <2>2
    <2> QED BY <2>1, <2>2, <2>3, <2>4, IssueKeeps
  <1>2. CASE CallWithNothing(method)
    <2>1. /\ method \in {"filter_purchases", "filter_settlements"}
          /\ Leave(method, None, Payload(<<>>), "keywords")
      BY <1>2 DEF CallWithNothing
    <2>2. DOMAIN Payload(<<>>) = {}
      <3>1. PICK v : v = <<>>
        OBVIOUS
      <3>2. DOMAIN v = {}
        BY <3>1
      <3>3. DOMAIN Payload(v) = {}
        BY <3>2, PayloadFields
      <3> QED BY <3>1, <3>3
    <2>3. MethodModel[method] \in {"purchase_filter", "settlement_filter"}
      BY <2>1 DEF MethodModel
    <2>4. Published(MethodModel[method], Payload(<<>>))
      BY <2>2, <2>3 DEF Published, EarlierWhenGiven, Within
    <2>5. Sound(method, None, Payload(<<>>), "keywords")
      BY <2>1, <2>2, <2>4 DEF Sound, Whole
    <2> QED BY <2>1, <2>5, LeaveKeeps
  <1>3. CASE CallWithBoth(method)
    BY <1>3, RefuseKeeps DEF CallWithBoth
  <1>4. CASE CallWithKeywords(method)
    <2>1. PICK v \in Inputs[MethodModel[method]] :
            \/ Refuse("TypeError") \/ Refuse("Validation")
            \/ Accepts(MethodModel[method], v) /\ Issue(method, v, "keywords")
      BY <1>4 DEF CallWithKeywords
    <2>2. v \in Fields[MethodModel[method]]
      BY InputsAssumption, MethodFacts
    <2>3. CASE Refuse("TypeError") \/ Refuse("Validation")
      BY <2>3, RefuseKeeps
    <2>4. CASE Accepts(MethodModel[method], v) /\ Issue(method, v, "keywords")
      BY <2>2, <2>4, IssueKeeps
    <2> QED BY <2>1, <2>3, <2>4
  <1> QED BY <1>1, <1>2, <1>3, <1>4 DEF Call

\* A transfer or a switching that was constructed before, inside the fields that
\* the call checks: an object that was not assigned to is still what it accepts.
LEMMA TransferKeeps ==
  ASSUME RequestInv, CallWithTransfer
  PROVE  RequestInv' /\ UNCHANGED object
  <1>1. object # NoObject /\ object.model = "transfer"
    BY DEF CallWithTransfer
  <1>2. /\ object.values \in Fields["transfer"]
        /\ Accepts("transfer", checked)
    BY <1>1, InputsAssumption, ObjectFacts DEF RequestInv, ObjectInv
  <1>3. PICK v \in Inputs["batch"] :
          IF BatchFields(v)
          THEN Leave("submit_batch", None,
                     Payload([v EXCEPT !.amount = object.values.amount]), "object")
          ELSE Refuse("Validation")
    BY DEF CallWithTransfer
  <1>4. v \in Fields["batch"]
    BY InputsAssumption, MethodFacts, RecoverableModels
  <1> DEFINE w == [v EXCEPT !.amount = object.values.amount]
  <1>5. CASE BatchFields(v)
    <2>1. object.values.amount \in Int
      BY <1>2 DEF Fields
    <2>2. w \in Fields["batch"]
      BY <1>4, <2>1 DEF Fields
    <2>3. /\ w.batch_id = v.batch_id /\ w.transfers = v.transfers
          /\ w.amount = object.values.amount
      BY <1>4 DEF Fields
    <2> HIDE DEF w
    <2>4. BatchFields(w)
      BY <1>5, <2>3 DEF BatchFields
    <2>5. object.values = checked => Accepts("batch", w)
      BY <1>2, <2>3, <2>4 DEF Accepts, TransferItem, Batch
    <2>6. object.values = checked => Published("batch", Payload(w))
      BY <2>2, <2>5, AmountsPublished
    <2>7. Whole(Payload(w))
      BY <2>2, MethodFacts, RecoverableModels, PayloadsAreWhole
    <2>8. ASSUME "batch_id" \in DOMAIN Payload(w)
          PROVE  Fits(Payload(w).batch_id, BatchInquiry)
      BY <2>2, <2>4, <2>8, BatchReferenceFits, PayloadFields
    <2>9. ReferenceOf["submit_batch"] = "batch_id" /\ InquiryRule["submit_batch"] = BatchInquiry
      BY DEF ReferenceOf, InquiryRule
    <2>10. Sound("submit_batch", None, Payload(w), "object")
      BY <2>6, <2>7, <2>8, <2>9, RecoverableModels DEF Sound
    <2>11. Leave("submit_batch", None, Payload(w), "object")
      BY <1>3, <1>5 DEF w
    <2> QED BY <2>10, <2>11, LeaveKeeps
  <1>6. CASE ~BatchFields(v)
    BY <1>3, <1>6, RefuseKeeps
  <1> QED BY <1>5, <1>6

LEMMA SwitchingKeeps ==
  ASSUME RequestInv, CallWithSwitching
  PROVE  RequestInv' /\ UNCHANGED object
  <1>1. object # NoObject /\ object.model = "switching"
    BY DEF CallWithSwitching
  <1>2. /\ object.values \in Fields["switching"]
        /\ Accepts("switching", checked)
    BY <1>1, InputsAssumption, ObjectFacts DEF RequestInv, ObjectInv
  <1>3. PICK v \in Inputs["purchase"] :
          IF PurchaseFields(v)
          THEN Leave("create_purchase", None,
                     Payload([v EXCEPT !.terminal_ids = object.values.terminal_ids]), "object")
          ELSE Refuse("Validation")
    BY DEF CallWithSwitching
  <1>4. v \in Fields["purchase"]
    BY InputsAssumption, MethodFacts, RecoverableModels
  <1> DEFINE w == [v EXCEPT !.terminal_ids = object.values.terminal_ids]
  <1>5. CASE PurchaseFields(v)
    <2>1. object.values.terminal_ids \in Seq(STRING)
      BY <1>2 DEF Fields
    <2>2. w \in Fields["purchase"]
      BY <1>4, <2>1 DEF Fields, Optional
    <2>3. /\ w.terminal_ids = object.values.terminal_ids
          /\ \A f \in DOMAIN v \ {"terminal_ids"} : w[f] = v[f]
          /\ DOMAIN v = {"client_reference_number", "amount", "wage",
                         "payer_mobile_number", "check_payer_mobile_number",
                         "payer_card_number", "payer_card_numbers", "terminal_ids"}
      BY <1>4 DEF Fields
    <2> HIDE DEF w
    <2>4. PurchaseFields(w)
      BY <1>5, <2>3 DEF PurchaseFields
    <2>5. object.values = checked => Purchase(w)
      BY <1>2, <2>3, <2>4 DEF Accepts, Switching, Purchase
    <2>6. object.values = checked => Published("purchase", Payload(w))
      BY <2>2, <2>5, PurchasePublished
    <2>7. Whole(Payload(w))
      BY <2>2, MethodFacts, RecoverableModels, PayloadsAreWhole
    <2>8. ASSUME "client_reference_number" \in DOMAIN Payload(w)
          PROVE  Fits(Payload(w).client_reference_number, PurchaseInquiry)
      BY <2>2, <2>4, <2>8, PurchaseReferenceFits, PayloadFields
    <2>9. /\ ReferenceOf["create_purchase"] = "client_reference_number"
          /\ InquiryRule["create_purchase"] = PurchaseInquiry
      BY DEF ReferenceOf, InquiryRule
    <2>10. Sound("create_purchase", None, Payload(w), "object")
      BY <2>6, <2>7, <2>8, <2>9, RecoverableModels DEF Sound
    <2>11. Leave("create_purchase", None, Payload(w), "object")
      BY <1>3, <1>5 DEF w
    <2> QED BY <2>10, <2>11, LeaveKeeps
  <1>6. CASE ~PurchaseFields(v)
    BY <1>3, <1>6, RefuseKeeps
  <1> QED BY <1>5, <1>6

\* initiate with a signer.
LEMMA SignerKeeps ==
  ASSUME RequestInv, CallWithSigner
  PROVE  RequestInv' /\ UNCHANGED object
  <1>1. ASSUME NEW v, NEW source, Leave("initiate", None, SignerBody(v), source)
        PROVE  RequestInv' /\ UNCHANGED object
    <2>1. "initiate" \in Methods /\ MethodModel["initiate"] = "contract"
      BY RecoverableModels
    <2>2. Published("contract", SignerBody(v))
      BY DEF Published
    <2>3. ReferenceOf["initiate"] = "track_id"
      BY DEF ReferenceOf
    <2>4. Sound("initiate", None, SignerBody(v), source)
      BY <2>1, <2>2, <2>3, SignersAreWhole DEF Sound
    <2> QED BY <1>1, <2>4, LeaveKeeps
  <1>2. \/ Leave("initiate", None, SignerBody(object.values), "object")
        \/ \E v : Leave("initiate", None, SignerBody(v), "keywords")
        \/ Refuse("Validation")
    BY DEF CallWithSigner
  <1> QED BY <1>1, <1>2, RefuseKeeps

\* An object is constructed: nothing is sent.
LEMMA ConstructKeeps ==
  ASSUME RequestInv, NEW model \in ObjectModels, Construct(model)
  PROVE  RequestInv' /\ wire' = NoWire
  <1>1. /\ object = NoObject /\ assigns = 0
        /\ wire' = NoWire /\ inquiry' = "none" /\ assigns' = assigns
    BY ObjectFacts DEF Construct, RequestInv, ObjectInv, NoObject
  <1>2. PICK v \in Inputs[model] :
          \/ /\ Accepts(model, v) /\ object' = [model |-> model, values |-> v]
             /\ checked' = v /\ outcome' = "constructed"
          \/ /\ outcome' \in {"ValidationError", "TypeError"}
             /\ UNCHANGED <<object, checked>>
    BY DEF Construct
  <1>3. ObjectInv'
    BY <1>1, <1>2 DEF ObjectInv
  <1>4. WireInv' /\ EndInv'
    BY <1>1, <1>2 DEF WireInv, EndInv, RequestInv
  <1> QED BY <1>1, <1>3, <1>4 DEF RequestInv

\* An object is assigned to: nothing is checked, and nothing is sent.
LEMMA AssignKeeps ==
  ASSUME RequestInv, Assign
  PROVE  RequestInv' /\ wire' = NoWire
  <1>1. /\ object # NoObject /\ assigns < MaxAssigns /\ assigns' = assigns + 1
        /\ wire' = NoWire /\ inquiry' = "none" /\ outcome' = "assigned"
        /\ checked' = checked
    BY DEF Assign
  <1>2. PICK v \in Inputs[object.model] :
          /\ \E f \in DOMAIN v : v = [object.values EXCEPT ![f] = v[f]]
          /\ object' = [object EXCEPT !.values = v]
    BY DEF Assign
  <1>3. DOMAIN v = DOMAIN object.values
    BY <1>2
  <1>4. PICK m, w : object = [model |-> m, values |-> w]
    BY <1>1 DEF RequestInv, ObjectInv
  <1>5. object' = [model |-> m, values |-> v]
    BY <1>2, <1>4
  <1>6. object'.model = object.model /\ object'.values = v
    BY <1>4, <1>5
  <1>7. ObjectInv'
    BY <1>1, <1>2, <1>3, <1>5, <1>6 DEF RequestInv, ObjectInv
  <1>8. WireInv' /\ EndInv'
    BY <1>1, InputsAssumption DEF WireInv, EndInv, RequestInv
  <1> QED BY <1>1, <1>7, <1>8 DEF RequestInv

\* The inquiry by the reference of what was sent.
LEMMA InquireKeeps ==
  ASSUME RequestInv, Inquire
  PROVE  RequestInv' /\ UNCHANGED object
  <1>1. /\ wire # NoWire /\ wire.uncertain
        /\ ReferenceOf[wire.method] \in DOMAIN wire.body
        /\ inquiry' = IF Fits(wire.body[ReferenceOf[wire.method]],
                              InquiryRule[wire.method])
                      THEN "sent" ELSE "refused"
        /\ UNCHANGED <<object, checked, assigns, wire, outcome>>
    BY DEF Inquire
  <1>2. wire.method \in Recoverable => inquiry' = "sent"
    BY <1>1 DEF RequestInv, WireInv, Sound
  <1>3. ObjectInv' /\ WireInv'
    BY <1>1 DEF RequestInv, ObjectInv, WireInv, Sound
  <1>4. EndInv'
    BY <1>1, <1>2 DEF RequestInv, EndInv
  <1> QED BY <1>1, <1>3, <1>4 DEF RequestInv

\* Every step keeps the invariant, and one that sends leaves the object alone.
LEMMA RequestStep ==
  RequestInv /\ [Next]_vars => RequestInv' /\ (wire' # NoWire => UNCHANGED object)
  <1> SUFFICES ASSUME RequestInv, [Next]_vars
               PROVE  RequestInv' /\ (wire' # NoWire => UNCHANGED object)
    OBVIOUS
  <1>1. ASSUME NEW model \in ObjectModels, Construct(model)
        PROVE  RequestInv' /\ wire' = NoWire
    BY <1>1, ConstructKeeps
  <1>2. ASSUME NEW method \in Methods, Call(method)
        PROVE  RequestInv' /\ UNCHANGED object
    BY <1>2, CallKeeps
  <1>3. CASE UNCHANGED vars
    BY <1>3 DEF vars, RequestInv, ObjectInv, WireInv, EndInv, Sound
  <1> QED BY <1>1, <1>2, <1>3, AssignKeeps, TransferKeeps,
             SwitchingKeeps, SignerKeeps, InquireKeeps DEF Next

-----------------------------------------------------------------------------
(* Theorems.                                                               *)

\* The invariant holds for all values that callers try.
THEOREM RequestInvariance == Spec => []RequestInv
  BY RequestInit, RequestStep, PTL DEF Spec

\* An object keeps the fields of its model, and an inquiry only follows an
\* uncertain submission.
THEOREM TypeCorrect == Spec => []TypeOK
  <1>1. RequestInv => TypeOK
    BY ObjectFacts DEF RequestInv, ObjectInv, EndInv, TypeOK, NoObject
  <1> QED BY <1>1, RequestInvariance, PTL

\* A request that breaks a published rule comes from an object that was assigned
\* to after its check; keywords never do (validate_request, the validators).
THEOREM CheckedIsPublished == Spec => []SentIsPublished
  <1>1. RequestInv => SentIsPublished
    BY DEF RequestInv, WireInv, Sound, SentIsPublished
  <1> QED BY <1>1, RequestInvariance, PTL

\* A mandate leaves with exactly the fields of its workflow, whatever was
\* assigned to the request (DirectDebitService.create_mandate).
THEOREM MandatesFit == Spec => []MandateFitsItsWorkflow
  <1>1. RequestInv => MandateFitsItsWorkflow
    BY DEF RequestInv, WireInv, Sound, FitsWorkflow, MandateFitsItsWorkflow
  <1> QED BY <1>1, RequestInvariance, PTL

\* Half of a legal entity never leaves (Signer.to_provider_payload).
THEOREM SignersLeaveWhole == Spec => []SignerIsWhole
  <1>1. RequestInv => SignerIsWhole
    BY DEF RequestInv, WireInv, Sound, Whole, SignerIsWhole
  <1> QED BY <1>1, RequestInvariance, PTL

\* A call leaves the caller's request object as it is.
THEOREM ObjectsAreKept == Spec => CallsKeepTheObject
  <1>1. RequestInv /\ [Next]_vars => [wire' # NoWire => UNCHANGED object]_vars
    BY RequestStep
  <1> QED BY <1>1, RequestInvariance, PTL DEF Spec, CallsKeepTheObject

\* A purchase, batch, settlement or contract whose outcome is uncertain can be
\* asked for by every reference that was accepted with it.
THEOREM SubmissionsAreReconcilable ==
  ASSUME Reconciled \subseteq Recoverable
  PROVE  Spec => []UncertainIsReconcilable
  <1>1. RequestInv => UncertainIsReconcilable
    BY DEF RequestInv, EndInv, UncertainIsReconcilable
  <1> QED BY <1>1, RequestInvariance, PTL

=============================================================================
