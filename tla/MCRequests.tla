----------------------------- MODULE MCRequests -----------------------------
(* Instances of Requests for TLC: values on both sides of every bound.     *)
EXTENDS Requests

Ref(length, alphabet) == [length |-> length, alphabet |-> alphabet]

References ==
  {Ref(36, "uuid"), Ref(0, "track")}
    \cup [length : {1, 10, 50, 51, 100, 101, 200, 201}, alphabet : Alphabets \ {"uuid"}]

Good == Ref(36, "uuid")

Aware(time) == [time |-> time, aware |-> TRUE]
Naive(time) == [time |-> time, aware |-> FALSE]

Purchases ==
  [client_reference_number : {Good}, amount : {4999, 5000, 5007}, wage : {-1, 0, 750, 751},
   payer_mobile_number : {None, "", "x"}, check_payer_mobile_number : BOOLEAN,
   payer_card_number : {None, "", "x"},
   payer_card_numbers : {None, <<>>, <<"x", "y">>, <<"x", "x">>}, terminal_ids : {None, <<>>, <<"x">>}]
    \cup
  [client_reference_number : References, amount : {5000}, wage : {0},
   payer_mobile_number : {None}, check_payer_mobile_number : {FALSE},
   payer_card_number : {None}, payer_card_numbers : {None}, terminal_ids : {None}]

Medias(type) == [size : {4, 5, 10, 11, 40, 41}, type : {type, "text/"}]

Mandates ==
  [creditor_mandate_reference : {Good, Ref(9, "track"), Ref(10, "free")},
   start_date : {1, 2}, expire_date : {1, 2}, frequency : {None, 0, 1},
   retry : {None, "no"}, otp_requirement_status : {None, "x"},
   otp_condition : {None, "x"}]

SmallInputs ==
  [purchase |-> Purchases,
   identifier |-> [client_reference_number : Optional(References),
                   purchase_id : {None, 0, 1}],
   refund |-> [client_reference_number : {None, Good}, purchase_id : {None, 0, 1},
               amount : {None, 0, 1}],
   switching |-> [terminal_ids : {<<>>, <<"x">>}],
   purchase_filter |-> [purchase_id : {None, 0, 1}, page : {None, 0, 20, 21},
                        size : {None, 0, 250, 251},
                        from_ : Optional({Aware(1), Aware(2)}),
                        to : Optional({Aware(1), Aware(2), Naive(2)})],
   history_filter |-> [purchase_id : {None, 0, 1}, page : {None, 0, 10, 11},
                       size : {None, 0, 20000, 20001}, statuses : {None, <<>>, <<"x">>},
                       from_ : Optional({Aware(0), Aware(1)}),
                       to : Optional({Aware(1), Aware(180), Aware(181), Naive(2)})],
   settlement_filter |-> [settlement_id : {None, 0, 1}, page : {None, 0, 20, 21},
                          size : {None, 0, 250, 251}],
   batch |-> [batch_id : References, transfers : {0, 1}, amount : {0, 1}],
   transfer |-> [amount : {0, 1}],
   generator |-> [amount : {0, 1}],
   selector |-> [batch_id : {None, "", "x"}, transfer_id : {None, "", "x"}],
   transfer_filter |-> [page : {0, 1}, size : {0, 250, 251},
                        from_time : {None, 1, 2}, to_time : {None, 1, 2}],
   settlement |-> [record_track_id : References, amount : {0, 1}],
   track_ids |-> [track_ids : {0, 1, 10000, 10001}],
   mandate |-> Mandates,
   collection |-> [creditor_transaction_no : References, amount : {0, 1}],
   message |-> [client_message_id : Optional(References)],
   bulk |-> [receptors : {0, 1, 1000, 1001}, message : {None, "", "x"},
             predefined_message_id : {None, "x"}],
   inbound |-> [from_date : [time : {1, 2}, aware : BOOLEAN],
                to_date : [time : {1, 2}, aware : BOOLEAN], page : {-1, 0}],
   signer |-> [dependent_legal_national_code : {None, "x"},
               dependent_legal_name : {None, "x"}],
   contract |-> [track_id : References, pdf : {"%PDF-", ""}, signers : {0, 1, 10, 11}],
   matching |-> [Identifiers -> {None, "x"}],
   similarity |-> [Names -> {None, "", "x"}],
   card |-> [{"deposit", "iban", "nationalCode"} -> BOOLEAN],
   video |-> [max_accepted_dist : {None, 0, 1, 10, 11}, national_id : {9, 10},
              line : {"", "x"}, video : Medias("video/")],
   photo |-> [national_id : {9, 10}, live_face : Medias("image/"),
              reference_face : Optional(Medias("image/"))],
   ocr |-> [image : Medias("image/")]]

=============================================================================
