-------------------------- MODULE ServiceCatalogue --------------------------
(***************************************************************************)
(* The methods of the service facades: how each is classified for retries, *)
(* which layers it passes, whether it checks its parameters before         *)
(* anything is sent, and whether it parses the body of a 2xx.  Paths,      *)
(* parameters and response models are left out.                            *)
(***************************************************************************)

Methods(service, facade, safety, checked, typed, names) ==
  [service : {service}, facade : {facade}, safety : {safety},
   checked : {checked}, typed : {typed}, name : names]

\* The submissions and transitions of PaymentGatewayService, all audited.
PurchaseWrites ==
  LET Write(safety, names) ==
        Methods("payment_gateway", "gateway", safety, TRUE, TRUE, names)
  IN  Write("unsafe", {"create_purchase", "refund_purchase"})
        \cup Write("idempotent", {"verify_purchase", "reverse_purchase"})

\* Mutation: the refund actions go through the unaudited path of inquiries.
RefundActions_Plain ==
  Methods("payment_gateway", "plain", "unsafe", TRUE, FALSE,
    {"verify_refund", "retry_refund", "cancel_refund",
     "ignore_refund_cancellable_delay"})

\* _refund_action: status-only, audited, never repeated.
RefundActions ==
  Methods("payment_gateway", "gateway", "unsafe", TRUE, FALSE,
    {"verify_refund", "retry_refund", "cancel_refund",
     "ignore_refund_cancellable_delay"})

\* _typed without an event; criteria arrive as validated models.
GatewayInquiries ==
  LET Inquiry(checked, names) ==
        Methods("payment_gateway", "plain", "read_only", checked, TRUE, names)
  IN  Inquiry(TRUE, {"inquire_purchase", "inquire_refund"})
        \cup Inquiry(FALSE,
               {"filter_purchases", "list_terminals", "filter_settlements",
                "filter_purchase_histories", "get_balances", "health"})

TransferWrites ==
  Methods("transfers", "executor", "unsafe", TRUE, TRUE,
          {"submit_batch", "set_receipt_enabled"})
    \cup Methods("transfers", "executor", "unsafe", TRUE, FALSE,
                 {"cancel", "retry_failed"})

TransferInquiries ==
  LET Inquiry(safety, checked, names) ==
        Methods("transfers", "executor", safety, checked, TRUE, names)
  IN  Inquiry("read_only", TRUE,
              {"inquire", "filter_transfers", "get_daily_usage_report"})
        \cup Inquiry("read_only", FALSE,
                     {"get_balances", "get_supported_normal_banks",
                      "get_active_normal_banks"})
        \cup Inquiry("idempotent", TRUE, {"generate_batch"})

Cobank ==
  LET Method(safety, checked, names) ==
        Methods("cobank", "executor", safety, checked, TRUE, names)
  IN  Method("unsafe", TRUE, {"create_settlement"})
        \cup Method("idempotent", TRUE,
                    {"batch_inquire_settlements", "set_settlement_receipt",
                     "set_record_receipt"})
        \cup Method("read_only", TRUE, {"inquire_settlement", "list_settlements"})
        \cup Method("read_only", FALSE, {"get_merchant_accounts"})

\* Mutation: a collection is declared idempotent because it has a reference.
MandateWrites_Idempotent ==
  Methods("direct_debit", "executor", "idempotent", TRUE, TRUE,
          {"create_mandate", "collect"})

MandateWrites ==
  Methods("direct_debit", "executor", "unsafe", TRUE, TRUE,
          {"create_mandate", "collect"})

\* _status: the updates of a mandate, by HTTP status alone.  A callback that is
\* already a BlueBankCallback is forwarded without a check.
MandateUpdates ==
  LET Update(checked, names) ==
        Methods("direct_debit", "executor", "unsafe", checked, FALSE, names)
  IN  Update(TRUE, {"revoke_mandate", "enable_mandate", "disable_mandate",
                    "send_otp", "accept_blue_bank_callback"})

MandateInquiries ==
  LET Inquiry(checked, names) ==
        Methods("direct_debit", "executor", "read_only", checked, TRUE, names)
  IN  Inquiry(TRUE, {"inquire_transaction", "list_subscription_transactions",
                     "inquire_mandate", "inquire_creditor_mandate"})
        \cup Inquiry(FALSE, {"get_active_banks"})

Sms ==
  LET Method(safety, names) ==
        Methods("sms", "executor", safety, TRUE, TRUE, names)
  IN  Method("unsafe", {"send", "send_pattern", "create_bulk"})
        \cup Method("read_only", {"get_status", "get_status_by_client_id",
                                  "get_bulk", "fetch_inbound"})

\* The signed document is handed over as bytes.
Contracts ==
  LET Method(safety, typed, names) ==
        Methods("contracts", "executor", safety, TRUE, typed, names)
  IN  Method("unsafe", TRUE, {"initiate", "cancel"})
        \cup Method("read_only", TRUE, {"inquire"})
        \cup Method("read_only", FALSE, {"download_signed"})

\* The inquiries of IdenticatorService pass their parameters on unchecked,
\* except for the conversion flags of a card.
BankingInquiries ==
  LET Inquiry(safety, checked, names) ==
        Methods("identicator", "executor", safety, checked, TRUE, names)
  IN  Inquiry("read_only", FALSE, {"inquire_deposit", "inquire_iban"})
        \cup Inquiry("read_only", TRUE, {"inquire_card"})
        \cup Inquiry("idempotent", TRUE, {"match"})

IdentityInquiries ==
  LET Inquiry(safety, checked, names) ==
        Methods("identicator", "executor", safety, checked, TRUE, names)
  IN  Inquiry("read_only", FALSE,
              {"inquire_postal_address", "inquire_postal_coordinates",
               "inquire_identity", "inquire_foreigner_identity",
               "inquire_legal_identity", "inquire_legal_sign_holders"})
        \cup Inquiry("idempotent", TRUE, {"compare_identity_names"})

RegistryInquiries ==
  Methods("identicator", "executor", "read_only", FALSE, TRUE,
    {"inquire_military_qualification", "inquire_sana", "inquire_corporation",
     "inquire_cheque", "get_balances", "get_daily_usage_report",
     "service_availability", "health"})

\* Uploads of media with a static token; each may be billed.
Kyc ==
  Methods("kyc", "static", "unsafe", TRUE, TRUE,
    {"verify_video", "verify_photo", "ocr_national_card", "ocr_cheque",
     "ocr_bank_card"})

Catalogue ==
  UNION {PurchaseWrites, RefundActions, GatewayInquiries,
         TransferWrites, TransferInquiries, Cobank,
         MandateWrites, MandateUpdates, MandateInquiries, Sms, Contracts,
         BankingInquiries, IdentityInquiries, RegistryInquiries, Kyc}

=============================================================================
