----------------------------- MODULE MCPipeline -----------------------------
(***************************************************************************)
(* A small instance of Pipeline: one payload per check of the validator    *)
(* and of the guardrails that raises it alone, next to payloads that pass, *)
(* and documents that contain all, some or none of the extracted values.   *)
(***************************************************************************)
EXTENDS Pipeline

CONSTANTS
    Acme, Unlisted, Inv7, Ghost, Ann, Boris, Mail,
    TaxId, OddTaxId, Passport, IdNo, OddIdNo, Bank

MCToday == 100
MCConfidences == {60, 75, 90, NaN}

MCRules ==
    [ required_fields |->
        [ invoice     |-> {"vendor_name", "invoice_number", "total_amount",
                           "invoice_date"},
          contract    |-> {"parties", "effective_date"},
          resume      |-> {"candidate_name", "email"},
          id_document |-> {"full_name", "id_number"} ],
      vendor_whitelist |-> {Acme},
      tax_id_formats   |-> {TaxId},
      id_number_formats |-> [p \in {Passport} |-> {IdNo}],
      total_tolerance  |-> 5,
      invoice_auto_approve_max_amount |-> 1000 ]

CleanInvoice ==
    [EmptyFields EXCEPT
        !.vendor_name = Acme, !.invoice_number = Inv7, !.invoice_date = 10,
        !.due_date = 20, !.vendor_tax_id = TaxId, !.line_items = <<60, 40>>,
        !.subtotal = 100, !.tax_amount = 10, !.total_amount = 110]

Invoices ==
    { CleanInvoice,
      [CleanInvoice EXCEPT !.total_amount = None, !.grand_total = 110],
      [CleanInvoice EXCEPT !.total_amount = 115],
      [CleanInvoice EXCEPT !.total_amount = 116],
      [CleanInvoice EXCEPT !.total_amount = 100, !.subtotal = None],
      [CleanInvoice EXCEPT !.vendor_name = Blank],
      [CleanInvoice EXCEPT !.vendor_name = Unlisted],
      [CleanInvoice EXCEPT !.vendor_tax_id = OddTaxId],
      [CleanInvoice EXCEPT !.invoice_date = BadDate],
      [CleanInvoice EXCEPT !.due_date = 9],
      [CleanInvoice EXCEPT !.invoice_number = Ghost],
      [CleanInvoice EXCEPT !.vendor_bank_details = Bank],
      [CleanInvoice EXCEPT !.line_items = <<>>, !.subtotal = 990,
                           !.total_amount = 1001, !.tax_amount = 11],
      [CleanInvoice EXCEPT !.line_items = <<>>, !.subtotal = 1990,
                           !.grand_total = 2000] }

CleanContract ==
    [EmptyFields EXCEPT
        !.parties = <<Ann, Boris>>, !.effective_date = 10,
        !.expiration_date = 30, !.contract_value = 110,
        !.signatures_present = TRUE]

Contracts ==
    { CleanContract,
      [CleanContract EXCEPT !.parties = <<>>, !.party_names = <<Ann, Boris>>],
      [CleanContract EXCEPT !.parties = <<Ann>>],
      [CleanContract EXCEPT !.expiration_date = 10],
      [CleanContract EXCEPT !.effective_date = Empty],
      [CleanContract EXCEPT !.signatures_present = FALSE],
      [CleanContract EXCEPT !.contract_value = 777] }

CleanResume ==
    [EmptyFields EXCEPT !.candidate_name = Ann, !.full_name = Ann,
                        !.email = Mail]

Resumes ==
    { CleanResume,
      [CleanResume EXCEPT !.email = None],
      [CleanResume EXCEPT !.candidate_name = Ghost] }

CleanId ==
    [EmptyFields EXCEPT
        !.full_name = Ann, !.id_type = Passport, !.id_number = IdNo,
        !.date_of_birth = 1, !.expiry_date = 100]

IdDocuments ==
    { CleanId,
      [CleanId EXCEPT !.expiry_date = 99],
      [CleanId EXCEPT !.id_number = OddIdNo],
      [CleanId EXCEPT !.date_of_birth = BadDate],
      [CleanId EXCEPT !.full_name = Empty] }

MCPayloads ==
    [ invoice |-> Invoices, contract |-> Contracts, resume |-> Resumes,
      id_document |-> IdDocuments, unknown |-> {EmptyFields} ]

PlainText ==
    [ text |-> TRUE, injections |-> {}, pii |-> {},
      words |-> {Blank, Acme, Unlisted, Inv7, Ann, Boris, IdNo, OddIdNo},
      amounts |-> {100, 110, 115, 116, 1001, 2000} ]

MCDocuments ==
    { PlainText,
      [PlainText EXCEPT !.injections = {"instruction_override"}],
      [PlainText EXCEPT !.pii = {"email"}],
      [PlainText EXCEPT !.text = FALSE, !.words = {}, !.amounts = {}] }

=============================================================================
