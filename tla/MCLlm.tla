-------------------------------- MODULE MCLlm --------------------------------
(***************************************************************************)
(* A small instance of LlmPipeline: settings for the Gemini client with a  *)
(* chain that repeats and skips names, for the mock client, and for a      *)
(* missing SDK; texts that are sound, wrapped, partly malformed or no JSON. *)
(***************************************************************************)
EXTENDS LlmPipeline

CONSTANTS Acme, Inv7, Ann, Mail, m1, m2

Gemini == [mock_llm |-> FALSE, api_key |-> TRUE, genai_installed |-> TRUE,
           gemini_model |-> m1, fallbacks |-> <<Empty, m2, m1>>]

MCSettings == {Gemini, [Gemini EXCEPT !.genai_installed = FALSE],
               [Gemini EXCEPT !.api_key = FALSE]}

MCErrorCodes == {"429", "503", "400", "exception"}

MCToday == 100

MCRules ==
    [ required_fields |->
        [ invoice  |-> {"vendor_name", "total_amount"},
          contract |-> {"parties"} ],
      vendor_whitelist |-> {Acme},
      tax_id_formats   |-> {},
      id_number_formats |-> [p \in {} |-> {}],
      total_tolerance  |-> 5,
      invoice_auto_approve_max_amount |-> 1000 ]

MCClassifyTexts ==
    { <<[document_type |-> "invoice", confidence |-> 90]>>,
      <<Prose, [document_type |-> "contract", confidence |-> 75], Prose>>,
      <<[document_type |-> "invoice", confidence |-> None]>>,
      <<[document_type |-> "invoice", confidence |-> Malformed]>>,
      <<[document_type |-> "invoice", confidence |-> NaN]>>,
      <<[document_type |-> Malformed, confidence |-> 90]>>,
      <<[confidence |-> 90], Prose,
        [document_type |-> "invoice", confidence |-> 90]>>,
      <<Prose>> }

Bill == [vendor_name |-> Acme, invoice_number |-> Inv7,
         line_items |-> <<60, 40>>, tax_amount |-> 10, grand_total |-> 110,
         confidence |-> 90]

BillTexts ==
    { <<Bill>>,
      <<Prose, [Bill EXCEPT !.line_items = Malformed, !.tax_amount = None,
                            !.confidence = None], Prose>>,
      <<[Bill EXCEPT !.line_items = None, !.vendor_name = Malformed]>>,
      <<[Bill EXCEPT !.grand_total = Malformed, !.confidence = 60]>>,
      <<[Bill EXCEPT !.confidence = 0]>>,
      <<[Bill EXCEPT !.confidence = NaN]>>,
      <<[Bill EXCEPT !.confidence = Malformed, !.tax_amount = Malformed]>>,
      <<Bill, Bill>>, <<Prose, Braces>>, <<>> }

Deal == [party_names |-> <<Ann, Acme>>, parties |-> None,
         signatures_present |-> TRUE, confidence |-> 90]

DealTexts ==
    { <<Deal>>, <<[Deal EXCEPT !.party_names = Malformed]>>,
      <<[Deal EXCEPT !.parties = <<Ann>>, !.confidence = 60]>> }

MCExtractTexts ==
    [t \in DocumentTypes |->
        CASE t = "invoice"  -> BillTexts
          [] t = "contract" -> DealTexts
          [] OTHER          -> {<<Prose>>}]

Found ==
    [t \in DocumentTypes |->
        CASE t = "invoice" ->
                [EmptyFields EXCEPT !.vendor_name = Acme, !.total_amount = 110]
          [] t = "contract" -> [EmptyFields EXCEPT !.parties = <<Ann, Acme>>]
          [] t = "resume" -> [EmptyFields EXCEPT !.candidate_name = Ann]
          [] t = "id_document" -> [EmptyFields EXCEPT !.id_number = Inv7]
          [] OTHER -> EmptyFields]

Hits(i, c, r, d) ==
    [invoice |-> i, contract |-> c, resume |-> r, id_document |-> d]

PlainText ==
    [ text |-> TRUE, injections |-> {}, pii |-> {},
      words |-> {Acme, Ann, Inv7}, amounts |-> {110},
      keywords |-> Hits(2, 0, 2, 0), matches |-> Found ]

MCDocuments ==
    { PlainText,
      [PlainText EXCEPT !.keywords = Hits(0, 4, 1, 0)],
      [PlainText EXCEPT !.keywords = Hits(0, 0, 1, 0)],
      [PlainText EXCEPT !.keywords = Hits(0, 0, 1, 3)],
      [PlainText EXCEPT !.text = FALSE, !.words = {}, !.amounts = {},
                        !.keywords = Hits(0, 0, 0, 0)] }

(* What the runs of this instance can get out of the two clients. *)
MCPayloads ==
    [t \in DocumentTypes |->
        {fields_from_payload(safe_json_loads(x)) : x \in MCExtractTexts[t]}
        \cup {mock_fields(d, t) : d \in MCDocuments}]

MCConfidences == {0, 30, 50, 60, 65, 70, 75, 80, 85, 90, 95, 99, NaN}

(* They cover both clients. *)
ASSUME MCCovered == ClientsCovered

=============================================================================
