------------------------------ MODULE Validator ------------------------------
(***************************************************************************)
(* agents/validator.py: the deterministic checks of the extracted fields.  *)
(* Every check yields the set of the issues it raises.                     *)
(***************************************************************************)
EXTENDS Guardrails

Seqs == INSTANCE SequencesExt

CONSTANT Today   \* date.today(), a day number

ASSUME TodayAssumption == Today \in Int

(* _parse_iso: the day a date field holds, None if absent or malformed. *)
parse_iso(v) == IF v \in Int THEN v ELSE None

is_empty(f, name) ==
    IF name \in ListFields THEN f[name] = <<>>
    ELSE FieldValue(f, name) \in {None, Empty, Blank}

check_required_fields(f, required) ==
    {ValidationIssue(name, "missing", "error") :
        name \in {n \in required : is_empty(f, n)}}

AmountOrZero(v) == IF v = None THEN 0 ELSE v

LineSum(f) == Seqs!FoldSeq(LAMBDA x, y : x + y, 0, f.line_items)

(* The totals that a common reading of the components would give. *)
candidates(f) ==
    LET tax   == AmountOrZero(f.tax_amount)
        extra == AmountOrZero(f.shipping) - AmountOrZero(f.discount)
    IN (IF f.subtotal # None THEN {f.subtotal + tax + extra} ELSE {})
       \cup (IF f.line_items # <<>>
             THEN {LineSum(f) + tax + extra, LineSum(f) + extra} ELSE {})

Within(a, b, tolerance) == a - b <= tolerance /\ b - a <= tolerance

DoesNotReconcile(f, rules) ==
    /\ effective_total(f) # None
    /\ candidates(f) # {}
    /\ \A c \in candidates(f) :
          ~Within(c, effective_total(f), total_tolerance(rules))

(* Mutant of Precedes: the two dates are compared the wrong way round. *)
Follows(second, first) ==
    /\ parse_iso(first) # None
    /\ parse_iso(second) # None
    /\ first < second

(* Both dates parse and the second one is before the first. *)
Precedes(second, first) ==
    /\ parse_iso(first) # None
    /\ parse_iso(second) # None
    /\ second < first

(* Non-empty, patterns are configured, and none of them matches. *)
MalformedTaxId(f, rules) ==
    /\ Truthy(f.vendor_tax_id)
    /\ rules.tax_id_formats # {}
    /\ f.vendor_tax_id \notin rules.tax_id_formats

RaiseIf(condition, issue) == IF condition THEN {issue} ELSE {}

check_invoice(f, rules) ==
    RaiseIf(DoesNotReconcile(f, rules),
            ValidationIssue("grand_total", "does_not_reconcile", "error"))
    \cup RaiseIf(Precedes(f.due_date, f.invoice_date),
            ValidationIssue("due_date", "precedes_invoice_date", "error"))
    \cup RaiseIf(MalformedTaxId(f, rules),
            ValidationIssue("vendor_tax_id", "unknown_format", "warning"))
    \cup RaiseIf(Truthy(f.vendor_name)
                   /\ ~is_vendor_whitelisted(rules, f.vendor_name),
            ValidationIssue("vendor_name", "not_whitelisted", "warning"))

check_contract(f) ==
    RaiseIf(/\ parse_iso(f.effective_date) # None
            /\ parse_iso(f.expiration_date) # None
            /\ f.expiration_date <= f.effective_date,
            ValidationIssue("expiration_date", "not_after_effective", "error"))
    \cup RaiseIf(Len(effective_parties(f)) < 2,
            ValidationIssue("party_names", "fewer_than_two", "error"))
    \cup RaiseIf(f.signatures_present = FALSE,
            ValidationIssue("signatures_present", "no_signatures", "warning"))

check_id_document(f, rules) ==
    RaiseIf(Precedes(f.expiry_date, Today),
            ValidationIssue("expiry_date", "expired", "error"))
    \cup RaiseIf(/\ Truthy(f.id_type)
                 /\ Truthy(f.id_number)
                 /\ f.id_type \in DOMAIN rules.id_number_formats
                 /\ f.id_number \notin rules.id_number_formats[f.id_type],
            ValidationIssue("id_number", "unknown_format", "warning"))

DateFields == {"invoice_date", "due_date", "effective_date",
               "expiration_date", "date_of_birth", "expiry_date"}

check_dates(f) ==
    {ValidationIssue(name, "not_an_ISO_date", "error") :
        name \in {n \in DateFields :
                     Truthy(f[n]) /\ parse_iso(f[n]) = None}}

(* validator_node: every issue of the fields under their document type. *)
ValidationIssues(doc_type, f, rules) ==
    check_required_fields(f, required_fields(rules, doc_type))
    \cup check_dates(f)
    \cup (CASE doc_type = "invoice"     -> check_invoice(f, rules)
            [] doc_type = "contract"    -> check_contract(f)
            [] doc_type = "id_document" -> check_id_document(f, rules)
            [] OTHER                    -> {})

(* validator_node: what the guardrails find once fields are extracted. *)
ExtractionFindings(f, doc) ==
    check_grounding(f, doc) \cup detect_sensitive_fields(f)

=============================================================================
