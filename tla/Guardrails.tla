----------------------------- MODULE Guardrails -----------------------------
(***************************************************************************)
(* The guardrails package: the scanners that turn a document's text and    *)
(* the extracted fields into security findings.  A document is             *)
(*   [text, injections, pii, words, amounts]                               *)
(* where text says whether read_text_source finds any text in it (FALSE    *)
(* for an image, a PDF or an unreadable file), injections and pii are the  *)
(* labels whose patterns match, words and amounts the values that occur    *)
(* verbatim in the text.                                                   *)
(***************************************************************************)
EXTENDS Rules

(* One error per injection label that matches the text. *)
scan_for_injection(doc) ==
    IF doc.text
    THEN {SecurityFinding("injection", l, None, "error") :
             l \in doc.injections}
    ELSE {}

(* One warning per kind of personal data in the text. *)
detect_pii(doc) ==
    IF doc.text
    THEN {SecurityFinding("pii", l, None, "warning") : l \in doc.pii}
    ELSE {}

GROUNDED_STRING_FIELDS ==
    {"vendor_name", "invoice_number", "candidate_name", "id_number"}
GROUNDED_NUMERIC_FIELDS == {"total_amount", "contract_value"}

(* The extracted values that do not occur in the source text, up to case   *)
(* and white space.                                                        *)
Ungrounded(f, doc) ==
    {name \in GROUNDED_STRING_FIELDS :
        Truthy(f[name]) /\ f[name] \notin doc.words}
    \cup
    {name \in GROUNDED_NUMERIC_FIELDS :
        f[name] # None /\ f[name] \notin doc.amounts}

(* check_grounding: a warning per ungrounded value, nothing without text. *)
check_grounding(f, doc) ==
    IF doc.text
    THEN {SecurityFinding("grounding", name, f[name], "warning") :
             name \in Ungrounded(f, doc)}
    ELSE {}

(* A warning per sensitive field that is populated. *)
detect_sensitive_fields(f) ==
    {SecurityFinding("pii", name, None, "warning") :
        name \in {n \in SENSITIVE_FIELD_NAMES : Truthy(f[n])}}

=============================================================================
