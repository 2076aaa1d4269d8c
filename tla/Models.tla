------------------------------- MODULE Models -------------------------------
(***************************************************************************)
(* The data contracts of models.py that the agents exchange, reduced to    *)
(* what the checks of the pipeline can tell apart.  A record of extracted  *)
(* fields keeps only the fields some agent reads.  Amounts are integers    *)
(* (cents), confidences integers (hundredths), a date that parses is an    *)
(* integer (a day number), any other text is a value of its own.           *)
(***************************************************************************)
EXTENDS Integers, Sequences

CONSTANTS
    None,       \* Python's None: the field is absent
    Empty,      \* the empty string
    Blank,      \* a string of white space only
    BadDate     \* a non-empty string that is not an ISO date

ASSUME NoneAssumption == None \notin Int

DocumentTypes == {"invoice", "contract", "resume", "id_document", "unknown"}

(* ExtractedFields(): every scalar None, every list empty. *)
EmptyFields ==
    [ vendor_name |-> None, invoice_number |-> None, invoice_date |-> None,
      due_date |-> None, vendor_tax_id |-> None, vendor_bank_details |-> None,
      line_items |-> <<>>, subtotal |-> None, tax_amount |-> None,
      discount |-> None, shipping |-> None, grand_total |-> None,
      total_amount |-> None, parties |-> <<>>, party_names |-> <<>>,
      effective_date |-> None, expiration_date |-> None,
      contract_value |-> None, signatures_present |-> None,
      candidate_name |-> None, full_name |-> None, email |-> None,
      id_type |-> None, id_number |-> None, date_of_birth |-> None,
      expiry_date |-> None ]

ListFields == {"line_items", "parties", "party_names"}

(* getattr(fields, name, None) *)
FieldValue(f, name) == IF name \in DOMAIN f THEN f[name] ELSE None

(* Python truthiness of a scalar field holding a string. *)
Truthy(v) == v \notin {None, Empty}

(* ExtractedFields._sync_aliases: whichever alias alone is set is mirrored. *)
sync_aliases(f) ==
    LET Either(a, b) == IF a = None THEN b ELSE a
    IN [f EXCEPT !.total_amount = Either(@, f.grand_total),
                 !.grand_total = Either(@, f.total_amount),
                 !.parties = IF @ = <<>> THEN f.party_names ELSE @,
                 !.party_names = IF @ = <<>> THEN f.parties ELSE @]

effective_total(f) ==
    IF f.grand_total # None THEN f.grand_total ELSE f.total_amount

effective_parties(f) ==
    IF f.party_names # <<>> THEN f.party_names ELSE f.parties

SENSITIVE_FIELD_NAMES == {"vendor_bank_details", "id_number", "date_of_birth"}

(* A ValidationIssue: the field, what is wrong with it, the severity. *)
ValidationIssue(field, problem, severity) ==
    [field |-> field, problem |-> problem, severity |-> severity]

(* A SecurityFinding: the category, the label or the field it is about, the *)
(* value quoted in its detail (None when no value is echoed), the severity. *)
SecurityFinding(category, about, value, severity) ==
    [category |-> category, about |-> about, value |-> value,
     severity |-> severity]

=============================================================================
