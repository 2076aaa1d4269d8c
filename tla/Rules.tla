-------------------------------- MODULE Rules --------------------------------
(***************************************************************************)
(* rules.py: the typed accessor over config/rules.yaml.  A rule set is a   *)
(* record; a regular expression is the set of the strings it matches and   *)
(* the whitelist the set of the vendor names that contain an allowed name. *)
(***************************************************************************)
EXTENDS Models

CONSTANT RulesFile   \* what the rules path holds: a rule set, or None

(* Rules({}): what every accessor returns of an empty document. *)
EmptyRules ==
    [ required_fields  |-> [t \in {} |-> {}],
      vendor_whitelist |-> {},
      tax_id_formats   |-> {},
      id_number_formats |-> [t \in {} |-> {}],
      total_tolerance  |-> None,
      invoice_auto_approve_max_amount |-> None ]

(* load_rules: a missing file is an empty rule set. *)
load_rules(file) == IF file = None THEN EmptyRules ELSE file

(* get_rules is cached: one rule set for the life of the process. *)
get_rules == load_rules(RulesFile)

required_fields(rules, doc_type) ==
    IF doc_type \in DOMAIN rules.required_fields
    THEN rules.required_fields[doc_type] ELSE {}

is_vendor_whitelisted(rules, vendor) ==
    Truthy(vendor) /\ vendor \in rules.vendor_whitelist

(* doc_type_rules("invoice").get("total_tolerance", 0.01), in cents *)
total_tolerance(rules) ==
    IF rules.total_tolerance = None THEN 1 ELSE rules.total_tolerance

=============================================================================
