------------------------------- MODULE Router -------------------------------
(***************************************************************************)
(* agents/router.py: the deterministic decision over the final state.      *)
(***************************************************************************)
EXTENDS Validator

CONSTANTS
    MinConfidence,  \* smartingest_min_confidence, in hundredths
    NaN             \* a confidence that is a float, but no number

(* state.get(key, default) for a confidence that may not have been set *)
ConfidenceOr(confidence, default) ==
    IF confidence = None THEN default ELSE confidence

(* confidence < threshold, which is False for a NaN. *)
LowConfidence(confidence) ==
    LET reported == ConfidenceOr(confidence, 100)
    IN reported # NaN /\ reported < MinConfidence

Routing(decision, reason) == [route |-> decision, reason |-> reason]

(* What a human must look at whatever else the checks say. *)
AboveCap(doc_type, f, rules) ==
    /\ doc_type = "invoice"
    /\ f.total_amount # None
    /\ rules.invoice_auto_approve_max_amount # None
    /\ f.total_amount > rules.invoice_auto_approve_max_amount

HasSeverity(s, severity) == \E x \in s : x.severity = severity

(* Mutant of ReviewFindings: personal data is reviewed like the rest. *)
AllWarnings(findings) == {s \in findings : s.severity = "warning"}

(* The warnings that warrant review: personal data is informational. *)
ReviewFindings(findings) ==
    {s \in findings : s.severity = "warning" /\ s.category # "pii"}

(* route_decision: the first case that applies decides. *)
route_decision(error, doc_type, confidence, f, issues, findings, rules) ==
    IF error # "none"
        THEN Routing("reject", "pipeline_error")
    ELSE IF doc_type = "unknown"
        THEN Routing("reject", "unknown_type")
    ELSE IF \E s \in findings :
               s.severity = "error" /\ s.category = "injection"
        THEN Routing("reject", "injection")
    ELSE IF HasSeverity(findings, "error")
        THEN Routing("reject", "security_errors")
    ELSE IF HasSeverity(issues, "error")
        THEN Routing("reject", "validation_errors")
    ELSE IF AboveCap(doc_type, f, rules)
        THEN Routing("flag_for_review", "above_cap")
    ELSE IF ReviewFindings(findings) # {}
        THEN Routing("flag_for_review", "security_review")
    ELSE IF HasSeverity(issues, "warning")
        THEN Routing("flag_for_review", "warnings")
    ELSE IF LowConfidence(confidence)
        THEN Routing("flag_for_review", "low_confidence")
    ELSE Routing("auto_approve", "all_checks_passed")

=============================================================================
