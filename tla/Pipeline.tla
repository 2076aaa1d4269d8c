------------------------------ MODULE Pipeline ------------------------------
(***************************************************************************)
(* One run of run_pipeline: the LangGraph state graph                      *)
(*                                                                         *)
(*   guardrails -> classifier -> extractor -> validator -> router -> END   *)
(*                                   ^-- low confidence --'                *)
(*                                                                         *)
(* over the shared AgentState.  Each action is one node, together with the *)
(* edge that is taken when it returns.  The language model is the only     *)
(* source of nondeterminism: it returns any payload and any confidence, it *)
(* fails with an LLMError, or the call raises something else.              *)
(***************************************************************************)
EXTENDS Router

CONSTANTS
    Documents,         \* the documents a job may hold, see Guardrails
    Payloads,          \* Payloads[t]: what the model may extract for type t
    Confidences,       \* the confidences the model may report
    MaxRetries,        \* smartingest_max_retries
    EnableGuardrails,  \* smartingest_enable_guardrails
    RecursionLimit     \* LangGraph's bound on the nodes of one run

ASSUME MaxRetriesAssumption == MaxRetries \in Nat
ASSUME RecursionLimitAssumption == RecursionLimit \in Nat
ASSUME MinConfidenceAssumption == MinConfidence \in Int
ASSUME ConfidencesAssumption == Confidences \subseteq Int \cup {NaN}
ASSUME NaNAssumption == NaN \notin Int /\ NaN # None
ASSUME PayloadsAssumption ==
    /\ DOMAIN Payloads = DocumentTypes
    /\ \A t \in DocumentTypes : \A p \in Payloads[t] :
          /\ DOMAIN p = DOMAIN EmptyFields
          /\ p.total_amount \in Int \cup {None}
          /\ p.grand_total \in Int \cup {None}
          /\ Len(p.parties) \in Nat
          /\ Len(p.party_names) \in Nat
ASSUME CapAssumption ==
    get_rules.invoice_auto_approve_max_amount \in Int \cup {None}
ASSUME EnableGuardrailsAssumption == EnableGuardrails \in BOOLEAN

VARIABLES
    doc,                        \* the uploaded document, never written
    node,                       \* the node to run next, END, or "stopped"
    steps,                      \* nodes run so far
    document_type,
    classification_confidence,  \* None until the classifier succeeds
    fields,
    extraction_confidence,      \* None until the extractor succeeds
    security_findings,
    validation_issues,
    retries,
    route,                      \* "none" until the router has run
    route_reason,
    error,                      \* "none" while no agent has reported one
    extract_calls,              \* history: calls of the extractor node
    sufficient,                 \* history: some extraction was no weak one
    result                      \* the PipelineResult handed to the worker

agent_state == <<document_type, classification_confidence, fields,
                 extraction_confidence, security_findings, validation_issues,
                 retries, route, route_reason, error>>
history == <<extract_calls, sufficient>>
vars == <<doc, node, steps, agent_state, history, result>>

NoResult == [status |-> "none", route |-> "none", error |-> "none"]

(* run_pipeline: the initial state; every other key of it is absent. *)
Init ==
    /\ doc \in Documents
    /\ node = "guardrails"
    /\ steps = 0
    /\ document_type = "unknown"
    /\ classification_confidence = None
    /\ fields = EmptyFields
    /\ extraction_confidence = None
    /\ security_findings = {}
    /\ validation_issues = {}
    /\ retries = 0
    /\ route = "none"
    /\ route_reason = "none"
    /\ error = "none"
    /\ extract_calls = 0
    /\ sufficient = FALSE
    /\ result = NoResult

(* The graph runs node n: it is the next one, and a step is left. *)
Run(n) ==
    /\ node = n
    /\ steps < RecursionLimit
    /\ steps' = steps + 1
    /\ UNCHANGED <<doc, result>>

guardrail_node ==
    /\ Run("guardrails")
    /\ security_findings' =
          IF EnableGuardrails
          THEN scan_for_injection(doc) \cup detect_pii(doc) ELSE {}
    /\ node' = "classifier"
    /\ UNCHANGED <<document_type, classification_confidence, fields,
                   extraction_confidence, validation_issues, retries, route,
                   route_reason, error, history>>

classifier_node ==
    /\ Run("classifier")
    /\ document_type' \in DocumentTypes
    /\ classification_confidence' \in Confidences
    /\ node' = "extractor"
    /\ UNCHANGED <<fields, extraction_confidence, security_findings,
                   validation_issues, retries, route, route_reason, error,
                   history>>

(* An LLMError of the classifier is recorded and the run goes on. *)
classifier_node_fails ==
    /\ Run("classifier")
    /\ error' = "classification_failed"
    /\ node' = "extractor"
    /\ UNCHANGED <<document_type, classification_confidence, fields,
                   extraction_confidence, security_findings,
                   validation_issues, retries, route, route_reason,
                   history>>

(* What a successful extraction does besides storing the fields. *)
Extracts ==
    /\ Run("extractor")
    /\ extraction_confidence' \in Confidences
    /\ retries' = retries + 1
    /\ extract_calls' = extract_calls + 1
    /\ sufficient' = (sufficient \/ ~LowConfidence(extraction_confidence'))
    /\ UNCHANGED <<document_type, classification_confidence,
                   security_findings, validation_issues, route, route_reason>>

(* Mutant of extractor_node: a retry extends the earlier line items. *)
extractor_node_merges ==
    /\ Extracts
    /\ \E payload \in Payloads[document_type] :
          fields' = [sync_aliases(payload)
                        EXCEPT !.line_items = fields.line_items \o @]
    /\ node' = "validator"
    /\ UNCHANGED error

(* Mutant of extractor_node: only a first extraction is validated. *)
extractor_node_skips ==
    /\ Extracts
    /\ \E payload \in Payloads[document_type] : fields' = sync_aliases(payload)
    /\ node' = IF retries > 0 THEN "router" ELSE "validator"
    /\ UNCHANGED error

(* Mutant of extractor_node: a success forgets an earlier failure. *)
extractor_node_forgives ==
    /\ Extracts
    /\ \E payload \in Payloads[document_type] : fields' = sync_aliases(payload)
    /\ node' = "validator"
    /\ error' = "none"

extractor_node ==
    /\ Extracts
    /\ \E payload \in Payloads[document_type] : fields' = sync_aliases(payload)
    /\ node' = "validator"
    /\ UNCHANGED error

(* An LLMError of the extractor leaves the earlier fields, the earlier     *)
(* confidence and the retry counter as they were.                          *)
extractor_node_fails ==
    /\ Run("extractor")
    /\ error' = "extraction_failed"
    /\ retries' = retries
    /\ extract_calls' = extract_calls + 1
    /\ node' = "validator"
    /\ UNCHANGED <<document_type, classification_confidence, fields,
                   extraction_confidence, security_findings,
                   validation_issues, route, route_reason, sufficient>>

(* Mutants of needs_retry: one attempt too many, one too few, no budget. *)
needs_retry_late ==
    IF /\ LowConfidence(extraction_confidence)
       /\ retries <= MaxRetries
    THEN "extractor" ELSE "router"

needs_retry_early ==
    IF /\ LowConfidence(extraction_confidence)
       /\ retries + 1 < MaxRetries
    THEN "extractor" ELSE "router"

needs_retry_always ==
    IF LowConfidence(extraction_confidence)
    THEN "extractor" ELSE "router"

(* needs_retry: the conditional edge out of the validator. *)
needs_retry ==
    IF /\ LowConfidence(extraction_confidence)
       /\ retries < MaxRetries
    THEN "extractor" ELSE "router"

(* Mutant of validator_node: the findings are replaced, not appended to. *)
validator_node_replaces ==
    /\ Run("validator")
    /\ validation_issues' = ValidationIssues(document_type, fields, get_rules)
    /\ security_findings' =
          IF EnableGuardrails THEN ExtractionFindings(fields, doc)
          ELSE security_findings
    /\ node' = needs_retry
    /\ UNCHANGED <<document_type, classification_confidence, fields,
                   extraction_confidence, retries, route, route_reason, error,
                   history>>

validator_node ==
    /\ Run("validator")
    /\ validation_issues' = ValidationIssues(document_type, fields, get_rules)
    /\ security_findings' =
          IF EnableGuardrails
          THEN security_findings \cup ExtractionFindings(fields, doc)
          ELSE security_findings
    /\ node' = needs_retry
    /\ UNCHANGED <<document_type, classification_confidence, fields,
                   extraction_confidence, retries, route, route_reason, error,
                   history>>

Decision ==
    route_decision(error, document_type, classification_confidence, fields,
                   validation_issues, security_findings, get_rules)

router_node ==
    /\ Run("router")
    /\ route' = Decision.route
    /\ route_reason' = Decision.reason
    /\ node' = "END"
    /\ UNCHANGED <<document_type, classification_confidence, fields,
                   extraction_confidence, security_findings,
                   validation_issues, retries, error, history>>

(* Mutant of state_to_result: the error channel is not consulted. *)
state_to_result_completes ==
    /\ node = "END"
    /\ result' = [status |-> "completed", route |-> route, error |-> error]
    /\ node' = "stopped"
    /\ UNCHANGED <<doc, steps, agent_state, history>>

(* The graph returned: FAILED exactly when an agent reported an error. *)
state_to_result ==
    /\ node = "END"
    /\ result' = [status |-> IF error # "none" THEN "failed" ELSE "completed",
                  route |-> route, error |-> error]
    /\ node' = "stopped"
    /\ UNCHANGED <<doc, steps, agent_state, history>>

(* Mutant of Raised: the worker catches the exceptions of the agents only. *)
RaisedByAgents(exception) ==
    /\ exception # "recursion_limit"
    /\ result' = [status |-> "failed", route |-> "none", error |-> exception]
    /\ node' = "stopped"
    /\ UNCHANGED <<doc, steps, agent_state>>

(* run_pipeline raised: the worker makes a FAILED result of the exception. *)
Raised(exception) ==
    /\ result' = [status |-> "failed", route |-> "none", error |-> exception]
    /\ node' = "stopped"
    /\ UNCHANGED <<doc, steps, agent_state>>

(* An exception leaves an LLM node: the client cannot be built, which is   *)
(* done outside the try, or a confidence of the answer is not a number.    *)
llm_node_raises ==
    \/ /\ node = "classifier"
       /\ steps < RecursionLimit
       /\ Raised("exception")
       /\ UNCHANGED history
    \/ /\ node = "extractor"
       /\ steps < RecursionLimit
       /\ Raised("exception")
       /\ extract_calls' = extract_calls + 1
       /\ UNCHANGED sufficient

(* LangGraph gives up on a run that has used all its steps. *)
recursion_error ==
    /\ node \notin {"END", "stopped"}
    /\ steps >= RecursionLimit
    /\ Raised("recursion_limit")
    /\ UNCHANGED history

Step ==
    \/ guardrail_node
    \/ classifier_node
    \/ classifier_node_fails
    \/ extractor_node
    \/ extractor_node_fails
    \/ validator_node
    \/ router_node
    \/ state_to_result
    \/ llm_node_raises
    \/ recursion_error

Stopped == node = "stopped" /\ UNCHANGED vars

Next == Step \/ Stopped

(* The worker's thread runs the graph to its end. *)
Spec == Init /\ [][Next]_vars /\ WF_vars(Step)

-----------------------------------------------------------------------------
(* Every field set the run can hold: none yet, or some synced payload. *)
KnownFields ==
    {EmptyFields}
    \cup UNION {{sync_aliases(p) : p \in Payloads[t]} : t \in DocumentTypes}

(* An attempt is always made; above that MaxRetries counts the attempts. *)
AttemptBudget == IF MaxRetries > 1 THEN MaxRetries ELSE 1

Nodes == {"guardrails", "classifier", "extractor", "validator", "router",
          "END", "stopped"}

Routes == {"auto_approve", "flag_for_review", "reject"}

(* Every variable of the run keeps its type; in particular the fields are  *)
(* always those of one payload (or none), never a mix of two passes.       *)
TypeOK ==
    /\ doc \in Documents
    /\ node \in Nodes
    /\ steps \in 0..RecursionLimit
    /\ document_type \in DocumentTypes
    /\ classification_confidence \in Confidences \cup {None}
    /\ fields \in KnownFields
    /\ extraction_confidence \in Confidences \cup {None}
    /\ retries \in Nat
    /\ route \in Routes \cup {"none"}
    /\ error \in {"none", "classification_failed", "extraction_failed"}
    /\ extract_calls \in Nat
    /\ sufficient \in BOOLEAN
    /\ result.status \in {"none", "completed", "failed"}

(* The counter the loop is bounded by never passes its budget, whatever    *)
(* the order of weak answers and failures (extractor_node, needs_retry).   *)
RetryBudget == retries <= AttemptBudget

HasInjection(d) == d.text /\ d.injections # {}

(* A document whose text matches an injection pattern is never approved or *)
(* flagged, however often the validator rewrites the findings of the scan: *)
(* a run that reaches a decision on it rejects (guardrail_node to router). *)
InjectionAlwaysRejected ==
    EnableGuardrails /\ HasInjection(doc) => route \in {"none", "reject"}

(* What the rules demand of an invoice, said of its fields directly. *)
SoundInvoice(f) ==
    /\ is_vendor_whitelisted(get_rules, f.vendor_name)
       \/ f.vendor_name \in {None, Empty}
    /\ f.vendor_tax_id \in get_rules.tax_id_formats \cup {None, Empty}
       \/ get_rules.tax_id_formats = {}
    /\ f.invoice_date \in Int /\ f.due_date \in Int
          => f.invoice_date <= f.due_date
    /\ candidates(f) # {} /\ effective_total(f) # None
          => \E c \in candidates(f) :
                Within(effective_total(f), c, total_tolerance(get_rules))
    /\ f.total_amount = None
       \/ get_rules.invoice_auto_approve_max_amount = None
       \/ f.total_amount <= get_rules.invoice_auto_approve_max_amount

SoundContract(f) ==
    /\ f.effective_date \in Int /\ f.expiration_date \in Int
          => f.effective_date < f.expiration_date
    /\ Len(effective_parties(f)) >= 2
    /\ f.signatures_present # FALSE

SoundIdDocument(f) ==
    /\ f.expiry_date \in Int => Today <= f.expiry_date
    /\ \/ f.id_type \notin DOMAIN get_rules.id_number_formats
       \/ f.id_number \in {None, Empty}
       \/ f.id_type \in {None, Empty}
       \/ f.id_number \in get_rules.id_number_formats[f.id_type]

SoundFields(type, f) ==
    /\ \A n \in required_fields(get_rules, type) : ~is_empty(f, n)
    /\ \A n \in DateFields : f[n] \in Int \cup {None, Empty}
    /\ type = "invoice" => SoundInvoice(f)
    /\ type = "contract" => SoundContract(f)
    /\ type = "id_document" => SoundIdDocument(f)

(* What auto-approval promises about the fields of the final state, after  *)
(* any number of passes through the retry loop: a known type, no agent     *)
(* error, every business rule satisfied by those fields, every grounded    *)
(* value in the text, and a classification confidence that is not below    *)
(* the threshold.  A NaN is below nothing, see ApprovalIsConfident.        *)
ApprovalIsSound ==
    route = "auto_approve" =>
        /\ error = "none"
        /\ document_type # "unknown"
        /\ SoundFields(document_type, fields)
        /\ EnableGuardrails => check_grounding(fields, doc) = {}
        /\ ~LowConfidence(classification_confidence)

(* A pass through the loop overwrites the fields and later the issues: the *)
(* issues the router decides on are those of the fields it decides on.     *)
IssuesMatchFields ==
    node \in {"router", "END"} =>
        validation_issues = ValidationIssues(document_type, fields, get_rules)

(* The router does not look at the extraction confidence, so that a weak   *)
(* extraction can be approved.  It is the last resort: every attempt the   *)
(* budget allows was made and answered, no more than these, and none of    *)
(* them was better, so no sufficient extraction was given up for it.       *)
WeakApprovalIsLastResort ==
    /\ route = "auto_approve"
    /\ LowConfidence(extraction_confidence)
    => extract_calls = AttemptBudget /\ ~sufficient

(* The budget alone ends a loop of weak answers: LangGraph cuts a run off  *)
(* only after extractions that failed, which the counter does not see.     *)
OnlyFailuresExhaustSteps ==
    /\ RecursionLimit >= 3 + 2 * AttemptBudget
    /\ result.error = "recursion_limit"
    => extract_calls > retries

(* Personal data informs redaction, never routing: without its findings    *)
(* the router would have decided the same.  The texts differ: this is what *)
(* router.py:45-46 and architecture.md, section 9, say, while the docstring *)
(* at router.py:35 lists "Security warnings (PII/grounding)" among what is *)
(* flagged for review.  The code follows the former.                       *)
PiiNeverRoutes ==
    route # "none" =>
        route = route_decision(error, document_type,
                    classification_confidence, fields, validation_issues,
                    {s \in security_findings : s.category # "pii"},
                    get_rules).route

(* The stored outcome is the run's: a completed job carries a decision, a  *)
(* failed one was rejected by the router or never reached it.              *)
ResultReflectsRun ==
    /\ result.status = "completed" => error = "none" /\ result.route \in Routes
    /\ result.status = "failed" => /\ result.route \in {"reject", "none"}
                                   /\ result.error # "none"
    /\ node = "stopped" <=> result.status # "none"

(* Once the entry scan has run no node drops a security finding, although  *)
(* the validator rebuilds the list on every pass.                          *)
FindingsNeverLost ==
    [][security_findings \subseteq security_findings']_vars

(* An error reported by an agent is never cleared by a later success, so a *)
(* retry that succeeds does not turn a failed job into a completed one.    *)
ErrorSticks == [][error # "none" => error' # "none"]_vars

(* Every run comes to an end, even when the model never reports a          *)
(* sufficient confidence and when every extraction fails.                  *)
Termination == <>(node = "stopped")

-----------------------------------------------------------------------------
(* Statements of the documentation that the code does not satisfy.         *)

(* rules.yaml:13: "Invoice totals above this amount are always flagged for *)
(* human review."  The total is the one the validator reconciles.          *)
LargeTotalsFlagged ==
    /\ route = "auto_approve"
    /\ document_type = "invoice"
    /\ effective_total(fields) # None
    /\ get_rules.invoice_auto_approve_max_amount # None
    => effective_total(fields) <= get_rules.invoice_auto_approve_max_amount

(* architecture.md:74-76: the retry budget bounds the loop, since "the     *)
(* Extractor increments retries on every pass", so that it ends by itself. *)
BudgetEndsLoop == result.error # "recursion_limit"

(* .env.example:35: SMARTINGEST_MAX_RETRIES is the "Maximum number of       *)
(* Extractor retries before giving up": the first attempt is not a retry.  *)
RetriesBeforeGivingUp ==
    /\ node \in {"router", "END"}
    /\ error = "none"
    /\ LowConfidence(extraction_confidence)
    => extract_calls = 1 + MaxRetries

(* router.py:35-38: "borderline confidence -> FLAG_FOR_REVIEW", and only   *)
(* "Otherwise -> AUTO_APPROVE": what is approved was classified with a     *)
(* confidence that reaches the threshold.                                  *)
ApprovalIsConfident ==
    route = "auto_approve" =>
        /\ classification_confidence \in Int
        /\ classification_confidence >= MinConfidence

=============================================================================
