--------------------------- MODULE PipelineProofs ---------------------------
(***************************************************************************)
(* Theorems about one run of the pipeline, for every rule set, every set   *)
(* of documents, payloads and confidences and every retry budget.          *)
(***************************************************************************)
EXTENDS Pipeline, TLAPS

-----------------------------------------------------------------------------
(* The router always decides, and what it decides depends on the order of  *)
(* its cases: these lemmas say what each decision implies.                 *)

(* The router answers with one of the three routes. *)
LEMMA RouteDecides ==
    ASSUME NEW e, NEW t, NEW c, NEW f, NEW i, NEW s, NEW r
    PROVE  route_decision(e, t, c, f, i, s, r).route \in Routes
BY DEF route_decision, Routing, Routes

(* An approval passed every test of the router. *)
LEMMA ApprovalMeans ==
    ASSUME NEW e, NEW t, NEW c, NEW f, NEW i, NEW s, NEW r,
           route_decision(e, t, c, f, i, s, r).route = "auto_approve"
    PROVE  /\ e = "none"
           /\ t # "unknown"
           /\ ~HasSeverity(s, "error")
           /\ ~HasSeverity(i, "error")
           /\ ~HasSeverity(i, "warning")
           /\ ~AboveCap(t, f, r)
           /\ ReviewFindings(s) = {}
           /\ ~LowConfidence(c)
BY DEF route_decision, Routing

(* An injection finding is decisive once the agents report no error. *)
LEMMA InjectionMeansReject ==
    ASSUME NEW e, NEW t, NEW c, NEW f, NEW i, NEW s, NEW r,
           \E x \in s : x.severity = "error" /\ x.category = "injection"
    PROVE  route_decision(e, t, c, f, i, s, r).route = "reject"
BY DEF route_decision, Routing

(* An error of an agent is decisive whatever else the state holds. *)
LEMMA ErrorMeansReject ==
    ASSUME NEW e, NEW t, NEW c, NEW f, NEW i, NEW s, NEW r, e # "none"
    PROVE  route_decision(e, t, c, f, i, s, r).route = "reject"
BY DEF route_decision, Routing

-----------------------------------------------------------------------------
(* The payload a successful extraction stores is one of the known ones. *)
LEMMA SyncedIsKnown ==
    ASSUME NEW t \in DocumentTypes, NEW p \in Payloads[t]
    PROVE  sync_aliases(p) \in KnownFields
BY DEF KnownFields

(* The conditional edge leads to one of its two targets. *)
LEMMA RetryTargets == needs_retry \in {"extractor", "router"}
BY DEF needs_retry

(* The comparison of a confidence with the threshold has an answer. *)
LEMMA LowIsBoolean == \A c : LowConfidence(c) \in BOOLEAN
BY DEF LowConfidence

(* A run starts with every variable of AgentState in its type. *)
LEMMA TypeInit == Init => TypeOK
<1>1. EmptyFields \in KnownFields
  BY DEF KnownFields
<1>2. Init => sufficient \in BOOLEAN
  BY DEF Init
<1>3. QED
  BY <1>1, <1>2, RecursionLimitAssumption
  DEF Init, TypeOK, Nodes, NoResult, DocumentTypes

(* Every node of the graph, and the end of a run, keep the types. *)
LEMMA TypeStep == TypeOK /\ [Next]_vars => TypeOK'
<1> SUFFICES ASSUME TypeOK, [Next]_vars PROVE TypeOK'
  OBVIOUS
<1> USE DEF TypeOK, Nodes, history
<1>1. ASSUME NEW n, Run(n)
      PROVE  /\ doc' = doc
             /\ steps' \in 0..RecursionLimit
             /\ result' = result
  BY <1>1, RecursionLimitAssumption DEF Run
<1>2. CASE guardrail_node
  BY <1>1, <1>2 DEF guardrail_node
<1>3. CASE classifier_node
  BY <1>1, <1>3 DEF classifier_node
<1>4. CASE classifier_node_fails
  BY <1>1, <1>4 DEF classifier_node_fails
<1>5. CASE extractor_node
  <2>1. fields' \in KnownFields
    BY <1>5, SyncedIsKnown DEF extractor_node
  <2>2. sufficient' \in BOOLEAN
    BY <1>5, LowIsBoolean DEF extractor_node, Extracts
  <2>3. QED
    BY <1>1, <1>5, <2>1, <2>2 DEF extractor_node, Extracts
<1>6. CASE extractor_node_fails
  BY <1>1, <1>6 DEF extractor_node_fails
<1>7. CASE validator_node
  BY <1>1, <1>7, RetryTargets DEF validator_node
<1>8. CASE router_node
  BY <1>1, <1>8, RouteDecides DEF router_node, Decision
<1>9. CASE state_to_result
  BY <1>9 DEF state_to_result, agent_state
<1>10. CASE llm_node_raises
  BY <1>10 DEF llm_node_raises, Raised, agent_state
<1>11. CASE recursion_error
  BY <1>11 DEF recursion_error, Raised, agent_state
<1>12. CASE UNCHANGED vars
  BY <1>12 DEF vars, agent_state
<1>13. QED
  BY <1>2, <1>3, <1>4, <1>5, <1>6, <1>7, <1>8, <1>9, <1>10, <1>11, <1>12
  DEF Next, Step, Stopped

(* Type correctness of the run: every variable of AgentState keeps its     *)
(* type, and the fields are always those of one payload.                   *)
THEOREM TypeCorrect == Spec => []TypeOK
BY TypeInit, TypeStep, PTL DEF Spec

-----------------------------------------------------------------------------
(* The retry loop.  RetryBudget is not inductive: the counter may grow     *)
(* only because the validator sends back runs with budget left.  The steps *)
(* of a run are tied to its extractions, two for each of them.             *)
WeakSpendsBudget ==
    /\ node \in {"router", "END"}
    /\ LowConfidence(extraction_confidence)
    => retries >= MaxRetries

LoopInv ==
    /\ retries <= AttemptBudget
    /\ retries <= extract_calls
    /\ node \in {"guardrails", "classifier"} =>
          retries = 0 /\ extract_calls = 0
    /\ node = "guardrails" => steps = 0
    /\ node = "classifier" => steps = 1
    /\ node = "extractor" =>
          retries < AttemptBudget /\ steps = 2 + 2 * extract_calls
    /\ node = "validator" => steps = 1 + 2 * extract_calls
    /\ node = "router" => steps = 2 + 2 * extract_calls
    /\ node # "stopped" => result = NoResult
    /\ WeakSpendsBudget
    /\ OnlyFailuresExhaustSteps

(* The budget is a positive number of attempts, at least MaxRetries. *)
LEMMA BudgetFacts ==
    /\ AttemptBudget \in Nat
    /\ AttemptBudget >= 1
    /\ AttemptBudget >= MaxRetries
BY MaxRetriesAssumption DEF AttemptBudget

(* LoopInv holds at the start of a run. *)
LEMMA LoopInit == Init => LoopInv
BY BudgetFacts, MaxRetriesAssumption, RecursionLimitAssumption
DEF Init, LoopInv, NoResult, WeakSpendsBudget,
    OnlyFailuresExhaustSteps

(* Every node of the graph, and the end of a run, preserve LoopInv. *)
LEMMA LoopStep == TypeOK /\ LoopInv /\ [Next]_vars => LoopInv'
<1> SUFFICES ASSUME TypeOK, LoopInv, [Next]_vars PROVE LoopInv'
  OBVIOUS
<1>0. /\ retries \in Nat /\ extract_calls \in Nat /\ steps \in Nat
      /\ error \in {"none", "classification_failed", "extraction_failed"}
      /\ steps <= RecursionLimit
      /\ MaxRetries \in Nat /\ RecursionLimit \in Nat
      /\ AttemptBudget \in Nat /\ AttemptBudget >= 1
      /\ AttemptBudget >= MaxRetries
  BY BudgetFacts, MaxRetriesAssumption, RecursionLimitAssumption DEF TypeOK
<1> USE <1>0 DEF LoopInv, WeakSpendsBudget, OnlyFailuresExhaustSteps, history
<1>1. CASE guardrail_node
  BY <1>1 DEF guardrail_node, Run, NoResult
<1>2. CASE classifier_node
  BY <1>2 DEF classifier_node, Run, NoResult
<1>3. CASE classifier_node_fails
  BY <1>3 DEF classifier_node_fails, Run, NoResult
<1>4. CASE extractor_node
  BY <1>4 DEF extractor_node, Extracts, Run, NoResult
<1>5. CASE extractor_node_fails
  BY <1>5 DEF extractor_node_fails, Run, NoResult
<1>6. CASE validator_node
  <2>1. CASE node' = "extractor"
    <3>1. retries < MaxRetries
      BY <1>6, <2>1 DEF validator_node, needs_retry
    <3>2. QED
      BY <1>6, <2>1, <3>1 DEF validator_node, Run, NoResult
  <2>2. CASE node' = "router"
    <3>1. LowConfidence(extraction_confidence) => retries >= MaxRetries
      BY <1>6, <2>2 DEF validator_node, needs_retry
    <3>2. LowConfidence(extraction_confidence') => retries' >= MaxRetries
      BY <1>6, <3>1 DEF validator_node
    <3>3. QED
      BY <1>6, <2>2, <3>2 DEF validator_node, Run, NoResult
  <2>3. QED
    BY <1>6, <2>1, <2>2, RetryTargets DEF validator_node
<1>7. CASE router_node
  BY <1>7 DEF router_node, Run, NoResult
<1>8. CASE state_to_result
  BY <1>8 DEF state_to_result, agent_state
<1>9. CASE llm_node_raises
  BY <1>9 DEF llm_node_raises, Raised, agent_state
<1>10. CASE recursion_error
  <2>1. /\ RecursionLimit >= 3 + 2 * AttemptBudget => extract_calls > retries
        /\ node' = "stopped"
        /\ retries' = retries /\ extract_calls' = extract_calls
    BY <1>10 DEF recursion_error, Raised, agent_state, TypeOK, Nodes
  <2>2. QED
    BY <2>1
<1>11. CASE UNCHANGED vars
  BY <1>11 DEF vars, agent_state
<1>12. QED
  BY <1>1, <1>2, <1>3, <1>4, <1>5, <1>6, <1>7, <1>8, <1>9, <1>10, <1>11
  DEF Next, Step, Stopped

(* The retry counter stays within its budget on every run (needs_retry and *)
(* extractor_node), for every value of MaxRetries, zero included.          *)
THEOREM RetryBudgetHolds == Spec => []RetryBudget
<1>1. LoopInv => RetryBudget
  BY DEF LoopInv, RetryBudget
<1>2. QED
  BY <1>1, TypeCorrect, LoopInit, LoopStep, PTL DEF Spec

(* With room for the budget in LangGraph's limit, only failed extractions  *)
(* can drive a run into it.                                                *)
THEOREM OnlyFailuresExhaustStepsHolds == Spec => []OnlyFailuresExhaustSteps
<1>1. LoopInv => OnlyFailuresExhaustSteps
  BY DEF LoopInv
<1>2. QED
  BY <1>1, TypeCorrect, LoopInit, LoopStep, PTL DEF Spec

-----------------------------------------------------------------------------
(* The decision.  What the router decides on was established by different  *)
(* nodes: the injections by the entry scan, the issues and the grounding   *)
(* by the last pass of the validator.  DataInv carries them to the router  *)
(* and keeps the decision tied to them to the end of the run.              *)
Grounded == check_grounding(fields, doc) \subseteq security_findings

InjectionFound ==
    \E x \in security_findings :
        x.severity = "error" /\ x.category = "injection"

Decided ==
    /\ node \in {"END", "stopped"}
    /\ route = Decision.route
    /\ validation_issues = ValidationIssues(document_type, fields, get_rules)
    /\ EnableGuardrails => Grounded
    /\ EnableGuardrails /\ HasInjection(doc) => InjectionFound

DataInv ==
    /\ node = "guardrails" => security_findings = {}
    /\ \A x \in security_findings :
          x.category = "pii" => x.severity = "warning"
    /\ EnableGuardrails /\ HasInjection(doc)
          /\ node \notin {"guardrails", "stopped"} => InjectionFound
    /\ node = "router" =>
          /\ validation_issues =
                ValidationIssues(document_type, fields, get_rules)
          /\ EnableGuardrails => Grounded
    /\ node = "END" => route # "none"
    /\ route # "none" => Decided

(* Findings about personal data are warnings, whichever scanner made them. *)
LEMMA PiiIsWarning ==
    /\ \A d : \A x \in scan_for_injection(d) \cup detect_pii(d) :
          x.category = "pii" => x.severity = "warning"
    /\ \A f, d : \A x \in ExtractionFindings(f, d) :
          x.category = "pii" => x.severity = "warning"
BY DEF scan_for_injection, detect_pii, ExtractionFindings, check_grounding,
       detect_sensitive_fields, SecurityFinding

(* The entry scan reports every injection as an error. *)
LEMMA ScanFinds ==
    ASSUME NEW d, HasInjection(d)
    PROVE  \E x \in scan_for_injection(d) :
               x.severity = "error" /\ x.category = "injection"
<1>1. PICK l \in d.injections : TRUE
  BY DEF HasInjection
<1>2. SecurityFinding("injection", l, None, "error") \in scan_for_injection(d)
  BY <1>1 DEF scan_for_injection, HasInjection
<1>3. QED
  BY <1>2 DEF SecurityFinding

(* DataInv holds at the start of a run. *)
LEMMA DataInit == Init => DataInv
BY DEF Init, DataInv

(* The scan before the agents establishes the findings of the text. *)
LEMMA DataGuardrail == TypeOK /\ DataInv /\ guardrail_node => DataInv'
<1> SUFFICES ASSUME TypeOK, DataInv, guardrail_node PROVE DataInv'
  OBVIOUS
<1>1. /\ node = "guardrails" /\ node' = "classifier"
      /\ doc' = doc /\ route' = route
  BY DEF guardrail_node, Run
<1>2. route = "none"
  BY <1>1 DEF DataInv, Decided
<1>3. \A x \in security_findings' :
          x.category = "pii" => x.severity = "warning"
  BY PiiIsWarning DEF guardrail_node
<1>4. EnableGuardrails /\ HasInjection(doc)
        => \E x \in security_findings' :
               x.severity = "error" /\ x.category = "injection"
  BY ScanFinds DEF guardrail_node
<1>5. QED
  BY <1>1, <1>2, <1>3, <1>4 DEF DataInv, InjectionFound

(* The agents write no finding, and no decision has been taken yet. *)
LEMMA DataAgents ==
    ASSUME TypeOK, DataInv,
           node \in {"classifier", "extractor"},
           node' \in {"extractor", "validator", "stopped"},
           doc' = doc, route' = route,
           security_findings' = security_findings
    PROVE  DataInv'
<1>1. route = "none"
  BY DEF DataInv, Decided
<1>2. QED
  BY <1>1 DEF DataInv, InjectionFound

(* Every pass of the validator renews the issues and adds the findings. *)
LEMMA DataValidator == TypeOK /\ DataInv /\ validator_node => DataInv'
<1> SUFFICES ASSUME TypeOK, DataInv, validator_node PROVE DataInv'
  OBVIOUS
<1>1. /\ node = "validator" /\ node' \in {"extractor", "router"}
      /\ doc' = doc /\ route' = route /\ fields' = fields
      /\ document_type' = document_type
      /\ validation_issues' =
            ValidationIssues(document_type, fields, get_rules)
      /\ security_findings \subseteq security_findings'
  BY RetryTargets DEF validator_node, Run
<1>2. route = "none"
  BY <1>1 DEF DataInv, Decided
<1>3. \A x \in security_findings' :
          x.category = "pii" => x.severity = "warning"
  <2>1. \A x \in security_findings :
            x.category = "pii" => x.severity = "warning"
    BY DEF DataInv
  <2>2. \A x \in ExtractionFindings(fields, doc) :
            x.category = "pii" => x.severity = "warning"
    BY PiiIsWarning
  <2>3. \A x \in security_findings' :
            x \in security_findings \/ x \in ExtractionFindings(fields, doc)
    BY DEF validator_node
  <2>4. QED
    BY <2>1, <2>2, <2>3
<1>4. EnableGuardrails =>
          check_grounding(fields', doc') \subseteq security_findings'
  BY <1>1 DEF validator_node, ExtractionFindings
<1>5. EnableGuardrails /\ HasInjection(doc)
        => \E x \in security_findings' :
               x.severity = "error" /\ x.category = "injection"
  BY <1>1 DEF DataInv, InjectionFound
<1>6. QED
  BY <1>1, <1>2, <1>3, <1>4, <1>5 DEF DataInv, InjectionFound, Grounded

(* The router decides on what the earlier nodes established. *)
LEMMA DataRouter == TypeOK /\ DataInv /\ router_node => DataInv'
<1> SUFFICES ASSUME TypeOK, DataInv, router_node PROVE DataInv'
  OBVIOUS
<1>1. /\ node = "router" /\ node' = "END"
      /\ doc' = doc /\ fields' = fields /\ document_type' = document_type
      /\ classification_confidence' = classification_confidence
      /\ validation_issues' = validation_issues
      /\ security_findings' = security_findings
      /\ error' = error /\ route' = Decision.route
  BY DEF router_node, Run
<1>2. Decision' = Decision
  BY <1>1 DEF Decision
<1>3. route' # "none"
  BY <1>1, RouteDecides DEF Decision, Routes
<1>4. QED
  BY <1>1, <1>2, <1>3 DEF DataInv, Decided, InjectionFound, Grounded

(* The end of a run leaves the state and the decision as they are. *)
LEMMA DataEnd ==
    ASSUME TypeOK, DataInv, UNCHANGED <<doc, agent_state>>,
           \/ node' = "stopped"
           \/ node' = node
    PROVE  DataInv'
<1>1. /\ doc' = doc /\ fields' = fields /\ document_type' = document_type
      /\ classification_confidence' = classification_confidence
      /\ validation_issues' = validation_issues
      /\ security_findings' = security_findings
      /\ error' = error /\ route' = route
  BY DEF agent_state
<1>2. Decision' = Decision
  BY <1>1 DEF Decision
<1>3. CASE node' = "stopped"
  BY <1>1, <1>2, <1>3 DEF DataInv, Decided, InjectionFound, Grounded
<1>4. CASE node' = node
  BY <1>1, <1>2, <1>4 DEF DataInv, Decided, InjectionFound, Grounded
<1>5. QED
  BY <1>3, <1>4

(* Every step preserves DataInv. *)
LEMMA DataStep == TypeOK /\ DataInv /\ [Next]_vars => DataInv'
<1> SUFFICES ASSUME TypeOK, DataInv, [Next]_vars PROVE DataInv'
  OBVIOUS
<1>1. CASE guardrail_node
  BY <1>1, DataGuardrail
<1>2. CASE classifier_node
  BY <1>2, DataAgents DEF classifier_node, Run
<1>3. CASE classifier_node_fails
  BY <1>3, DataAgents DEF classifier_node_fails, Run
<1>4. CASE extractor_node
  BY <1>4, DataAgents DEF extractor_node, Extracts, Run
<1>5. CASE extractor_node_fails
  BY <1>5, DataAgents DEF extractor_node_fails, Run
<1>6. CASE validator_node
  BY <1>6, DataValidator
<1>7. CASE router_node
  BY <1>7, DataRouter
<1>8. CASE state_to_result
  BY <1>8, DataEnd DEF state_to_result
<1>9. CASE llm_node_raises
  BY <1>9, DataEnd DEF llm_node_raises, Raised
<1>10. CASE recursion_error
  BY <1>10, DataEnd DEF recursion_error, Raised
<1>11. CASE UNCHANGED vars
  BY <1>11, DataEnd DEF vars
<1>12. QED
  BY <1>1, <1>2, <1>3, <1>4, <1>5, <1>6, <1>7, <1>8, <1>9, <1>10, <1>11
  DEF Next, Step, Stopped

(* DataInv is an invariant of the run. *)
THEOREM DataInvariant == Spec => []DataInv
BY TypeCorrect, DataInit, DataStep, PTL DEF Spec

(* A decision rests on the injections that the entry scan found. *)
LEMMA InjectionRejects == DataInv => InjectionAlwaysRejected
<1> SUFFICES ASSUME DataInv, EnableGuardrails, HasInjection(doc),
                    route # "none"
             PROVE  route = "reject"
  BY DEF InjectionAlwaysRejected
<1>1. InjectionFound /\ route = Decision.route
  BY DEF DataInv, Decided
<1>2. QED
  BY <1>1, InjectionMeansReject DEF InjectionFound, Decision

(* A document with an injection pattern in its text is rejected by every   *)
(* run that decides on it (guardrail_node, validator_node, router_node).   *)
THEOREM InjectionAlwaysRejectedHolds == Spec => []InjectionAlwaysRejected
BY InjectionRejects, DataInvariant, PTL

(* A decision rests on the issues of the fields it is about. *)
LEMMA IssuesAreOfFields == DataInv => IssuesMatchFields
BY DEF DataInv, Decided, IssuesMatchFields

(* The issues behind the decision are those of the fields that the last    *)
(* pass of the extractor stored (validator_node after extractor_node).     *)
THEOREM IssuesMatchFieldsHolds == Spec => []IssuesMatchFields
BY IssuesAreOfFields, DataInvariant, PTL

(* Of findings that are warnings the router sees the other categories only. *)
LEMMA PiiIsIgnored == DataInv => PiiNeverRoutes
<1> SUFFICES ASSUME DataInv, route # "none"
             PROVE  route = route_decision(error, document_type,
                        classification_confidence, fields,
                        validation_issues,
                        {s \in security_findings : s.category # "pii"},
                        get_rules).route
  BY DEF PiiNeverRoutes
<1> DEFINE others == {s \in security_findings : s.category # "pii"}
<1>1. /\ route = Decision.route
      /\ \A x \in security_findings :
            x.category = "pii" => x.severity = "warning"
  BY DEF DataInv, Decided
<1>2. HasSeverity(security_findings, "error") = HasSeverity(others, "error")
  BY <1>1 DEF HasSeverity
<1>3. ReviewFindings(security_findings) = ReviewFindings(others)
  BY DEF ReviewFindings
<1>4. (\E s \in security_findings :
           s.severity = "error" /\ s.category = "injection")
      = (\E s \in others : s.severity = "error" /\ s.category = "injection")
  OBVIOUS
<1>5. QED
  BY <1>1, <1>2, <1>3, <1>4 DEF Decision, route_decision, Routing

(* Personal data never changes a routing decision (route_decision).        *)
THEOREM PiiNeverRoutesHolds == Spec => []PiiNeverRoutes
BY PiiIsIgnored, DataInvariant, PTL

-----------------------------------------------------------------------------
(* Approval.  The validator reports issues and the router reads their      *)
(* severities; the lemmas below turn the absence of issues into what the   *)
(* rules demand of the fields.                                             *)

(* The amounts of every field set a run holds are integers or absent, and  *)
(* its parties are a list.                                                 *)
LEMMA KnownTypes ==
    ASSUME NEW f \in KnownFields
    PROVE  /\ f.total_amount \in Int \cup {None}
           /\ Len(effective_parties(f)) \in Nat
<1>1. CASE f = EmptyFields
  BY <1>1 DEF EmptyFields, effective_parties
<1>2. CASE \E t \in DocumentTypes : \E p \in Payloads[t] : f = sync_aliases(p)
  <2>0. PICK t \in DocumentTypes :
            \E p \in Payloads[t] : f = sync_aliases(p)
    BY <1>2
  <2>1. PICK p \in Payloads[t] : f = sync_aliases(p)
    BY <2>0
  <2>2. /\ {"total_amount", "parties", "party_names"} \subseteq DOMAIN p
        /\ p.total_amount \in Int \cup {None}
        /\ p.grand_total \in Int \cup {None}
        /\ Len(p.parties) \in Nat /\ Len(p.party_names) \in Nat
    BY PayloadsAssumption DEF EmptyFields
  <2>3. /\ f.total_amount =
              IF p.total_amount = None THEN p.grand_total ELSE p.total_amount
        /\ f.parties = IF p.parties = <<>> THEN p.party_names ELSE p.parties
        /\ f.party_names =
              IF p.party_names = <<>> THEN p.parties ELSE p.party_names
    BY <2>1, <2>2 DEF sync_aliases
  <2>4. QED
    BY <2>2, <2>3 DEF effective_parties
<1>3. QED
  BY <1>1, <1>2 DEF KnownFields

(* No issue of either severity. *)
Clean(issues) ==
    ~HasSeverity(issues, "error") /\ ~HasSeverity(issues, "warning")

(* Every issue has one of the two severities. *)
LEMMA CleanIsEmpty ==
    ASSUME NEW t, NEW f, NEW r, Clean(ValidationIssues(t, f, r))
    PROVE  /\ check_required_fields(f, required_fields(r, t)) = {}
           /\ check_dates(f) = {}
           /\ t = "invoice" => Clean(check_invoice(f, r))
           /\ t = "contract" => Clean(check_contract(f))
           /\ t = "id_document" => Clean(check_id_document(f, r))
<1>1. /\ Clean(check_required_fields(f, required_fields(r, t)))
      /\ Clean(check_dates(f))
  BY DEF Clean, HasSeverity, ValidationIssues
<1>2. check_required_fields(f, required_fields(r, t)) = {}
  BY <1>1 DEF Clean, HasSeverity, check_required_fields, ValidationIssue
<1>3. check_dates(f) = {}
  BY <1>1 DEF Clean, HasSeverity, check_dates, ValidationIssue
<1>4. t = "invoice" => Clean(check_invoice(f, r))
  BY DEF Clean, HasSeverity, ValidationIssues
<1>5. t = "contract" => Clean(check_contract(f))
  BY DEF Clean, HasSeverity, ValidationIssues
<1>6. t = "id_document" => Clean(check_id_document(f, r))
  BY DEF Clean, HasSeverity, ValidationIssues
<1>7. QED
  BY <1>2, <1>3, <1>4, <1>5, <1>6

(* A clean set holds no issue. *)
LEMMA CleanHoldsNone ==
    ASSUME NEW issues, Clean(issues), NEW field, NEW problem,
           NEW severity \in {"error", "warning"}
    PROVE  ValidationIssue(field, problem, severity) \notin issues
BY DEF Clean, HasSeverity, ValidationIssue

(* Required fields and dates of a clean field set. *)
LEMMA CleanFields ==
    ASSUME NEW t, NEW f, NEW r, Clean(ValidationIssues(t, f, r))
    PROVE  /\ \A n \in required_fields(r, t) : ~is_empty(f, n)
           /\ \A n \in DateFields : f[n] \in Int \cup {None, Empty}
<1>1. \A n \in required_fields(r, t) : ~is_empty(f, n)
  BY CleanIsEmpty DEF check_required_fields
<1>2. \A n \in DateFields : ~(Truthy(f[n]) /\ parse_iso(f[n]) = None)
  BY CleanIsEmpty DEF check_dates
<1>3. QED
  BY <1>1, <1>2 DEF Truthy, parse_iso

(* A clean contract is sound. *)
LEMMA CleanContractIsSound ==
    ASSUME NEW f \in KnownFields, Clean(check_contract(f))
    PROVE  SoundContract(f)
<1>1. f.effective_date \in Int /\ f.expiration_date \in Int
        => f.effective_date < f.expiration_date
  <2> SUFFICES ASSUME f.effective_date \in Int, f.expiration_date \in Int,
                      ~(f.effective_date < f.expiration_date)
               PROVE  FALSE
    OBVIOUS
  <2>1. /\ parse_iso(f.effective_date) # None
        /\ parse_iso(f.expiration_date) # None
        /\ f.expiration_date <= f.effective_date
    BY NoneAssumption DEF parse_iso
  <2>2. ValidationIssue("expiration_date", "not_after_effective", "error")
          \in check_contract(f)
    BY <2>1 DEF check_contract, RaiseIf
  <2>3. QED
    BY <2>2, CleanHoldsNone
<1>2. Len(effective_parties(f)) >= 2
  <2>1. Len(effective_parties(f)) < 2
          => ValidationIssue("party_names", "fewer_than_two", "error")
                \in check_contract(f)
    BY DEF check_contract, RaiseIf
  <2>2. QED
    BY <2>1, CleanHoldsNone, KnownTypes
<1>3. f.signatures_present # FALSE
  <2>1. f.signatures_present = FALSE
          => ValidationIssue("signatures_present", "no_signatures", "warning")
                \in check_contract(f)
    BY DEF check_contract, RaiseIf
  <2>2. QED
    BY <2>1, CleanHoldsNone
<1>4. QED
  BY <1>1, <1>2, <1>3 DEF SoundContract

(* A clean identity document is sound. *)
LEMMA CleanIdDocumentIsSound ==
    ASSUME NEW f, Clean(check_id_document(f, get_rules))
    PROVE  SoundIdDocument(f)
<1>1. f.expiry_date \in Int => Today <= f.expiry_date
  <2> SUFFICES ASSUME f.expiry_date \in Int, f.expiry_date < Today
               PROVE  FALSE
    BY TodayAssumption
  <2>1. Precedes(f.expiry_date, Today)
    BY NoneAssumption, TodayAssumption DEF Precedes, parse_iso
  <2>2. ValidationIssue("expiry_date", "expired", "error")
          \in check_id_document(f, get_rules)
    BY <2>1 DEF check_id_document, RaiseIf
  <2>3. QED
    BY <2>2, CleanHoldsNone
<1>2. ~(/\ Truthy(f.id_type)
        /\ Truthy(f.id_number)
        /\ f.id_type \in DOMAIN get_rules.id_number_formats
        /\ f.id_number \notin get_rules.id_number_formats[f.id_type])
  <2> SUFFICES ASSUME Truthy(f.id_type), Truthy(f.id_number),
                      f.id_type \in DOMAIN get_rules.id_number_formats,
                      f.id_number
                        \notin get_rules.id_number_formats[f.id_type]
               PROVE  FALSE
    OBVIOUS
  <2>1. ValidationIssue("id_number", "unknown_format", "warning")
          \in check_id_document(f, get_rules)
    BY DEF check_id_document, RaiseIf
  <2>2. QED
    BY <2>1, CleanHoldsNone
<1>3. QED
  BY <1>1, <1>2 DEF SoundIdDocument, Truthy

(* A clean invoice that is not above the cap is sound. *)
LEMMA CleanInvoiceIsSound ==
    ASSUME NEW f \in KnownFields, Clean(check_invoice(f, get_rules)),
           ~AboveCap("invoice", f, get_rules)
    PROVE  SoundInvoice(f)
<1>1. ~DoesNotReconcile(f, get_rules)
  <2>1. DoesNotReconcile(f, get_rules)
          => ValidationIssue("grand_total", "does_not_reconcile", "error")
                \in check_invoice(f, get_rules)
    BY DEF check_invoice, RaiseIf
  <2>2. QED
    BY <2>1, CleanHoldsNone
<1>2. ~Precedes(f.due_date, f.invoice_date)
  <2>1. Precedes(f.due_date, f.invoice_date)
          => ValidationIssue("due_date", "precedes_invoice_date", "error")
                \in check_invoice(f, get_rules)
    BY DEF check_invoice, RaiseIf
  <2>2. QED
    BY <2>1, CleanHoldsNone
<1>3. ~MalformedTaxId(f, get_rules)
  <2>1. MalformedTaxId(f, get_rules)
          => ValidationIssue("vendor_tax_id", "unknown_format", "warning")
                \in check_invoice(f, get_rules)
    BY DEF check_invoice, RaiseIf
  <2>2. QED
    BY <2>1, CleanHoldsNone
<1>4. ~Truthy(f.vendor_name) \/ is_vendor_whitelisted(get_rules, f.vendor_name)
  <2>1. Truthy(f.vendor_name)
          /\ ~is_vendor_whitelisted(get_rules, f.vendor_name)
          => ValidationIssue("vendor_name", "not_whitelisted", "warning")
                \in check_invoice(f, get_rules)
    BY DEF check_invoice, RaiseIf
  <2>2. QED
    BY <2>1, CleanHoldsNone
<1>5. f.invoice_date \in Int /\ f.due_date \in Int
        => f.invoice_date <= f.due_date
  BY <1>2, NoneAssumption DEF Precedes, parse_iso
<1>6. candidates(f) # {} /\ effective_total(f) # None
        => \E c \in candidates(f) :
              Within(effective_total(f), c, total_tolerance(get_rules))
  BY <1>1 DEF DoesNotReconcile, Within
<1>7. \/ f.total_amount = None
      \/ get_rules.invoice_auto_approve_max_amount = None
      \/ f.total_amount <= get_rules.invoice_auto_approve_max_amount
  BY KnownTypes, CapAssumption DEF AboveCap
<1>8. QED
  BY <1>3, <1>4, <1>5, <1>6, <1>7 DEF SoundInvoice, MalformedTaxId, Truthy

(* The invariants at a decision are what the rules demand of an approval. *)
LEMMA ApprovalFollows == TypeOK /\ DataInv => ApprovalIsSound
<1> SUFFICES ASSUME TypeOK, DataInv, route = "auto_approve"
             PROVE  /\ error = "none"
                    /\ document_type # "unknown"
                    /\ SoundFields(document_type, fields)
                    /\ EnableGuardrails => check_grounding(fields, doc) = {}
                    /\ ~LowConfidence(classification_confidence)
  BY DEF ApprovalIsSound
<1>1. /\ Decision.route = "auto_approve"
      /\ validation_issues =
            ValidationIssues(document_type, fields, get_rules)
      /\ EnableGuardrails => Grounded
  BY DEF DataInv, Decided
<1>2. /\ error = "none"
      /\ document_type # "unknown"
      /\ Clean(ValidationIssues(document_type, fields, get_rules))
      /\ ~AboveCap(document_type, fields, get_rules)
      /\ ReviewFindings(security_findings) = {}
      /\ ~LowConfidence(classification_confidence)
  BY <1>1, ApprovalMeans DEF Decision, Clean
<1>3. SoundFields(document_type, fields)
  <2>1. fields \in KnownFields
    BY DEF TypeOK
  <2>2. /\ \A n \in required_fields(get_rules, document_type) :
              ~is_empty(fields, n)
        /\ \A n \in DateFields : fields[n] \in Int \cup {None, Empty}
    BY <1>2, CleanFields
  <2>3. document_type = "invoice" => SoundInvoice(fields)
    BY <1>2, <2>1, CleanIsEmpty, CleanInvoiceIsSound
  <2>4. document_type = "contract" => SoundContract(fields)
    BY <1>2, <2>1, CleanIsEmpty, CleanContractIsSound
  <2>5. document_type = "id_document" => SoundIdDocument(fields)
    BY <1>2, CleanIsEmpty, CleanIdDocumentIsSound
  <2>6. QED
    BY <2>2, <2>3, <2>4, <2>5 DEF SoundFields
<1>4. EnableGuardrails => check_grounding(fields, doc) = {}
  BY <1>1, <1>2
  DEF Grounded, ReviewFindings, check_grounding, SecurityFinding
<1>5. QED
  BY <1>2, <1>3, <1>4

(* An approved document satisfies every rule of its type, and every        *)
(* grounded value of it occurs in its text, whatever the retries before    *)
(* (validator_node, check_grounding, route_decision).                      *)
THEOREM ApprovalIsSoundHolds == Spec => []ApprovalIsSound
BY ApprovalFollows, TypeCorrect, DataInvariant, PTL

-----------------------------------------------------------------------------
(* Weak extractions.  The property speaks of the run's attempts, so that   *)
(* three nodes carry it: the extractor counts them, the validator sends a  *)
(* run back only while none was sufficient, and the router approves only   *)
(* what no failure has marked, so that the counter has seen every attempt. *)
ResortInv ==
    /\ error = "none" /\ (node # "stopped" \/ route # "none")
          => extract_calls = retries
    /\ sufficient => ~LowConfidence(extraction_confidence)
    /\ node \in {"guardrails", "classifier", "extractor"} => ~sufficient
    /\ node \in {"validator", "router", "END"} \/ route # "none"
          => extract_calls >= 1
    /\ retries >= 1 => extraction_confidence # None
    /\ WeakApprovalIsLastResort

(* Before the first extraction there is nothing to resort to. *)
LEMMA ResortInit == Init => ResortInv
BY DEF Init, ResortInv, WeakApprovalIsLastResort

(* Every step preserves ResortInv. *)
LEMMA ResortStep ==
    TypeOK /\ LoopInv /\ DataInv /\ ResortInv /\ [Next]_vars => ResortInv'
<1> SUFFICES ASSUME TypeOK, LoopInv, DataInv, ResortInv, [Next]_vars
             PROVE  ResortInv'
  OBVIOUS
<1>0. /\ retries \in Nat /\ extract_calls \in Nat
      /\ node \in Nodes /\ sufficient \in BOOLEAN
      /\ node \notin {"END", "stopped"} => route = "none"
  BY DEF TypeOK, DataInv, Decided
<1> USE <1>0 DEF ResortInv, WeakApprovalIsLastResort, history
<1>1. CASE guardrail_node
  BY <1>1 DEF guardrail_node, Run
<1>2. CASE classifier_node
  BY <1>2 DEF classifier_node, Run
<1>3. CASE classifier_node_fails
  BY <1>3 DEF classifier_node_fails, Run
<1>4. CASE extractor_node
  <2>1. /\ node = "extractor" /\ node' = "validator" /\ ~sufficient
        /\ error' = error /\ route' = route
        /\ retries' = retries + 1 /\ extract_calls' = extract_calls + 1
    BY <1>4 DEF extractor_node, Extracts, Run
  <2>2. sufficient' => ~LowConfidence(extraction_confidence')
    BY <1>4, <2>1 DEF extractor_node, Extracts
  <2>3. extraction_confidence' # None
    BY <1>4, NoneAssumption, ConfidencesAssumption, NaNAssumption
    DEF extractor_node, Extracts
  <2>4. QED
    BY <2>1, <2>2, <2>3
<1>5. CASE extractor_node_fails
  BY <1>5 DEF extractor_node_fails, Run
<1>6. CASE validator_node
  <2>1. node' = "extractor" => LowConfidence(extraction_confidence)
    BY <1>6 DEF validator_node, needs_retry
  <2>2. QED
    BY <1>6, <2>1, RetryTargets DEF validator_node, Run
<1>7. CASE router_node
  <2>1. ASSUME route' = "auto_approve", LowConfidence(extraction_confidence)
        PROVE  extract_calls = AttemptBudget /\ ~sufficient
    <3>1. error = "none"
      BY <1>7, <2>1, ApprovalMeans DEF router_node, Decision
    <3>2. /\ extract_calls = retries /\ extract_calls >= 1
          /\ retries >= MaxRetries /\ retries <= AttemptBudget
      BY <1>7, <2>1, <3>1 DEF router_node, Run, LoopInv, WeakSpendsBudget
    <3>3. QED
      BY <2>1, <3>2, MaxRetriesAssumption DEF AttemptBudget
  <2>2. QED
    BY <1>7, <2>1 DEF router_node, Run
<1>8. CASE state_to_result
  BY <1>8 DEF state_to_result, agent_state
<1>9. CASE llm_node_raises
  BY <1>9 DEF llm_node_raises, Raised, agent_state
<1>10. CASE recursion_error
  BY <1>10 DEF recursion_error, Raised, agent_state
<1>11. CASE UNCHANGED vars
  BY <1>11 DEF vars, agent_state
<1>12. QED
  BY <1>1, <1>2, <1>3, <1>4, <1>5, <1>6, <1>7, <1>8, <1>9, <1>10, <1>11
  DEF Next, Step, Stopped

(* A weak extraction is approved only when every attempt of the budget was *)
(* made, every one answered, and none was sufficient (extractor_node,      *)
(* needs_retry, route_decision).                                           *)
THEOREM WeakApprovalIsLastResortHolds == Spec => []WeakApprovalIsLastResort
<1>1. ResortInv => WeakApprovalIsLastResort
  BY DEF ResortInv
<1>2. QED
  BY <1>1, TypeCorrect, LoopInit, LoopStep, DataInvariant, ResortInit,
     ResortStep, PTL DEF Spec

-----------------------------------------------------------------------------
(* The outcome.  The result is made in the last step of a run, so that the *)
(* router's decision has to be carried to it: an error means a rejection.  *)
OutcomeInv ==
    /\ ResultReflectsRun
    /\ node = "END" => route \in Routes /\ (error # "none" => route = "reject")

(* Before a run has an outcome there is nothing to reflect. *)
LEMMA OutcomeInit == Init => OutcomeInv
BY DEF Init, OutcomeInv, ResultReflectsRun, NoResult

(* Every step preserves OutcomeInv. *)
LEMMA OutcomeStep ==
    TypeOK /\ LoopInv /\ DataInv /\ OutcomeInv /\ [Next]_vars => OutcomeInv'
<1> SUFFICES ASSUME TypeOK, LoopInv, DataInv, OutcomeInv, [Next]_vars
             PROVE  OutcomeInv'
  OBVIOUS
<1>1. ASSUME NEW n, Run(n), node # "stopped",
             node' \in Nodes \ {"END", "stopped"}
      PROVE  OutcomeInv'
  BY <1>1 DEF Run, OutcomeInv, ResultReflectsRun, LoopInv, NoResult
<1>2. CASE guardrail_node
  BY <1>1, <1>2 DEF guardrail_node, Run, Nodes
<1>3. CASE classifier_node
  BY <1>1, <1>3 DEF classifier_node, Run, Nodes
<1>4. CASE classifier_node_fails
  BY <1>1, <1>4 DEF classifier_node_fails, Run, Nodes
<1>5. CASE extractor_node
  BY <1>1, <1>5 DEF extractor_node, Extracts, Run, Nodes
<1>6. CASE extractor_node_fails
  BY <1>1, <1>6 DEF extractor_node_fails, Run, Nodes
<1>7. CASE validator_node
  BY <1>1, <1>7, RetryTargets DEF validator_node, Run, Nodes
<1>8. CASE router_node
  <2>1. route' \in Routes /\ (error' # "none" => route' = "reject")
    BY <1>8, RouteDecides, ErrorMeansReject DEF router_node, Decision
  <2>2. QED
    BY <1>8, <2>1
    DEF router_node, Run, OutcomeInv, ResultReflectsRun, LoopInv, NoResult
<1>9. CASE state_to_result
  BY <1>9 DEF state_to_result, agent_state, OutcomeInv, ResultReflectsRun
<1>10. CASE llm_node_raises
  BY <1>10 DEF llm_node_raises, Raised, OutcomeInv, ResultReflectsRun
<1>11. CASE recursion_error
  BY <1>11 DEF recursion_error, Raised, OutcomeInv, ResultReflectsRun
<1>12. CASE UNCHANGED vars
  BY <1>12 DEF vars, agent_state, OutcomeInv, ResultReflectsRun
<1>13. QED
  BY <1>2, <1>3, <1>4, <1>5, <1>6, <1>7, <1>8, <1>9, <1>10, <1>11, <1>12
  DEF Next, Step, Stopped

(* The result handed to the worker reflects the run: completed with a      *)
(* decision, or failed and never approved (state_to_result and Raised).    *)
THEOREM ResultReflectsRunHolds == Spec => []ResultReflectsRun
<1>1. OutcomeInv => ResultReflectsRun
  BY DEF OutcomeInv
<1>2. QED
  BY <1>1, TypeCorrect, LoopInit, LoopStep, DataInvariant, OutcomeInit,
     OutcomeStep, PTL DEF Spec

-----------------------------------------------------------------------------
(* The entry scan and the validator write the findings, and only add some. *)
LEMMA StepKeepsFindings ==
    DataInv /\ [Next]_vars => security_findings \subseteq security_findings'
<1> SUFFICES ASSUME DataInv, [Next]_vars
             PROVE  security_findings \subseteq security_findings'
  OBVIOUS
<1>1. CASE guardrail_node
  BY <1>1 DEF guardrail_node, Run, DataInv
<1>2. CASE validator_node
  BY <1>2 DEF validator_node
<1>3. CASE extractor_node
  BY <1>3 DEF extractor_node, Extracts
<1>4. CASE \/ classifier_node \/ classifier_node_fails
           \/ extractor_node_fails \/ router_node
  BY <1>4 DEF classifier_node, classifier_node_fails, extractor_node_fails,
              router_node
<1>5. CASE state_to_result \/ llm_node_raises \/ recursion_error
  BY <1>5 DEF state_to_result, llm_node_raises, recursion_error, Raised,
              agent_state
<1>6. CASE UNCHANGED vars
  BY <1>6 DEF vars, agent_state
<1>7. QED
  BY <1>1, <1>2, <1>3, <1>4, <1>5, <1>6 DEF Next, Step, Stopped

(* No step drops a security finding: the entry scan starts from none, the  *)
(* validator adds, no other node writes (guardrail_node, validator_node).  *)
THEOREM FindingsNeverLostHolds == Spec => FindingsNeverLost
BY StepKeepsFindings, DataInvariant, PTL DEF Spec, FindingsNeverLost

(* The two failing nodes set an error, no other node writes it. *)
LEMMA StepKeepsError == [Next]_vars => (error # "none" => error' # "none")
<1> SUFFICES ASSUME [Next]_vars, error # "none" PROVE error' # "none"
  OBVIOUS
<1>1. CASE classifier_node_fails \/ extractor_node_fails
  BY <1>1 DEF classifier_node_fails, extractor_node_fails
<1>2. CASE guardrail_node \/ classifier_node \/ validator_node \/ router_node
  BY <1>2 DEF guardrail_node, classifier_node, validator_node, router_node
<1>3. CASE extractor_node
  BY <1>3 DEF extractor_node
<1>4. CASE state_to_result \/ llm_node_raises \/ recursion_error
  BY <1>4 DEF state_to_result, llm_node_raises, recursion_error, Raised,
              agent_state
<1>5. CASE UNCHANGED vars
  BY <1>5 DEF vars, agent_state
<1>6. QED
  BY <1>1, <1>2, <1>3, <1>4, <1>5 DEF Next, Step, Stopped

(* No step clears the error of an agent: the two failing nodes set it, no  *)
(* other node writes it (extractor_node after extractor_node_fails).       *)
THEOREM ErrorSticksHolds == Spec => ErrorSticks
BY StepKeepsError, PTL DEF Spec, ErrorSticks

-----------------------------------------------------------------------------
(* None of this rests on the fairness of Spec: whatever takes steps of the *)
(* graph only, however it schedules them, keeps these invariants.          *)
RunInv == TypeOK /\ LoopInv /\ DataInv /\ ResortInv /\ OutcomeInv

(* The invariants together are inductive. *)
LEMMA RunInductive == /\ Init => RunInv
                      /\ RunInv /\ [Next]_vars => RunInv'
BY TypeInit, LoopInit, DataInit, ResortInit, OutcomeInit, TypeStep, LoopStep,
   DataStep, ResortStep, OutcomeStep
DEF RunInv

(* And they imply every property of a state of the run. *)
LEMMA RunMeans ==
    RunInv => /\ RetryBudget /\ WeakApprovalIsLastResort
              /\ OnlyFailuresExhaustSteps /\ InjectionAlwaysRejected
              /\ IssuesMatchFields /\ PiiNeverRoutes /\ ApprovalIsSound
              /\ ResultReflectsRun
BY InjectionRejects, IssuesAreOfFields, PiiIsIgnored, ApprovalFollows
DEF RunInv, LoopInv, ResortInv, OutcomeInv, RetryBudget

=============================================================================
