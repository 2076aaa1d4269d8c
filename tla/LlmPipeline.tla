----------------------------- MODULE LlmPipeline -----------------------------
(***************************************************************************)
(* Pipeline with the language model opened up: the classifier and the      *)
(* extractor call a client of Llm, and a GeminiClient asks the models of   *)
(* its chain one after the other.  What Pipeline leaves to chance (the     *)
(* payload, the confidence, an LLMError, another exception) is computed    *)
(* here from what the files and the service do; that nothing else comes    *)
(* out of a client is the refinement ImplementsPipeline.                   *)
(***************************************************************************)
EXTENDS Pipeline, Llm, FiniteSets

CONSTANTS
    SettingsSet,       \* the settings a process may be started with
    ErrorCodes,        \* the errors of a request, such as "429"
    ClassifyTexts,     \* the texts a model may answer to classify
    ExtractTexts       \* ... and to extract, by document type

ASSUME SettingsAssumption ==
    \A s \in SettingsSet :
        s.fallbacks \in Seq({s.fallbacks[i] : i \in DOMAIN s.fallbacks})

VARIABLES
    settings,  \* the cached settings of the process
    call,      \* the open call of the Gemini client
    calls,     \* history: requests sent to the service in this run
    heard,     \* history: the object in the last text, per method
    failure    \* history: the answers to the last call that failed

llm_vars == <<settings, call, calls, heard, failure>>
all_vars == <<vars, llm_vars>>

Idle == [open |-> FALSE, answers |-> <<>>]
Nothing == [classify |-> EmptyPayload, extract |-> EmptyPayload]

LlmInit ==
    /\ Init
    /\ settings \in SettingsSet
    /\ call = Idle
    /\ calls = 0
    /\ heard = Nothing
    /\ failure = <<>>

chain == gemini_model_chain(settings)

(* The graph has reached an LLM node, and a step is left for it. *)
In(n) == node = n /\ steps < RecursionLimit

-----------------------------------------------------------------------------
(* What the two nodes do with the outcome of the call. *)

(* classifier_node with the ClassificationResult c. *)
classified(c) ==
    /\ Run("classifier")
    /\ document_type' = c.document_type
    /\ classification_confidence' = c.confidence
    /\ node' = "extractor"
    /\ UNCHANGED <<fields, extraction_confidence, security_findings,
                   validation_issues, retries, route, route_reason, error,
                   history>>

(* Mutant of extracted: the attempt is not counted. *)
extracted_uncounted(f, c) ==
    /\ Run("extractor")
    /\ fields' = f
    /\ extraction_confidence' = c
    /\ sufficient' = (sufficient \/ ~LowConfidence(c))
    /\ extract_calls' = extract_calls + 1
    /\ node' = "validator"
    /\ UNCHANGED <<document_type, classification_confidence, retries,
                   security_findings, validation_issues, route, route_reason,
                   error>>

(* extractor_node with the fields f and the confidence c. *)
extracted(f, c) ==
    /\ Run("extractor")
    /\ fields' = f
    /\ extraction_confidence' = c
    /\ sufficient' = (sufficient \/ ~LowConfidence(c))
    /\ retries' = retries + 1
    /\ extract_calls' = extract_calls + 1
    /\ node' = "validator"
    /\ UNCHANGED <<document_type, classification_confidence,
                   security_findings, validation_issues, route, route_reason,
                   error>>

(* Either node catches the LLMError and reports it in the state. *)
llm_error(answers) ==
    /\ classifier_node_fails \/ extractor_node_fails
    /\ failure' = answers
    /\ call' = Idle
    /\ UNCHANGED <<settings, heard>>

-----------------------------------------------------------------------------
(* get_llm_client, called by both nodes before their try. *)

(* The mock client answers from the document and calls nobody. *)
mock_client ==
    /\ use_mock_llm(settings)
    /\ \/ In("classifier") /\ classified(mock_classify(doc))
       \/ /\ In("extractor")
          /\ extracted(mock_fields(doc, document_type),
                       mock_confidence(doc, document_type))
    /\ UNCHANGED llm_vars

(* GeminiClient.__init__ without the SDK: an LLMError nobody catches. *)
client_missing ==
    /\ ~use_mock_llm(settings)
    /\ ~settings.genai_installed
    /\ llm_node_raises
    /\ UNCHANGED llm_vars

(* The Gemini client is built and a node enters _generate_json. *)
Calling ==
    /\ ~use_mock_llm(settings)
    /\ settings.genai_installed
    /\ In("classifier") \/ In("extractor")
    /\ ~call.open

(* _read_part reads the file, ... *)
read_part ==
    /\ Calling
    /\ call' = [open |-> TRUE, answers |-> <<>>]
    /\ UNCHANGED <<vars, settings, calls, heard, failure>>

(* ... or fails to: an LLMError before any model was asked. *)
read_part_fails ==
    /\ Calling
    /\ llm_error(<<"unreadable">>)
    /\ UNCHANGED calls

-----------------------------------------------------------------------------
(* _generate_json: the models of the chain, in order. *)

(* Mutant of Asking: one request too many. *)
AskingPastTheEnd ==
    /\ call.open
    /\ Len(call.answers) <= Len(chain)
    /\ calls' = calls + 1

(* The next model of the chain is asked. *)
Asking ==
    /\ call.open
    /\ Len(call.answers) < Len(chain)
    /\ calls' = calls + 1

(* It is rate limited or overloaded: go on with the one after it. *)
fail_over ==
    /\ Asking
    /\ \E code \in ErrorCodes \cap FAILOVER_CODES :
          call' = [call EXCEPT !.answers = Append(@, code)]
    /\ UNCHANGED <<vars, settings, heard, failure>>

(* Any other error of the service or of the network ends the call. *)
abort ==
    /\ Asking
    /\ \E code \in ErrorCodes \ FAILOVER_CODES :
          llm_error(Append(call.answers, code))

(* The chain is used up: the last refusal becomes an LLMError. *)
exhausted ==
    /\ call.open
    /\ Len(call.answers) = Len(chain)
    /\ llm_error(call.answers)
    /\ UNCHANGED calls

(* A text: classify turns it into a ClassificationResult, or raises. *)
classify ==
    /\ In("classifier")
    /\ Asking
    /\ \E text \in ClassifyTexts :
          LET payload == safe_json_loads(text)
          IN /\ heard' = [heard EXCEPT !.classify = payload]
             /\ IF ConfidenceRaises(payload) THEN llm_node_raises
                ELSE classified(classification_from_payload(payload))
    /\ call' = Idle
    /\ UNCHANGED <<settings, failure>>

(* Mutant of extract: a malformed field raises. *)
extract_strict ==
    /\ In("extractor")
    /\ Asking
    /\ \E text \in ExtractTexts[document_type] :
          LET payload == safe_json_loads(text)
          IN /\ heard' = [heard EXCEPT !.extract = payload]
             /\ IF ConfidenceRaises(payload) \/ bad_keys(payload) # {}
                THEN llm_node_raises
                ELSE extracted(fields_from_payload(payload),
                               extraction_confidence_of(payload))
    /\ call' = Idle
    /\ UNCHANGED <<settings, failure>>

(* A text: extract turns it into fields and a confidence, or raises. *)
extract ==
    /\ In("extractor")
    /\ Asking
    /\ \E text \in ExtractTexts[document_type] :
          LET payload == safe_json_loads(text)
          IN /\ heard' = [heard EXCEPT !.extract = payload]
             /\ IF ConfidenceRaises(payload) THEN llm_node_raises
                ELSE extracted(fields_from_payload(payload),
                               extraction_confidence_of(payload))
    /\ call' = Idle
    /\ UNCHANGED <<settings, failure>>

LlmStep ==
    \/ mock_client \/ client_missing
    \/ read_part \/ read_part_fails
    \/ fail_over \/ abort \/ exhausted
    \/ classify \/ extract
    \/ /\ \/ guardrail_node \/ validator_node \/ router_node
          \/ state_to_result \/ recursion_error
       /\ UNCHANGED llm_vars

LlmNext == LlmStep \/ (Stopped /\ UNCHANGED llm_vars)

(* A request to the service is assumed to return or to raise in the end.   *)
LlmSpec == LlmInit /\ [][LlmNext]_all_vars /\ WF_all_vars(LlmStep)

-----------------------------------------------------------------------------
(* The models the settings name, each once; only a fallback may be blank.  *)
ModelNames ==
    {settings.gemini_model}
       \cup ({settings.fallbacks[i] : i \in DOMAIN settings.fallbacks}
                \ {Empty})

Texts == {safe_json_loads(t) : t \in ClassifyTexts \cup
                UNION {ExtractTexts[t] : t \in DocumentTypes}}

(* The variables keep their types; a call is open in an LLM node only. *)
LlmTypeOK ==
    /\ settings \in SettingsSet
    /\ call \in [open : BOOLEAN,
                 answers : UNION {[1..n -> ErrorCodes] : n \in 0..Len(chain)}]
    /\ calls \in Nat
    /\ heard \in [classify : Texts \cup {EmptyPayload},
                  extract : Texts \cup {EmptyPayload}]
    /\ call.open => In("classifier") \/ In("extractor")

(* A run fails for an LLMError only when the chain was followed to its     *)
(* end: the file could not be read, an error other than 429 and 503 came,  *)
(* which is not failed over, or every model the settings name was rate     *)
(* limited or overloaded.                                                  *)
FailureIsDeserved ==
    error # "none" /\ failure # <<"unreadable">> =>
        LET Refused(i) == failure[i] \in {"429", "503"}
            last == Len(failure)
        IN /\ last >= 1
           /\ \A i \in 1..(last - 1) : Refused(i)
           /\ Refused(last) => last = Cardinality(ModelNames)

(* What an object gives for a field, None (or <<>>) if nothing valid. *)
Given(payload, n) ==
    IF n \in DOMAIN payload /\ payload[n] \notin {Malformed, None}
    THEN payload[n] ELSE EmptyFields[n]

Alias(n) ==
    CASE n = "total_amount" -> "grand_total"
      [] n = "grand_total"  -> "total_amount"
      [] n = "parties"      -> "party_names"
      [] n = "party_names"  -> "parties"
      [] OTHER              -> n

(* Whatever else is wrong with an answer, each field it gives validly is   *)
(* kept as it is, each other one is that of its alias or the default, and  *)
(* nothing of an earlier answer remains: one malformed field costs no      *)
(* sibling (_fields_from_payload, _NullTolerantModel, _sync_aliases).      *)
SalvageKeepsGoodFields ==
    ~use_mock_llm(settings) /\ result.error # "exception" =>
        \A n \in DOMAIN EmptyFields :
            fields[n] = IF Given(heard.extract, n) # EmptyFields[n]
                        THEN Given(heard.extract, n)
                        ELSE Given(heard.extract, Alias(n))

(* The model vouched for its answer: it gave a confidence, not zero, that  *)
(* no comparison finds below the threshold.                                *)
Vouched(payload) ==
    /\ "confidence" \in DOMAIN payload
    /\ payload["confidence"] \notin {None, 0}
    /\ \/ payload["confidence"] = NaN
       \/ payload["confidence"] >= MinConfidence

Silent(payload) ==
    "confidence" \in DOMAIN payload => payload["confidence"] \in {None, 0}

(* What an approval rests on, among the last answers to be understood.     *)
(* The model named the type, and vouched for it unless the threshold is    *)
(* zero; it gave every required field, or its alias, validly.  For these   *)
(* fields it vouched too, or its silence did where the default of 0.7 is   *)
(* enough, or they are what the last attempt of the budget brought.        *)
ApprovalRestsOnAnswers ==
    route = "auto_approve" /\ ~use_mock_llm(settings) =>
        /\ "document_type" \in DOMAIN heard.classify
        /\ heard.classify["document_type"] = document_type
        /\ MinConfidence > 0 => Vouched(heard.classify)
        /\ \A n \in required_fields(get_rules, document_type) :
              \E m \in {n, Alias(n)} :
                  Given(heard.extract, m) # EmptyFields[m]
        /\ \/ Vouched(heard.extract)
           \/ Silent(heard.extract) /\ MinConfidence <= 70
           \/ extract_calls = AttemptBudget

(* No value of an answer ends a run by an exception, whatever field it is  *)
(* malformed in, except for a confidence that float() refuses; the other   *)
(* cause is the missing SDK.                                               *)
OnlyConfidenceRaises ==
    result.error = "exception" =>
        \/ ~settings.genai_installed
        \/ ConfidenceRaises(heard.classify)
        \/ ConfidenceRaises(heard.extract)

(* What a document may cost: as long as no call fails, each attempt of the *)
(* retry loop and the classification ask each model at most once.          *)
ServiceCallBudget ==
    /\ use_mock_llm(settings) => calls = 0
    /\ error = "none" =>
          calls <= Cardinality(ModelNames) * (1 + AttemptBudget)

(* Pipeline's assumptions about the model cover what the client does. *)
ImplementsPipeline == Init /\ [][Next]_vars

(* Pipeline's constants cover what the two clients can produce: this is    *)
(* what an instance of Pipeline has to provide to stand for them.          *)
ClientsCovered ==
    /\ \A text \in ClassifyTexts :
          ConfidenceOf(safe_json_loads(text), 0) \in Confidences
             \/ ConfidenceRaises(safe_json_loads(text))
    /\ \A t \in DocumentTypes : \A text \in ExtractTexts[t] :
          LET payload == safe_json_loads(text)
          IN \/ ConfidenceRaises(payload)
             \/ /\ extraction_confidence_of(payload) \in Confidences
                /\ \E p \in Payloads[t] :
                      fields_from_payload(payload) = sync_aliases(p)
    /\ \A d \in Documents :
          /\ mock_classify(d).document_type \in DocumentTypes
          /\ mock_classify(d).confidence \in Confidences
          /\ \A t \in DocumentTypes :
                /\ mock_confidence(d, t) \in Confidences
                /\ \E p \in Payloads[t] : mock_fields(d, t) = sync_aliases(p)

=============================================================================
