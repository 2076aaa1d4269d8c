------------------------------ MODULE LlmProofs -----------------------------
(***************************************************************************)
(* The pipeline with its client opened up, for every set of settings, of   *)
(* error codes and of texts a model may answer: nothing but Pipeline's     *)
(* outcomes comes out of a client, a malformed field costs no sibling, and *)
(* nothing but a confidence that is no number (or a missing SDK) ends a    *)
(* run by an exception; a failure is deserved, the requests are within a   *)
(* budget, and what an approval rests on is what the answers said.         *)
(***************************************************************************)
EXTENDS LlmPipeline, PipelineProofs, Counting, TLAPS

-----------------------------------------------------------------------------
(* From an object to fields. *)

(* A field that an object gives validly, or its default. *)
Plain(payload) == [n \in DOMAIN EmptyFields |-> Given(payload, n)]

(* Whatever an object holds, its fields are the valid ones, aliases synced: *)
(* the second validation, without the bad keys, always succeeds.            *)
LEMMA FieldsAreSalvaged ==
    ASSUME NEW payload
    PROVE  fields_from_payload(payload) = sync_aliases(Plain(payload))
<1> DEFINE given == Without(payload, {"confidence"})
           salvaged == Without(given, bad_keys(given))
           c(x) == drop_nulls_for_nonoptional(x)
           validated(x) == [n \in DOMAIN EmptyFields |->
                              IF n \in DOMAIN c(x) THEN c(x)[n]
                              ELSE EmptyFields[n]]
<1>1. /\ DOMAIN given = DOMAIN payload \ {"confidence"}
      /\ \A k \in DOMAIN given : given[k] = payload[k]
  BY DEF Without
<1>2. "confidence" \notin DOMAIN EmptyFields
  BY DEF EmptyFields
<1>3. \A n \in ListFields : EmptyFields[n] = <<>>
  BY DEF ListFields, EmptyFields
<1>4. \A n \in DOMAIN EmptyFields \ ListFields : EmptyFields[n] = None
  BY DEF ListFields, EmptyFields
<1>5. ASSUME NEW x, DOMAIN x \subseteq DOMAIN payload,
             \A k \in DOMAIN x : x[k] = payload[k],
             \A n \in DOMAIN EmptyFields \cap DOMAIN payload :
                n \notin DOMAIN x => payload[n] = Malformed,
             bad_keys(x) = {}
      PROVE  model_validate(x) = sync_aliases(Plain(payload))
  <2>1. /\ DOMAIN c(x) = DOMAIN x \ {k \in ListFields \cap DOMAIN x :
                                        x[k] = None}
        /\ \A k \in DOMAIN c(x) : c(x)[k] = x[k]
    BY DEF drop_nulls_for_nonoptional, Without
  <2>2. \A k \in DOMAIN c(x) \cap DOMAIN EmptyFields : x[k] # Malformed
    BY <1>5 DEF bad_keys
  <2>3. ASSUME NEW n \in DOMAIN EmptyFields
        PROVE  validated(x)[n] = Given(payload, n)
    <3>1. CASE n \in DOMAIN c(x)
      <4>1. c(x)[n] = payload[n] /\ n \in DOMAIN payload
            /\ payload[n] # Malformed /\ n \in DOMAIN x
        BY <1>5, <2>1, <2>2, <3>1
      <4>2. payload[n] = None => EmptyFields[n] = None
        BY <1>4, <1>5, <2>1, <3>1, <4>1
      <4>3. QED
        BY <3>1, <4>1, <4>2 DEF Given
    <3>2. CASE n \notin DOMAIN c(x)
      <4>1. n \in DOMAIN payload => payload[n] \in {Malformed, None}
        BY <1>5, <2>1, <3>2
      <4>2. QED
        BY <3>2, <4>1 DEF Given
    <3>3. QED
      BY <3>1, <3>2
  <2>4. validated(x) = Plain(payload)
    BY <2>3 DEF Plain
  <2>5. model_validate(x) = sync_aliases(validated(x))
    BY DEF model_validate
  <2>6. QED
    BY <2>4, <2>5
<1>6. CASE bad_keys(given) = {}
  <2>1. model_validate(given) = sync_aliases(Plain(payload))
    BY <1>1, <1>2, <1>5, <1>6
  <2>2. QED
    BY <1>6, <2>1 DEF fields_from_payload
<1>7. CASE bad_keys(given) # {}
  <2>1. /\ DOMAIN salvaged = DOMAIN given \ bad_keys(given)
        /\ \A k \in DOMAIN salvaged : salvaged[k] = given[k]
    BY DEF Without
  <2>2. \A k \in DOMAIN given \cap DOMAIN EmptyFields :
           /\ k \in bad_keys(given) => given[k] = Malformed
           /\ k \notin bad_keys(given) =>
                 given[k] # Malformed \/ (k \in ListFields /\ given[k] = None)
    BY DEF bad_keys, drop_nulls_for_nonoptional, Without
  <2>3. bad_keys(salvaged) = {}
    <3>1. ASSUME NEW k \in bad_keys(salvaged) PROVE FALSE
      <4>1. /\ k \in DOMAIN salvaged /\ k \in DOMAIN EmptyFields
            /\ salvaged[k] = Malformed
            /\ ~(k \in ListFields /\ salvaged[k] = None)
        BY <3>1 DEF bad_keys, drop_nulls_for_nonoptional, Without
      <4>2. QED
        BY <2>1, <2>2, <4>1
    <3>2. QED
      BY <3>1
  <2>4. model_validate(salvaged) = sync_aliases(Plain(payload))
    <3>1. \A k \in DOMAIN EmptyFields \cap DOMAIN payload :
             k \notin DOMAIN salvaged => payload[k] = Malformed
      BY <1>1, <1>2, <2>1, <2>2
    <3>2. DOMAIN salvaged \subseteq DOMAIN payload
          /\ \A k \in DOMAIN salvaged : salvaged[k] = payload[k]
      BY <1>1, <2>1
    <3>3. QED
      BY <1>5, <2>3, <3>1, <3>2
  <2>5. QED
    BY <1>7, <2>3, <2>4 DEF fields_from_payload
<1>8. QED
  BY <1>6, <1>7

(* Syncing fills an alias from the other one and changes nothing else. *)
LEMMA SyncedField ==
    ASSUME NEW payload, NEW n \in DOMAIN EmptyFields
    PROVE  sync_aliases(Plain(payload))[n]
              = IF Given(payload, n) # EmptyFields[n] THEN Given(payload, n)
                ELSE Given(payload, Alias(n))
<1>0. PICK f : f = Plain(payload)
  OBVIOUS
<1>1. /\ DOMAIN f = DOMAIN EmptyFields
      /\ \A m \in DOMAIN f : f[m] = Given(payload, m)
      /\ f = [m \in DOMAIN EmptyFields |-> f[m]]
  BY <1>0 DEF Plain
<1>2. /\ EmptyFields["total_amount"] = None
      /\ EmptyFields["grand_total"] = None
      /\ EmptyFields["parties"] = <<>>
      /\ EmptyFields["party_names"] = <<>>
      /\ {"total_amount", "grand_total", "parties", "party_names"}
            \subseteq DOMAIN EmptyFields
  BY DEF EmptyFields
<1> DEFINE Either(x, y) == IF x = None THEN y ELSE x
           total == Either(f["total_amount"], f["grand_total"])
           grand == Either(f["grand_total"], f["total_amount"])
           parts == IF f["parties"] = <<>> THEN f["party_names"]
                    ELSE f["parties"]
           names == IF f["party_names"] = <<>> THEN f["parties"]
                    ELSE f["party_names"]
<1>3. sync_aliases(f)[n] =
         CASE n = "total_amount" -> total
           [] n = "grand_total" -> grand
           [] n = "parties" -> parts
           [] n = "party_names" -> names
           [] OTHER -> f[n]
  BY <1>1, <1>2 DEF sync_aliases
<1>4. CASE n = "total_amount"
  BY <1>0, <1>1, <1>2, <1>3, <1>4 DEF Alias
<1>5. CASE n = "grand_total"
  BY <1>0, <1>1, <1>2, <1>3, <1>5 DEF Alias
<1>6. CASE n = "parties"
  BY <1>0, <1>1, <1>2, <1>3, <1>6 DEF Alias
<1>7. CASE n = "party_names"
  BY <1>0, <1>1, <1>2, <1>3, <1>7 DEF Alias
<1>8. CASE n \notin {"total_amount", "grand_total", "parties", "party_names"}
  BY <1>0, <1>1, <1>3, <1>8 DEF Alias
<1>9. QED
  BY <1>4, <1>5, <1>6, <1>7, <1>8

-----------------------------------------------------------------------------
(* What the clients do, seen from Pipeline. *)

(* A classification names a type the graph knows. *)
LEMMA ClassifiedType ==
    ASSUME NEW payload
    PROVE  classification_from_payload(payload).document_type
              \in DocumentTypes
BY DEF classification_from_payload, DocumentTypes

(* Storing a covered classification is a step of classifier_node ... *)
LEMMA ClassifiedIsNode ==
    ASSUME NEW c, c.document_type \in DocumentTypes,
           c.confidence \in Confidences, classified(c)
    PROVE  classifier_node
BY DEF classified, classifier_node, history

(* ... and storing covered fields is one of extractor_node. *)
LEMMA ExtractedIsNode ==
    ASSUME NEW f, NEW c \in Confidences,
           \E p \in Payloads[document_type] : f = sync_aliases(p),
           extracted(f, c)
    PROVE  extractor_node
BY DEF extracted, extractor_node, Extracts

(* A document and its type are among those the constants cover. *)
DocInv == doc \in Documents /\ document_type \in DocumentTypes

(* Every step with a client is one step of Pipeline, or none. *)
LEMMA StepOfPipeline ==
    ASSUME ClientsCovered, DocInv, [LlmNext]_all_vars
    PROVE  [Next]_vars
<1>1. CASE mock_client
  <2>1. CASE classified(mock_classify(doc))
    BY <2>1, ClassifiedIsNode DEF ClientsCovered, DocInv, Next, Step
  <2>2. CASE extracted(mock_fields(doc, document_type),
                       mock_confidence(doc, document_type))
    BY <2>2, ExtractedIsNode DEF ClientsCovered, DocInv, Next, Step
  <2>3. QED
    BY <1>1, <2>1, <2>2 DEF mock_client
<1>2. CASE client_missing
  BY <1>2 DEF client_missing, Next, Step
<1>3. CASE read_part \/ fail_over
  BY <1>3 DEF read_part, fail_over
<1>4. CASE read_part_fails \/ abort \/ exhausted
  BY <1>4 DEF read_part_fails, abort, exhausted, llm_error, Next, Step
<1>5. CASE classify
  <2>1. PICK text \in ClassifyTexts :
           IF ConfidenceRaises(safe_json_loads(text)) THEN llm_node_raises
           ELSE classified(classification_from_payload(safe_json_loads(text)))
    BY <1>5 DEF classify
  <2> DEFINE payload == safe_json_loads(text)
             c == classification_from_payload(payload)
  <2>2. CASE ConfidenceRaises(payload)
    BY <2>1, <2>2 DEF Next, Step
  <2>3. CASE ~ConfidenceRaises(payload)
    <3>1. c.document_type \in DocumentTypes
      BY ClassifiedType
    <3>2. c.confidence = ConfidenceOf(payload, 0)
      BY DEF classification_from_payload
    <3>3. c.confidence \in Confidences
      BY <2>3, <3>2 DEF ClientsCovered
    <3>4. classified(c)
      BY <2>1, <2>3
    <3>5. QED
      BY <3>1, <3>3, <3>4, ClassifiedIsNode DEF Next, Step
  <2>4. QED
    BY <2>2, <2>3
<1>6. CASE extract
  <2>1. PICK text \in ExtractTexts[document_type] :
           IF ConfidenceRaises(safe_json_loads(text)) THEN llm_node_raises
           ELSE extracted(fields_from_payload(safe_json_loads(text)),
                          extraction_confidence_of(safe_json_loads(text)))
    BY <1>6 DEF extract
  <2> DEFINE payload == safe_json_loads(text)
  <2>2. CASE ConfidenceRaises(payload)
    BY <2>1, <2>2 DEF Next, Step
  <2>3. CASE ~ConfidenceRaises(payload)
    <3>1. /\ extraction_confidence_of(payload) \in Confidences
          /\ \E p \in Payloads[document_type] :
                fields_from_payload(payload) = sync_aliases(p)
      BY <2>3 DEF ClientsCovered, DocInv
    <3>2. QED
      BY <2>1, <2>3, <3>1, ExtractedIsNode DEF Next, Step
  <2>4. QED
    BY <2>2, <2>3
<1>7. CASE guardrail_node \/ validator_node \/ router_node
           \/ state_to_result \/ recursion_error
  BY <1>7 DEF Next, Step
<1>8. CASE Stopped \/ UNCHANGED all_vars
  BY <1>8 DEF Next, all_vars
<1>9. QED
  BY <1>1, <1>2, <1>3, <1>4, <1>5, <1>6, <1>7, <1>8 DEF LlmNext, LlmStep

(* Pipeline keeps the document, and the type is always a known one. *)
LEMMA StepKeepsDoc ==
    ASSUME DocInv, [Next]_vars
    PROVE  DocInv'
BY DEF DocInv, vars, agent_state, Next, Step, Stopped, Run, guardrail_node,
       classifier_node, classifier_node_fails, extractor_node, Extracts,
       extractor_node_fails, validator_node, router_node, state_to_result,
       llm_node_raises, recursion_error, Raised

(* The pipeline with its clients implements Pipeline: what is proved about *)
(* Pipeline from Init and Next holds with every chain of models.           *)
THEOREM ImplementsPipelineHolds ==
    ClientsCovered => (LlmSpec => ImplementsPipeline)
<1> SUFFICES ASSUME ClientsCovered PROVE LlmSpec => ImplementsPipeline
  OBVIOUS
<1>1. LlmInit => Init /\ DocInv
  BY DEF LlmInit, Init, DocInv, DocumentTypes
<1>2. DocInv /\ [LlmNext]_all_vars => DocInv' /\ [Next]_vars
  BY StepOfPipeline, StepKeepsDoc
<1>3. QED
  BY <1>1, <1>2, PTL DEF LlmSpec, ImplementsPipeline

-----------------------------------------------------------------------------
(* Failures and fields.  An exception stops the run, so its cause stays in *)
(* view; until then the fields are those of the last object understood.    *)

AnswersInv ==
    /\ heard = [classify |-> heard.classify, extract |-> heard.extract]
    /\ error \in {"none", "classification_failed", "extraction_failed"}
    /\ result.error = "exception" => node = "stopped"
    /\ OnlyConfidenceRaises
    /\ ~use_mock_llm(settings) /\ result.error # "exception" =>
          /\ fields = fields_from_payload(heard.extract)
          /\ extraction_confidence \in
                {None, extraction_confidence_of(heard.extract)}

(* What an exception that leaves a node does. *)
LEMMA RaisesFacts ==
    ASSUME llm_node_raises
    PROVE  /\ result'.error = "exception" /\ node' = "stopped"
           /\ UNCHANGED <<error, fields>>
BY DEF llm_node_raises, Raised, agent_state

(* A text is remembered in its place. *)
LEMMA HeardFacts ==
    ASSUME heard = [classify |-> heard.classify, extract |-> heard.extract],
           NEW payload
    PROVE  /\ [heard EXCEPT !.classify = payload]
                 = [classify |-> payload, extract |-> heard.extract]
           /\ [heard EXCEPT !.extract = payload]
                 = [classify |-> heard.classify, extract |-> payload]
<1>1. PICK a, b : heard = [classify |-> a, extract |-> b]
  OBVIOUS
<1>2. QED
  BY <1>1

(* No step disturbs the answers. *)
LEMMA StepKeepsAnswers ==
    ASSUME AnswersInv, [LlmNext]_all_vars
    PROVE  AnswersInv'
<1>1. CASE mock_client
  <2>1. /\ UNCHANGED <<settings, heard, error, result>>
        /\ use_mock_llm(settings) /\ result.error # "exception"
    BY <1>1 DEF mock_client, llm_vars, classified, extracted, Run, In,
                AnswersInv
  <2>2. QED
    BY <2>1 DEF AnswersInv, OnlyConfidenceRaises
<1>2. CASE client_missing
  <2>1. UNCHANGED <<settings, heard>> /\ ~settings.genai_installed
    BY <1>2 DEF client_missing, llm_vars
  <2>2. QED
    BY <1>2, <2>1, RaisesFacts
    DEF client_missing, AnswersInv, OnlyConfidenceRaises
<1>3. CASE \/ read_part \/ fail_over
           \/ Stopped /\ UNCHANGED llm_vars
           \/ UNCHANGED all_vars
  <2>1. UNCHANGED <<settings, heard, error, result, node, fields,
                    extraction_confidence>>
    BY <1>3 DEF read_part, fail_over, Stopped, llm_vars, all_vars, vars,
                agent_state
  <2>2. QED
    BY <2>1 DEF AnswersInv, OnlyConfidenceRaises
<1>4. CASE read_part_fails \/ abort \/ exhausted
  <2>1. /\ UNCHANGED <<settings, heard, result, fields,
                       extraction_confidence>>
        /\ error' \in {"classification_failed", "extraction_failed"}
        /\ result.error # "exception"
    BY <1>4 DEF read_part_fails, abort, exhausted, llm_error, AnswersInv, Run,
                classifier_node_fails, extractor_node_fails
  <2>2. QED
    BY <2>1 DEF AnswersInv, OnlyConfidenceRaises
<1>5. CASE classify
  <2>1. PICK text \in ClassifyTexts :
           /\ heard' = [heard EXCEPT !.classify = safe_json_loads(text)]
           /\ IF ConfidenceRaises(safe_json_loads(text))
              THEN llm_node_raises
              ELSE classified(
                      classification_from_payload(safe_json_loads(text)))
    BY <1>5 DEF classify
  <2> DEFINE payload == safe_json_loads(text)
  <2>2. /\ heard' = [classify |-> payload, extract |-> heard.extract]
        /\ settings' = settings /\ result.error # "exception"
    BY <1>5, <2>1, HeardFacts DEF AnswersInv, classify, In
  <2>3. CASE ConfidenceRaises(payload)
    BY <2>1, <2>2, <2>3, RaisesFacts DEF AnswersInv, OnlyConfidenceRaises
  <2>4. CASE ~ConfidenceRaises(payload)
    <3>1. UNCHANGED <<error, fields, extraction_confidence, result>>
      BY <2>1, <2>4 DEF classified, Run
    <3>2. QED
      BY <2>2, <3>1 DEF AnswersInv, OnlyConfidenceRaises
  <2>5. QED
    BY <2>3, <2>4
<1>6. CASE extract
  <2>1. PICK text \in ExtractTexts[document_type] :
           /\ heard' = [heard EXCEPT !.extract = safe_json_loads(text)]
           /\ IF ConfidenceRaises(safe_json_loads(text)) THEN llm_node_raises
              ELSE extracted(fields_from_payload(safe_json_loads(text)),
                             extraction_confidence_of(safe_json_loads(text)))
    BY <1>6 DEF extract
  <2> DEFINE payload == safe_json_loads(text)
  <2>2. /\ heard' = [classify |-> heard.classify, extract |-> payload]
        /\ settings' = settings /\ result.error # "exception"
    BY <1>6, <2>1, HeardFacts DEF AnswersInv, extract, In
  <2>3. CASE ConfidenceRaises(payload)
    BY <2>1, <2>2, <2>3, RaisesFacts DEF AnswersInv, OnlyConfidenceRaises
  <2>4. CASE ~ConfidenceRaises(payload)
    <3>1. /\ UNCHANGED <<error, result>>
          /\ fields' = fields_from_payload(payload)
          /\ extraction_confidence' = extraction_confidence_of(payload)
      BY <2>1, <2>4 DEF extracted, Run
    <3>2. QED
      BY <2>2, <3>1 DEF AnswersInv, OnlyConfidenceRaises
  <2>5. QED
    BY <2>3, <2>4
<1>7. CASE (guardrail_node \/ validator_node \/ router_node)
           /\ UNCHANGED llm_vars
  <2>1. /\ UNCHANGED <<settings, heard, error, result, fields,
                       extraction_confidence>>
        /\ result.error # "exception"
    BY <1>7 DEF guardrail_node, validator_node, router_node, Run, llm_vars,
                AnswersInv
  <2>2. QED
    BY <2>1 DEF AnswersInv, OnlyConfidenceRaises
<1>8. CASE (state_to_result \/ recursion_error) /\ UNCHANGED llm_vars
  <2>1. /\ UNCHANGED <<settings, heard, error, fields, extraction_confidence>>
        /\ result'.error \in {error, "recursion_limit"}
        /\ result.error # "exception"
    BY <1>8 DEF state_to_result, recursion_error, Raised, agent_state,
                llm_vars, AnswersInv
  <2>2. QED
    BY <2>1 DEF AnswersInv, OnlyConfidenceRaises
<1>9. CASE LlmStep
  BY <1>1, <1>2, <1>3, <1>4, <1>5, <1>6, <1>7, <1>8, <1>9 DEF LlmStep
<1>10. QED
  BY <1>3, <1>9 DEF LlmNext

(* An object without fields gives the initial ones. *)
LEMMA NoFields == fields_from_payload(EmptyPayload) = EmptyFields
<1>1. \A n \in DOMAIN EmptyFields : Given(EmptyPayload, n) = EmptyFields[n]
  BY DEF Given, EmptyPayload
<1>2. Plain(EmptyPayload) = EmptyFields
  <2>1. EmptyFields = [n \in DOMAIN EmptyFields |-> EmptyFields[n]]
    BY DEF EmptyFields
  <2>2. QED
    BY <1>1, <2>1 DEF Plain
<1>3. sync_aliases(EmptyFields) = EmptyFields
  <2>1. PICK f : f = EmptyFields
    OBVIOUS
  <2>2. /\ f.total_amount = None /\ f.grand_total = None
        /\ f.parties = <<>> /\ f.party_names = <<>>
        /\ f = [n \in DOMAIN f |-> f[n]]
    BY <2>1 DEF EmptyFields
  <2>3. sync_aliases(f) = f
    BY <2>2 DEF sync_aliases
  <2>4. QED
    BY <2>1, <2>3
<1>4. QED
  BY <1>2, <1>3, FieldsAreSalvaged

(* The invariant of failures and fields. *)
THEOREM AnswersCorrect == LlmSpec => []AnswersInv
<1>1. LlmInit => AnswersInv
  BY NoFields DEF LlmInit, Init, AnswersInv, OnlyConfidenceRaises, Nothing,
                  NoResult
<1>2. QED
  BY <1>1, StepKeepsAnswers, PTL DEF LlmSpec

(* One malformed field costs no sibling, and nothing of an earlier answer  *)
(* remains.                                                                *)
THEOREM SalvageKeepsGoodFieldsHolds == LlmSpec => []SalvageKeepsGoodFields
<1>1. AnswersInv => SalvageKeepsGoodFields
  <2> SUFFICES ASSUME AnswersInv, ~use_mock_llm(settings),
                      result.error # "exception", NEW n \in DOMAIN EmptyFields
               PROVE  fields[n] =
                         IF Given(heard.extract, n) # EmptyFields[n]
                         THEN Given(heard.extract, n)
                         ELSE Given(heard.extract, Alias(n))
    BY DEF SalvageKeepsGoodFields
  <2>1. fields = sync_aliases(Plain(heard.extract))
    BY FieldsAreSalvaged DEF AnswersInv
  <2>2. QED
    BY <2>1, SyncedField
<1>2. QED
  BY <1>1, AnswersCorrect, PTL

(* No answer ends a run by an exception, but for its confidence. *)
THEOREM OnlyConfidenceRaisesHolds == LlmSpec => []OnlyConfidenceRaises
<1>1. AnswersInv => OnlyConfidenceRaises
  BY DEF AnswersInv
<1>2. QED
  BY <1>1, AnswersCorrect, PTL

-----------------------------------------------------------------------------
(* The chain of models.  gemini_model_chain is a loop over the fallbacks;  *)
(* what it has built after each of them is known by induction.             *)

(* The names among the first n fallbacks, with the primary one.            *)
NamesUpTo(s, n) ==
    {s.gemini_model} \cup ({s.fallbacks[i] : i \in 1..n} \ {Empty})

(* g[n] is the chain after n fallbacks, turn by turn.                      *)
ChainStates(g, s, N) ==
    /\ g \in [0..N -> Seq(NamesUpTo(s, N))]
    /\ gemini_model_chain(s) = g[N]
    /\ g[0] = <<s.gemini_model>>
    /\ \A n \in 1..N :
          g[n] = IF s.fallbacks[n] \in {g[n - 1][i] : i \in DOMAIN g[n - 1]}
                                          \cup {Empty}
                 THEN g[n - 1] ELSE Append(g[n - 1], s.fallbacks[n])

(* The loop of gemini_model_chain has such states. *)
LEMMA ChainLoop ==
    ASSUME NEW s, NEW N \in Nat, Len(s.fallbacks) = N
    PROVE  \E g : ChainStates(g, s, N)
<1> DEFINE S == Seq(NamesUpTo(s, N))
           turn(x, m) == IF m \in {x[i] : i \in DOMAIN x} \cup {Empty}
                         THEN x ELSE Append(x, m)
           step == [x \in S \X (1..N) |-> turn(x[1], s.fallbacks[x[2]])]
           base == <<s.gemini_model>>
           body(g) == [n \in 0..N |->
                         IF n = 0 THEN base
                         ELSE turn(g[n - 1], s.fallbacks[n])]
           h == CHOOSE g : g = body(g)
<1>1. base \in S
  <2>1. s.gemini_model \in NamesUpTo(s, N)
    BY DEF NamesUpTo
  <2>2. QED
    BY <2>1
<1>2. \A x \in S, n \in 1..N :
         /\ turn(x, s.fallbacks[n]) \in S
         /\ step[<<x, n>>] = turn(x, s.fallbacks[n])
  <2>1. TAKE x \in S, n \in 1..N
  <2>2. s.fallbacks[n] # Empty => s.fallbacks[n] \in NamesUpTo(s, N)
    BY DEF NamesUpTo
  <2>3. QED
    BY <2>2
<1>3. step \in [S \X (1..N) -> S]
  BY <1>2
<1>4. PICK g : StatesOf(g, base, step, N, S)
  <2>1. Turns(step, N, S)
    BY <1>3 DEF Turns
  <2> HIDE DEF step, S, base
  <2>2. QED
    BY <1>1, <2>1, LoopExists
<1>5. g \in [0..N -> S] /\ g[0] = base
  BY <1>4 DEF StatesOf
<1>6. ASSUME NEW n \in 1..N
      PROVE  g[n] = turn(g[n - 1], s.fallbacks[n])
  <2> HIDE DEF step, turn, S
  <2>1. g[n - 1] \in S
    BY <1>5
  <2>2. g[n] = step[<<g[n - 1], n>>]
    BY <1>4 DEF StatesOf
  <2>3. QED
    BY <1>2, <2>1, <2>2
<1> HIDE DEF step, turn, S, base
<1>7. g = body(g)
  <2>1. ASSUME NEW n \in 0..N PROVE g[n] = body(g)[n]
    BY <1>5, <1>6
  <2>2. QED
    BY <1>5, <2>1
<1>8. h = body(h)
  <2> HIDE DEF body
  <2>1. QED
    BY <1>7, Zenon
<1>9. h = g
  <2> DEFINE T == {n \in 0..N : h[n] = g[n]}
  <2> HIDE DEF h
  <2>1. 0 \in T
    BY <1>7, <1>8
  <2>2. ASSUME NEW n \in 1..N, n - 1 \in T PROVE n \in T
    <3>1. h[n] = body(h)[n] /\ g[n] = body(g)[n]
      BY <1>7, <1>8
    <3>2. QED
      BY <2>2, <3>1
  <2>3. \A n \in 0..N : n \in T
    <3> HIDE DEF T
    <3>1. QED
      BY <2>1, <2>2, UpTo
  <2>4. DOMAIN h = 0..N
    BY <1>8
  <2>5. QED
    BY <1>5, <1>8, <2>3, <2>4
<1>10. gemini_model_chain(s) = h[N]
  BY DEF gemini_model_chain, turn, base
<1> HIDE DEF h, body
<1>11. ChainStates(g, s, N)
  BY <1>5, <1>6, <1>9, <1>10 DEF ChainStates, S, turn, base
<1>12. QED
  BY <1>11

(* Every name the settings give is in the chain once. *)
THEOREM ChainOfNames ==
    ASSUME NEW s, NEW N \in Nat, Len(s.fallbacks) = N
    PROVE  LET c == gemini_model_chain(s)
           IN /\ c \in Seq(NamesUpTo(s, N))
              /\ c # <<>>
              /\ \A i, k \in 1..Len(c) : c[i] = c[k] => i = k
              /\ {c[i] : i \in 1..Len(c)} = NamesUpTo(s, N)
<1> DEFINE All == NamesUpTo(s, N)
<1>1. PICK g : ChainStates(g, s, N)
  BY ChainLoop
<1> USE DEF ChainStates
<1> DEFINE Elements(x) == {x[i] : i \in 1..Len(x)}
           Distinct(x) == \A i, k \in 1..Len(x) : x[i] = x[k] => i = k
           T == {n \in 0..N : /\ Distinct(g[n])
                             /\ Elements(g[n]) = NamesUpTo(s, n)
                             /\ g[n] # <<>>}
<1>2. 0 \in T
  <2>1. NamesUpTo(s, 0) = {s.gemini_model}
    BY DEF NamesUpTo
  <2>2. /\ Len(g[0]) = 1 /\ g[0] # <<>>
        /\ \A i \in 1..1 : i = 1
        /\ g[0][1] = s.gemini_model
    BY <1>1
  <2>3. Distinct(g[0]) /\ Elements(g[0]) = {s.gemini_model}
    BY <2>2
  <2>4. QED
    BY <2>1, <2>2, <2>3
<1>3. ASSUME NEW n \in 1..N, n - 1 \in T PROVE n \in T
  <2> DEFINE x == g[n - 1]
             m == s.fallbacks[n]
  <2>1. /\ x \in Seq(All) /\ DOMAIN x = 1..Len(x) /\ Len(x) \in Nat
        /\ n \in 0..N
    BY <1>1
  <2>2. Distinct(x) /\ Elements(x) = NamesUpTo(s, n - 1) /\ x # <<>>
    BY <1>3
  <2>3. NamesUpTo(s, n) = NamesUpTo(s, n - 1) \cup ({m} \ {Empty})
    <3>1. 1..n = (1..(n - 1)) \cup {n}
      OBVIOUS
    <3>2. QED
      BY <3>1 DEF NamesUpTo
  <2>4. g[n] = IF m \in Elements(x) \cup {Empty} THEN x ELSE Append(x, m)
    BY <1>1, <2>1
  <2> HIDE DEF x, m
  <2>5. CASE m \in Elements(x) \cup {Empty}
    BY <2>1, <2>2, <2>3, <2>4, <2>5
  <2>6. CASE m \notin Elements(x) \cup {Empty}
    <3> DEFINE y == Append(x, m)
    <3>1. m \in All
      BY <2>6 DEF NamesUpTo, m
    <3>2. /\ y \in Seq(All) /\ Len(y) = Len(x) + 1 /\ y # <<>>
          /\ \A i \in 1..Len(x) : y[i] = x[i]
          /\ y[Len(x) + 1] = m
      BY <2>1, <3>1
    <3> HIDE DEF y
    <3>3. \A i \in 1..Len(y) : i \in 1..Len(x) \/ i = Len(x) + 1
      BY <2>1, <3>2
    <3>4. \A i \in 1..Len(x) : x[i] # m
      BY <2>6
    <3>5. Distinct(y)
      BY <2>2, <3>2, <3>3, <3>4
    <3>6. Elements(y) = Elements(x) \cup {m}
      BY <2>1, <3>2, <3>3
    <3>7. g[n] = y /\ m # Empty
      BY <2>4, <2>6 DEF y
    <3>8. QED
      BY <2>1, <2>2, <2>3, <3>2, <3>5, <3>6, <3>7
  <2>7. QED
    BY <2>5, <2>6
<1>4. N \in T
  <2> HIDE DEF T
  <2>1. \A n \in 0..N : n \in T
    BY <1>2, <1>3, UpTo
  <2>2. QED
    BY <2>1
<1>5. QED
  BY <1>1, <1>4

(* What the settings give of a process that is running.                    *)
LEMMA ChainFacts ==
    ASSUME settings \in SettingsSet
    PROVE  /\ chain \in Seq(ModelNames)
           /\ IsFiniteSet(ModelNames)
           /\ Len(chain) = Cardinality(ModelNames)
           /\ Len(chain) \in Nat \ {0}
<1> DEFINE N == Len(settings.fallbacks)
<1>1. N \in Nat /\ DOMAIN settings.fallbacks = 1..N
  BY SettingsAssumption
<1>2. NamesUpTo(settings, N) = ModelNames
  BY <1>1 DEF NamesUpTo, ModelNames
<1>3. /\ chain \in Seq(ModelNames)
      /\ chain # <<>>
      /\ \A i, k \in 1..Len(chain) : chain[i] = chain[k] => i = k
      /\ {chain[i] : i \in 1..Len(chain)} = ModelNames
  BY <1>1, <1>2, ChainOfNames DEF chain
<1>4. Len(chain) \in Nat /\ Len(chain) # 0 /\ DOMAIN chain = 1..Len(chain)
  BY <1>3
<1>5. /\ IsFiniteSet({chain[i] : i \in 1..Len(chain)})
      /\ Cardinality({chain[i] : i \in 1..Len(chain)}) = Len(chain)
  <2> DEFINE c == chain
             n == Len(chain)
  <2>1. n \in Nat /\ DOMAIN c = 1..n
    BY <1>4
  <2>2. \A i, k \in 1..n : c[i] = c[k] => i = k
    BY <1>3
  <2> HIDE DEF c, n
  <2>3. /\ IsFiniteSet({c[i] : i \in 1..n})
        /\ Cardinality({c[i] : i \in 1..n}) = n
    BY <2>1, <2>2, DistinctLength
  <2>4. QED
    BY <2>3 DEF c, n
<1>6. QED
  BY <1>3, <1>4, <1>5

-----------------------------------------------------------------------------
(* The client.  The invariants of the pipeline carry over, and beside them *)
(* the open call is tied to the chain and to the node that waits for it.   *)

(* The open call: what was answered so far was refusals of the models of   *)
(* the chain, one each, and a client asks only in an LLM node.             *)
ClientInv ==
    /\ settings \in SettingsSet
    /\ call = [open |-> call.open, answers |-> call.answers]
    /\ call.open \in BOOLEAN
    /\ call.answers \in Seq(ErrorCodes \cap FAILOVER_CODES)
    /\ Len(call.answers) <= Len(chain)
    /\ ~call.open => call.answers = <<>>
    /\ call.open => /\ ~use_mock_llm(settings) /\ settings.genai_installed
                    /\ In("classifier") \/ In("extractor")
    /\ calls \in Nat
    /\ use_mock_llm(settings) => calls = 0
    /\ heard = [classify |-> heard.classify, extract |-> heard.extract]
    /\ heard.classify \in Texts \cup {EmptyPayload}
    /\ heard.extract \in Texts \cup {EmptyPayload}

(* The invariants of Pipeline hold of the pipeline with its clients. *)
LEMMA RunInvKept == ClientsCovered => (LlmSpec => []RunInv)
<1> SUFFICES ASSUME ClientsCovered PROVE LlmSpec => []RunInv
  OBVIOUS
<1>1. LlmInit => RunInv /\ DocInv
  <2>1. LlmInit => Init
    BY DEF LlmInit
  <2>2. LlmInit => DocInv
    BY DEF LlmInit, Init, DocInv, DocumentTypes
  <2>3. QED
    BY <2>1, <2>2, RunInductive
<1>2. RunInv /\ DocInv /\ [LlmNext]_all_vars => RunInv' /\ DocInv'
  BY StepOfPipeline, StepKeepsDoc, RunInductive
<1>3. QED
  BY <1>1, <1>2, PTL DEF LlmSpec

(* What a failed call leaves behind. *)
LEMMA LlmErrorFacts ==
    ASSUME NEW answers, llm_error(answers)
    PROVE  /\ In("classifier") \/ In("extractor")
           /\ failure' = answers /\ call' = Idle
           /\ UNCHANGED <<settings, heard, result, document_type, retries,
                          classification_confidence, route>>
           /\ error' \in {"classification_failed", "extraction_failed"}
           /\ node' \in {"extractor", "validator"}
           /\ node' = "extractor" => In("classifier")
BY DEF llm_error, classifier_node_fails, extractor_node_fails, Run, In

(* A text that was understood is one of those the service gives. *)
LEMMA TextsKnown ==
    /\ \A text \in ClassifyTexts : safe_json_loads(text) \in Texts
    /\ \A t \in DocumentTypes : \A text \in ExtractTexts[t] :
          safe_json_loads(text) \in Texts
BY DEF Texts

(* The client's part of the initial state. *)
LEMMA ClientInit == LlmInit => ClientInv
<1> SUFFICES ASSUME LlmInit PROVE ClientInv
  OBVIOUS
<1>1. /\ settings \in SettingsSet /\ call = Idle /\ calls = 0
      /\ heard = Nothing
  BY DEF LlmInit
<1>2. Len(chain) \in Nat \ {0}
  BY <1>1, ChainFacts
<1>3. call = [open |-> FALSE, answers |-> <<>>]
  BY <1>1 DEF Idle
<1>4. heard = [classify |-> EmptyPayload, extract |-> EmptyPayload]
  BY <1>1 DEF Nothing
<1>5. /\ call = [open |-> call.open, answers |-> call.answers]
      /\ call.open = FALSE /\ call.answers = <<>>
  BY <1>3
<1>6. /\ heard = [classify |-> heard.classify, extract |-> heard.extract]
      /\ heard.classify = EmptyPayload /\ heard.extract = EmptyPayload
  BY <1>4
<1>7. /\ <<>> \in Seq(ErrorCodes \cap FAILOVER_CODES)
      /\ Len(<<>>) <= Len(chain)
  BY <1>2
<1>8. QED
  BY <1>1, <1>5, <1>6, <1>7 DEF ClientInv

(* Every step keeps the open call in order. *)
LEMMA ClientStep ==
    ASSUME TypeOK, ClientInv, [LlmNext]_all_vars
    PROVE  ClientInv'
<1>0. /\ settings \in SettingsSet
      /\ call = [open |-> call.open, answers |-> call.answers]
      /\ call.open \in BOOLEAN
      /\ call.answers \in Seq(ErrorCodes \cap FAILOVER_CODES)
      /\ Len(call.answers) <= Len(chain)
      /\ Len(chain) \in Nat
      /\ calls \in Nat
      /\ steps \in Nat /\ RecursionLimit \in Nat
      /\ document_type \in DocumentTypes
  BY ChainFacts, RecursionLimitAssumption DEF ClientInv, TypeOK
<1>1. ASSUME settings' = settings, call' = call, heard' = heard,
             calls' = calls, ~call.open
      PROVE  ClientInv'
  BY <1>1 DEF ClientInv, chain
<1>2. ASSUME settings' = settings, call' = Idle,
             calls' \in Nat, ~use_mock_llm(settings),
             heard' = [classify |-> heard'.classify,
                       extract |-> heard'.extract],
             heard'.classify \in Texts \cup {EmptyPayload},
             heard'.extract \in Texts \cup {EmptyPayload}
      PROVE  ClientInv'
  <2>1. /\ call' = [open |-> call'.open, answers |-> call'.answers]
        /\ call'.open = FALSE /\ call'.answers = <<>>
    BY <1>2 DEF Idle
  <2>2. Len(call'.answers) <= Len(chain')
    BY <1>0, <1>2, <2>1 DEF chain
  <2>3. <<>> \in Seq(ErrorCodes \cap FAILOVER_CODES)
    OBVIOUS
  <2>4. QED
    BY <1>0, <1>2, <2>1, <2>2, <2>3 DEF ClientInv
<1>3. CASE mock_client
  <2>1. use_mock_llm(settings) /\ UNCHANGED llm_vars
    BY <1>3 DEF mock_client
  <2>2. QED
    BY <1>1, <2>1 DEF llm_vars, ClientInv
<1>4. CASE client_missing
  <2>1. ~settings.genai_installed /\ UNCHANGED llm_vars
    BY <1>4 DEF client_missing
  <2>2. QED
    BY <1>1, <2>1 DEF llm_vars, ClientInv
<1>5. CASE read_part
  <2>1. /\ call' = [open |-> TRUE, answers |-> <<>>]
        /\ UNCHANGED <<vars, settings, calls, heard>>
        /\ ~use_mock_llm(settings) /\ settings.genai_installed
        /\ In("classifier") \/ In("extractor")
    BY <1>5 DEF read_part, Calling
  <2>2. /\ call' = [open |-> call'.open, answers |-> call'.answers]
        /\ call'.open = TRUE /\ call'.answers = <<>>
    BY <2>1
  <2>3. In("classifier")' \/ In("extractor")'
    BY <2>1 DEF In, vars
  <2>4. /\ <<>> \in Seq(ErrorCodes \cap FAILOVER_CODES)
        /\ Len(call'.answers) <= Len(chain')
    BY <1>0, <2>1, <2>2 DEF chain
  <2>5. QED
    BY <1>0, <2>1, <2>2, <2>3, <2>4 DEF ClientInv
<1>6. CASE fail_over
  <2>1. PICK code \in ErrorCodes \cap FAILOVER_CODES :
           call' = [call EXCEPT !.answers = Append(@, code)]
    BY <1>6 DEF fail_over
  <2>2. /\ UNCHANGED <<vars, settings, heard>>
        /\ call.open /\ Len(call.answers) < Len(chain)
        /\ calls' = calls + 1
    BY <1>6 DEF fail_over, Asking
  <2>3. /\ call' = [open |-> call'.open, answers |-> call'.answers]
        /\ call'.open = TRUE
        /\ call'.answers = Append(call.answers, code)
    <3>1. PICK o, answers : call = [open |-> o, answers |-> answers]
      BY <1>0
    <3>2. QED
      BY <1>0, <2>1, <2>2, <3>1
  <2>4. /\ call'.answers \in Seq(ErrorCodes \cap FAILOVER_CODES)
        /\ Len(call'.answers) = Len(call.answers) + 1
        /\ Len(call.answers) \in Nat
    BY <1>0, <2>3
  <2>5. In("classifier")' \/ In("extractor")'
    BY <2>2 DEF In, vars, ClientInv
  <2>6. Len(call'.answers) <= Len(chain')
    BY <1>0, <2>2, <2>4 DEF chain
  <2>7. /\ ~use_mock_llm(settings) /\ settings.genai_installed
        /\ heard = [classify |-> heard.classify, extract |-> heard.extract]
        /\ heard.classify \in Texts \cup {EmptyPayload}
        /\ heard.extract \in Texts \cup {EmptyPayload}
    BY <2>2 DEF ClientInv
  <2>8. calls' \in Nat /\ settings' \in SettingsSet
    BY <1>0, <2>2
  <2>9. /\ ~use_mock_llm(settings') /\ settings'.genai_installed
        /\ heard' = heard
    BY <2>2, <2>7
  <2>10. QED
    BY <2>3, <2>4, <2>5, <2>6, <2>7, <2>8, <2>9 DEF ClientInv
<1>7. CASE read_part_fails \/ abort \/ exhausted
  <2>1. /\ UNCHANGED <<settings, heard>> /\ call' = Idle
    BY <1>7, LlmErrorFacts DEF read_part_fails, abort, exhausted
  <2>2. calls' \in Nat /\ ~use_mock_llm(settings)
    BY <1>0, <1>7
    DEF read_part_fails, abort, exhausted, Asking, Calling, ClientInv
  <2>3. QED
    BY <1>2, <2>1, <2>2 DEF ClientInv
<1>8. CASE classify \/ extract
  <2>1. /\ settings' = settings /\ call' = Idle /\ calls' = calls + 1
        /\ call.open
    BY <1>8 DEF classify, extract, Asking
  <2>2. PICK payload \in Texts :
           heard' \in {[heard EXCEPT !.classify = payload],
                      [heard EXCEPT !.extract = payload]}
    BY <1>0, <1>8, TextsKnown DEF classify, extract
  <2>3. heard' \in {[classify |-> payload, extract |-> heard.extract],
                   [classify |-> heard.classify, extract |-> payload]}
    BY <2>2, HeardFacts DEF ClientInv
  <2>4. QED
    BY <1>0, <1>2, <2>1, <2>3 DEF ClientInv
<1>9. CASE (guardrail_node \/ validator_node \/ router_node
              \/ state_to_result \/ recursion_error) /\ UNCHANGED llm_vars
  <2>1. ~(In("classifier") \/ In("extractor"))
    BY <1>0, <1>9 DEF guardrail_node, validator_node, router_node,
                      state_to_result, recursion_error, Run, In
  <2>2. QED
    BY <1>1, <1>9, <2>1 DEF llm_vars, ClientInv
<1>10. CASE Stopped /\ UNCHANGED llm_vars
  <2>1. ~(In("classifier") \/ In("extractor"))
    BY <1>10 DEF Stopped, In
  <2>2. QED
    BY <1>1, <1>10, <2>1 DEF llm_vars, ClientInv
<1>11. CASE UNCHANGED all_vars
  BY <1>11 DEF all_vars, llm_vars, vars, ClientInv, In, chain
<1>12. QED
  BY <1>3, <1>4, <1>5, <1>6, <1>7, <1>8, <1>9, <1>10, <1>11
  DEF LlmNext, LlmStep

(* ClientInv holds throughout a run. *)
THEOREM ClientCorrect == ClientsCovered => (LlmSpec => []ClientInv)
<1>1. RunInv => TypeOK
  BY DEF RunInv
<1>2. QED
  BY <1>1, RunInvKept, ClientInit, ClientStep, PTL DEF LlmSpec

(* The variables of the client keep their types, for every settings, and a *)
(* call is open in an LLM node only (get_llm_client, _generate_json).      *)
THEOREM LlmTypeOKHolds == ClientsCovered => (LlmSpec => []LlmTypeOK)
<1>1. ClientInv => LlmTypeOK
  <2> SUFFICES ASSUME ClientInv PROVE LlmTypeOK
    OBVIOUS
  <2>1. /\ call = [open |-> call.open, answers |-> call.answers]
        /\ call.open \in BOOLEAN
        /\ call.answers \in Seq(ErrorCodes)
        /\ Len(call.answers) \in 0..Len(chain)
    BY ChainFacts DEF ClientInv
  <2>2. call.answers \in [1..Len(call.answers) -> ErrorCodes]
    BY <2>1
  <2>3. call.answers \in UNION {[1..n -> ErrorCodes] : n \in 0..Len(chain)}
    BY <2>1, <2>2
  <2>4. call \in [open : BOOLEAN,
                 answers : UNION {[1..n -> ErrorCodes] :
                                     n \in 0..Len(chain)}]
    BY <2>1, <2>3
  <2>5. heard \in [classify : Texts \cup {EmptyPayload},
                  extract : Texts \cup {EmptyPayload}]
    BY DEF ClientInv
  <2>6. QED
    BY <2>4, <2>5 DEF ClientInv, LlmTypeOK
<1>2. QED
  BY <1>1, ClientCorrect, PTL

-----------------------------------------------------------------------------
(* Failures.  The answers to a failed call are read off the open call that *)
(* ended; from then on nothing but another failure replaces them.          *)

(* Every step keeps a failure deserved. *)
LEMMA FailureStep ==
    ASSUME ClientInv, FailureIsDeserved, [LlmNext]_all_vars
    PROVE  FailureIsDeserved'
<1>0. /\ call.answers \in Seq(ErrorCodes \cap FAILOVER_CODES)
      /\ settings \in SettingsSet
      /\ Len(chain) = Cardinality(ModelNames) /\ Len(chain) \in Nat \ {0}
      /\ Len(call.answers) \in Nat
      /\ \A i \in 1..Len(call.answers) : call.answers[i] \in {"429", "503"}
  BY ChainFacts DEF ClientInv, FAILOVER_CODES
<1>1. CASE read_part_fails
  <2>1. failure' = <<"unreadable">>
    BY <1>1, LlmErrorFacts DEF read_part_fails
  <2>2. QED
    BY <2>1 DEF FailureIsDeserved
<1>2. CASE abort
  <2>1. PICK code \in ErrorCodes \ FAILOVER_CODES :
           llm_error(Append(call.answers, code))
    BY <1>2 DEF abort
  <2>2. failure' = Append(call.answers, code)
    BY <2>1, LlmErrorFacts
  <2>3. code \notin {"429", "503"}
    BY <2>1 DEF FAILOVER_CODES
  <2>4. /\ Len(failure') = Len(call.answers) + 1
        /\ failure'[Len(call.answers) + 1] = code
        /\ \A i \in 1..Len(call.answers) : failure'[i] = call.answers[i]
    BY <1>0, <2>2
  <2>5. /\ Len(failure') >= 1
        /\ \A i \in 1..(Len(failure') - 1) : failure'[i] \in {"429", "503"}
        /\ failure'[Len(failure')] \notin {"429", "503"}
    BY <1>0, <2>3, <2>4
  <2>6. QED
    BY <2>5 DEF FailureIsDeserved
<1>3. CASE exhausted
  <2>1. /\ failure' = call.answers /\ settings' = settings
        /\ Len(call.answers) = Len(chain)
    BY <1>3, LlmErrorFacts DEF exhausted
  <2>2. ModelNames' = ModelNames
    BY <2>1 DEF ModelNames
  <2>3. /\ Len(failure') >= 1
        /\ \A i \in 1..(Len(failure') - 1) : failure'[i] \in {"429", "503"}
        /\ Len(failure') = Cardinality(ModelNames')
    BY <1>0, <2>1, <2>2
  <2>4. QED
    BY <2>3 DEF FailureIsDeserved
<1>4. ASSUME UNCHANGED <<settings, failure, error>>
      PROVE  FailureIsDeserved'
  BY <1>4 DEF FailureIsDeserved, ModelNames
<1>5. CASE mock_client \/ client_missing
  BY <1>4, <1>5 DEF mock_client, client_missing, llm_vars, classified,
                    extracted, llm_node_raises, Raised, agent_state
<1>6. CASE read_part \/ fail_over
  BY <1>4, <1>6 DEF read_part, fail_over, vars, agent_state
<1>7. CASE classify
  <2>1. PICK text \in ClassifyTexts :
           IF ConfidenceRaises(safe_json_loads(text)) THEN llm_node_raises
           ELSE classified(classification_from_payload(safe_json_loads(text)))
    BY <1>7 DEF classify
  <2>2. error' = error
    BY <2>1, RaisesFacts DEF classified
  <2>3. QED
    BY <1>4, <1>7, <2>2 DEF classify
<1>8. CASE extract
  <2>1. PICK text \in ExtractTexts[document_type] :
           IF ConfidenceRaises(safe_json_loads(text)) THEN llm_node_raises
           ELSE extracted(fields_from_payload(safe_json_loads(text)),
                          extraction_confidence_of(safe_json_loads(text)))
    BY <1>8 DEF extract
  <2>2. error' = error
    BY <2>1, RaisesFacts DEF extracted
  <2>3. QED
    BY <1>4, <1>8, <2>2 DEF extract
<1>9. CASE (guardrail_node \/ validator_node \/ router_node
              \/ state_to_result \/ recursion_error) /\ UNCHANGED llm_vars
  BY <1>4, <1>9 DEF guardrail_node, validator_node, router_node, llm_vars,
                    state_to_result, recursion_error, Raised, agent_state
<1>10. CASE (Stopped /\ UNCHANGED llm_vars) \/ UNCHANGED all_vars
  BY <1>4, <1>10 DEF Stopped, all_vars, llm_vars, vars, agent_state
<1>11. QED
  BY <1>1, <1>2, <1>3, <1>5, <1>6, <1>7, <1>8, <1>9, <1>10
  DEF LlmNext, LlmStep

(* A run fails for an LLMError only when nothing was left to try, for      *)
(* every chain of models and every order of refusals (_generate_json).     *)
THEOREM FailureIsDeservedHolds ==
    ClientsCovered => (LlmSpec => []FailureIsDeserved)
<1>1. LlmInit => FailureIsDeserved
  BY DEF LlmInit, Init, FailureIsDeserved
<1>2. QED
  BY <1>1, ClientCorrect, FailureStep, PTL DEF LlmSpec

-----------------------------------------------------------------------------
(* The budget.  The requests of a run are counted against the calls that   *)
(* ended, each of which asked no model twice, and against the refusals     *)
(* that the open call has had so far.                                      *)

(* The calls of a run that have come to an end.                            *)
Answered == IF node \in {"guardrails", "classifier"} THEN 0 ELSE 1 + retries

(* As long as no call failed: each call that ended asked no model twice,   *)
(* and of the open one each refusal is a request.                          *)
SpentInv ==
    error = "none" =>
        /\ node # "stopped" =>
              calls <= Cardinality(ModelNames) * Answered + Len(call.answers)
        /\ calls <= Cardinality(ModelNames) * (1 + AttemptBudget)

(* One more call asks for one more chain at most. *)
LEMMA Budgets ==
    \A c, a, b \in Nat : /\ a <= b => c * a <= c * b
                        /\ c * (a + 1) = c * a + c
                        /\ c * a \in Nat
<1>1. TAKE c, a, b \in Nat
<1>2. ASSUME a <= b PROVE c * a <= c * b
  <2>1. c * b = c * a + c * (b - a)
    OBVIOUS
  <2>2. b - a \in Nat
    BY <1>2
  <2>3. c * (b - a) \in Nat /\ c * a \in Nat
    BY <2>2
  <2>4. QED
    BY <2>1, <2>3
<1>3. QED
  BY <1>2

(* Every step stays within the budget. *)
LEMMA SpentStep ==
    ASSUME RunInv, ClientInv, SpentInv, [LlmNext]_all_vars
    PROVE  SpentInv'
<1> DEFINE C == Cardinality(ModelNames)
           A == AttemptBudget
           k == Len(call.answers)
<1>0. /\ C \in Nat /\ A \in Nat /\ A >= 1 /\ k \in Nat /\ k <= C
      /\ Len(chain) = C
      /\ calls \in Nat /\ retries \in Nat
      /\ Answered \in Nat
  BY ChainFacts, BudgetFacts DEF RunInv, TypeOK, ClientInv, Answered
<1>1. /\ error = "none" /\ node # "stopped" => calls <= C * Answered + k
      /\ error = "none" => calls <= C * (1 + A)
  BY DEF SpentInv
<1>2. ASSUME error' = error, settings' = settings,
             calls' <= C * (1 + A) \/ error # "none",
             \/ node' = "stopped"
             \/ calls' <= C * Answered' + Len(call'.answers)
             \/ error # "none"
      PROVE  SpentInv'
  BY <1>2 DEF SpentInv, ModelNames
<1>3. CASE mock_client
  <2>1. /\ calls = 0 /\ UNCHANGED llm_vars
        /\ error' = error /\ retries' \in Nat
    BY <1>0, <1>3 DEF mock_client, classified, extracted, ClientInv
  <2>2. Answered' \in Nat /\ 1 + A \in Nat
    <3>1. retries' \in Nat
      BY <2>1
    <3>2. Answered' = 0 \/ Answered' = 1 + retries'
      BY DEF Answered
    <3> HIDE DEF A
    <3>3. QED
      BY <1>0, <3>1, <3>2
  <2> HIDE DEF C, A
  <2>3. C * Answered' \in Nat /\ C * (1 + A) \in Nat
    BY <1>0, <2>2, Budgets
  <2>4. calls' = 0 /\ Len(call'.answers) = k /\ settings' = settings
    BY <2>1 DEF llm_vars
  <2>5. QED
    BY <1>0, <1>2, <2>1, <2>3, <2>4
<1>4. CASE client_missing \/ (state_to_result /\ UNCHANGED llm_vars)
           \/ (recursion_error /\ UNCHANGED llm_vars)
  <2>1. UNCHANGED <<error, settings, calls>> /\ node' = "stopped"
    BY <1>4 DEF client_missing, state_to_result, recursion_error, Raised,
                llm_node_raises, agent_state, llm_vars
  <2>2. QED
    BY <1>1, <1>2, <2>1
<1>5. CASE read_part
  <2>1. /\ UNCHANGED <<error, settings, calls, node, retries>>
        /\ call' = [open |-> TRUE, answers |-> <<>>]
        /\ ~call.open /\ node # "stopped"
    BY <1>5 DEF read_part, Calling, vars, agent_state, In
  <2>2. k = 0 /\ Len(call'.answers) = 0
    BY <2>1 DEF ClientInv
  <2>3. Answered' = Answered
    BY <2>1 DEF Answered
  <2> HIDE DEF C, A, k
  <2>4. QED
    BY <1>1, <1>2, <2>1, <2>2, <2>3
<1>6. CASE fail_over
  <2>1. PICK code \in ErrorCodes \cap FAILOVER_CODES :
           call' = [call EXCEPT !.answers = Append(@, code)]
    BY <1>6 DEF fail_over
  <2>2. /\ UNCHANGED <<error, settings, node, retries>>
        /\ calls' = calls + 1 /\ k < Len(chain)
        /\ node \in {"classifier", "extractor"}
    BY <1>6 DEF fail_over, Asking, vars, agent_state, ClientInv, In
  <2>3. Len(call'.answers) = k + 1
    <3>1. PICK o, answers : call = [open |-> o, answers |-> answers]
      BY DEF ClientInv
    <3>2. answers \in Seq(ErrorCodes) /\ call.answers = answers
      BY <3>1 DEF ClientInv
    <3>3. call'.answers = Append(answers, code)
      BY <2>1, <3>1
    <3>4. QED
      BY <3>2, <3>3
  <2>4. Answered' = Answered
    BY <2>2 DEF Answered
  <2>5. error = "none" => Answered <= A
    BY <1>0, <2>2 DEF RunInv, LoopInv, Answered
  <2> HIDE DEF C, A, k
  <2>6. error = "none" => calls' <= C * Answered' + Len(call'.answers)
    BY <1>0, <1>1, <2>2, <2>3, <2>4
  <2>7. error = "none" => calls' <= C * (1 + A)
    <3>1. error = "none" => C * Answered <= C * A
      BY <1>0, <2>5, Budgets
    <3>2. C * (A + 1) = C * A + C /\ C * A \in Nat /\ C * Answered \in Nat
      BY <1>0, Budgets
    <3>3. QED
      BY <1>0, <1>1, <2>2, <3>1, <3>2
  <2>8. QED
    BY <1>2, <2>2, <2>6, <2>7
<1>7. CASE read_part_fails \/ abort \/ exhausted
  <2>1. error' # "none"
    BY <1>7, LlmErrorFacts DEF read_part_fails, abort, exhausted
  <2>2. QED
    BY <2>1 DEF SpentInv
<1>8. CASE classify \/ extract
  <2>1. /\ calls' = calls + 1 /\ k < Len(chain) /\ settings' = settings
        /\ call' = Idle /\ node \in {"classifier", "extractor"}
    BY <1>8 DEF classify, extract, Asking, In
  <2>2. /\ error' = error
        /\ \/ node' = "stopped"
           \/ node = "classifier" /\ node' = "extractor" /\ retries' = retries
           \/ node = "extractor" /\ node' = "validator"
                 /\ retries' = retries + 1
    <3>1. CASE classify
      <4>1. PICK text \in ClassifyTexts :
               IF ConfidenceRaises(safe_json_loads(text))
               THEN llm_node_raises
               ELSE classified(
                       classification_from_payload(safe_json_loads(text)))
        BY <3>1 DEF classify
      <4>2. QED
        BY <3>1, <4>1, RaisesFacts DEF classify, classified, In
    <3>2. CASE extract
      <4>1. PICK text \in ExtractTexts[document_type] :
               IF ConfidenceRaises(safe_json_loads(text))
               THEN llm_node_raises
               ELSE extracted(fields_from_payload(safe_json_loads(text)),
                              extraction_confidence_of(safe_json_loads(text)))
        BY <3>2 DEF extract
      <4>2. QED
        BY <3>2, <4>1, RaisesFacts DEF extract, extracted, In
    <3>3. QED
      BY <1>8, <3>1, <3>2
  <2>3. Answered <= A
    BY <1>0, <2>1 DEF RunInv, LoopInv, Answered
  <2>4. Len(call'.answers) = 0
    BY <2>1 DEF Idle
  <2>5. node' = "stopped" \/ (Answered' \in Nat /\ Answered' >= Answered + 1)
    BY <1>0, <2>2 DEF Answered
  <2> HIDE DEF C, A, k
  <2>6. error = "none" => calls' <= C * (Answered + 1)
    <3>1. C * (Answered + 1) = C * Answered + C /\ C * Answered \in Nat
      BY <1>0, Budgets
    <3>2. QED
      BY <1>0, <1>1, <2>1, <3>1
  <2>7. C * (Answered + 1) <= C * (1 + A)
    BY <1>0, <2>3, Budgets
  <2>8. node' = "stopped" \/ C * (Answered + 1) <= C * Answered'
    BY <1>0, <2>5, Budgets
  <2>9. /\ C * (Answered + 1) \in Nat /\ C * (1 + A) \in Nat
        /\ node' = "stopped" \/ C * Answered' \in Nat
    BY <1>0, <2>5, Budgets
  <2>10. calls' \in Nat
    BY <1>0, <2>1
  <2>11. QED
    BY <1>2, <2>1, <2>2, <2>4, <2>6, <2>7, <2>8, <2>9, <2>10
<1>9. CASE (guardrail_node \/ validator_node \/ router_node)
           /\ UNCHANGED llm_vars
  <2>1. /\ UNCHANGED <<error, retries, settings, call, calls>>
        /\ node # "stopped"
        /\ \/ node = "guardrails" /\ node' = "classifier"
           \/ /\ node \in {"validator", "router"}
              /\ node' \in {"extractor", "router", "END"}
    BY <1>9, RetryTargets
    DEF guardrail_node, validator_node, router_node, Run, llm_vars
  <2>2. Answered' = Answered
    BY <2>1 DEF Answered
  <2> HIDE DEF C, A, k
  <2>3. QED
    BY <1>1, <1>2, <2>1, <2>2 DEF k
<1>10. CASE (Stopped /\ UNCHANGED llm_vars) \/ UNCHANGED all_vars
  <2>1. UNCHANGED all_vars
    BY <1>10 DEF Stopped, all_vars
  <2>2. QED
    BY <2>1 DEF all_vars, llm_vars, vars, agent_state, SpentInv, Answered,
                ModelNames
<1>11. QED
  BY <1>3, <1>4, <1>5, <1>6, <1>7, <1>8, <1>9, <1>10 DEF LlmNext, LlmStep

(* What a document may cost is bounded, for every chain of models and      *)
(* every number of retries (_generate_json under needs_retry).             *)
THEOREM ServiceCallBudgetHolds ==
    ClientsCovered => (LlmSpec => []ServiceCallBudget)
<1>1. LlmInit => SpentInv
  <2> SUFFICES ASSUME LlmInit PROVE SpentInv
    OBVIOUS
  <2>1. /\ calls = 0 /\ node = "guardrails" /\ settings \in SettingsSet
        /\ call = Idle
    BY DEF LlmInit, Init
  <2>2. Cardinality(ModelNames) \in Nat
    BY <2>1, ChainFacts
  <2>3. Len(call.answers) = 0 /\ Answered = 0
    BY <2>1 DEF Idle, Answered
  <2>4. Cardinality(ModelNames) * (1 + AttemptBudget) \in Nat
    BY <2>2, BudgetFacts, Budgets
  <2>5. Cardinality(ModelNames) * 0 \in Nat
    BY <2>2, Budgets
  <2>6. QED
    BY <2>1, <2>3, <2>4, <2>5 DEF SpentInv
<1>2. ClientInv /\ SpentInv => ServiceCallBudget
  BY DEF ClientInv, SpentInv, ServiceCallBudget
<1>3. QED
  BY <1>1, <1>2, RunInvKept, ClientCorrect, SpentStep, PTL DEF LlmSpec

-----------------------------------------------------------------------------
(* Approvals.  What the router sees of the classification is tied to the   *)
(* answer it was read from, and what it sees of the fields to the last     *)
(* answer that was understood, by AnswersInv.                              *)

(* A type that is known is the one the model named, with the confidence it *)
(* gave; an exception comes before the decision.                           *)
NamedInv ==
    /\ node \in {"guardrails", "classifier"} => document_type = "unknown"
    /\ result.error = "exception" => node = "stopped" /\ route = "none"
    /\ ~use_mock_llm(settings) /\ document_type # "unknown" =>
          /\ "document_type" \in DOMAIN heard.classify
          /\ heard.classify["document_type"] = document_type
          /\ classification_confidence = ConfidenceOf(heard.classify, 0)

(* A type other than UNKNOWN was read from the answer. *)
LEMMA NamedType ==
    ASSUME NEW payload,
           classification_from_payload(payload).document_type # "unknown"
    PROVE  /\ "document_type" \in DOMAIN payload
           /\ payload["document_type"]
                 = classification_from_payload(payload).document_type
BY DEF classification_from_payload

(* Every step keeps the classification that of an answer. *)
LEMMA NamedStep ==
    ASSUME RunInv, AnswersInv, NamedInv, [LlmNext]_all_vars
    PROVE  NamedInv'
<1>0. /\ node \in {"classifier", "extractor"} => route = "none"
      /\ error \in {"none", "classification_failed", "extraction_failed"}
      /\ heard = [classify |-> heard.classify, extract |-> heard.extract]
  BY DEF RunInv, DataInv, Decided, AnswersInv
<1>1. ASSUME UNCHANGED <<settings, heard, document_type,
                         classification_confidence, route>>,
             \/ node' = "stopped" /\ result'.error # "exception"
             \/ node' = "stopped" /\ route = "none"
             \/ node' = "classifier" /\ node = "guardrails"
                   /\ result' = result
             \/ node' \in {"extractor", "validator", "router"}
                   /\ node # "stopped" /\ result' = result
      PROVE  NamedInv'
  BY <1>1 DEF NamedInv
<1>2. CASE mock_client
  <2>1. /\ settings' = settings /\ use_mock_llm(settings)
        /\ node # "stopped" /\ node' \in {"extractor", "validator"}
        /\ result' = result
    BY <1>2 DEF mock_client, llm_vars, classified, extracted, Run, In
  <2>2. QED
    BY <2>1 DEF NamedInv
<1>3. CASE client_missing
  <2>1. /\ UNCHANGED <<settings, heard, document_type,
                       classification_confidence, route>>
        /\ node \in {"classifier", "extractor"} /\ node' = "stopped"
    BY <1>3 DEF client_missing, llm_node_raises, Raised, agent_state,
                llm_vars
  <2>2. QED
    BY <1>0, <1>1, <2>1
<1>4. CASE read_part \/ fail_over
  <2>1. UNCHANGED <<vars, settings, heard>>
    BY <1>4 DEF read_part, fail_over
  <2>2. QED
    BY <2>1 DEF vars, agent_state, NamedInv
<1>5. CASE read_part_fails \/ abort \/ exhausted
  <2>1. /\ UNCHANGED <<settings, heard, document_type,
                       classification_confidence, route, result>>
        /\ node # "stopped" /\ node' \in {"extractor", "validator"}
    BY <1>5, LlmErrorFacts DEF read_part_fails, abort, exhausted, In
  <2>2. QED
    BY <1>1, <2>1
<1>6. CASE classify
  <2>1. PICK text \in ClassifyTexts :
           /\ heard' = [heard EXCEPT !.classify = safe_json_loads(text)]
           /\ IF ConfidenceRaises(safe_json_loads(text))
              THEN llm_node_raises
              ELSE classified(
                      classification_from_payload(safe_json_loads(text)))
    BY <1>6 DEF classify
  <2> DEFINE payload == safe_json_loads(text)
             c == classification_from_payload(payload)
  <2>2. /\ heard' = [classify |-> payload, extract |-> heard.extract]
        /\ settings' = settings /\ node = "classifier"
    BY <1>0, <1>6, <2>1, HeardFacts DEF classify, In
  <2>3. document_type = "unknown" /\ result.error # "exception"
    BY <2>2 DEF NamedInv
  <2>4. CASE ConfidenceRaises(payload)
    <3>1. /\ UNCHANGED <<document_type, route>> /\ node' = "stopped"
      BY <2>1, <2>4 DEF llm_node_raises, Raised, agent_state
    <3>2. QED
      BY <1>0, <2>2, <2>3, <3>1 DEF NamedInv
  <2>5. CASE ~ConfidenceRaises(payload)
    <3>1. classified(c)
      BY <2>1, <2>5
    <3>2. /\ document_type' = c.document_type
          /\ classification_confidence' = c.confidence
          /\ node' = "extractor" /\ result' = result
      BY <3>1 DEF classified, Run
    <3>3. c.confidence = ConfidenceOf(payload, 0)
      BY DEF classification_from_payload
    <3>4. c.document_type # "unknown" =>
             /\ "document_type" \in DOMAIN payload
             /\ payload["document_type"] = c.document_type
      BY NamedType
    <3> HIDE DEF payload, c
    <3>5. QED
      BY <2>2, <2>3, <3>2, <3>3, <3>4 DEF NamedInv
  <2>6. QED
    BY <2>4, <2>5
<1>7. CASE extract
  <2>1. PICK text \in ExtractTexts[document_type] :
           /\ heard' = [heard EXCEPT !.extract = safe_json_loads(text)]
           /\ IF ConfidenceRaises(safe_json_loads(text)) THEN llm_node_raises
              ELSE extracted(fields_from_payload(safe_json_loads(text)),
                             extraction_confidence_of(safe_json_loads(text)))
    BY <1>7 DEF extract
  <2>2. /\ heard'.classify = heard.classify
        /\ settings' = settings /\ node = "extractor"
    BY <1>0, <1>7, <2>1, HeardFacts DEF extract, In
  <2>3. /\ UNCHANGED <<document_type, classification_confidence, route>>
        /\ \/ node' = "stopped"
           \/ node' = "validator" /\ result' = result
    BY <2>1 DEF llm_node_raises, Raised, agent_state, extracted, Run
  <2>4. QED
    BY <1>0, <2>2, <2>3 DEF NamedInv
<1>8. CASE (guardrail_node \/ validator_node) /\ UNCHANGED llm_vars
  <2>1. /\ UNCHANGED <<settings, heard, document_type,
                       classification_confidence, route, result>>
        /\ \/ node = "guardrails" /\ node' = "classifier"
           \/ node = "validator" /\ node' \in {"extractor", "router"}
    BY <1>8, RetryTargets DEF guardrail_node, validator_node, Run, llm_vars
  <2>2. QED
    BY <1>1, <2>1
<1>9. CASE router_node /\ UNCHANGED llm_vars
  <2>1. /\ UNCHANGED <<settings, heard, document_type,
                       classification_confidence, result>>
        /\ node = "router" /\ node' = "END"
    BY <1>9 DEF router_node, Run, llm_vars
  <2>2. QED
    BY <2>1 DEF NamedInv
<1>10. CASE (state_to_result \/ recursion_error) /\ UNCHANGED llm_vars
  <2>1. /\ UNCHANGED <<settings, heard, document_type,
                       classification_confidence, route>>
        /\ node' = "stopped" /\ result'.error \in {error, "recursion_limit"}
    BY <1>10 DEF state_to_result, recursion_error, Raised, agent_state,
                 llm_vars
  <2>2. QED
    BY <1>0, <1>1, <2>1
<1>11. CASE (Stopped /\ UNCHANGED llm_vars) \/ UNCHANGED all_vars
  BY <1>11 DEF Stopped, all_vars, llm_vars, vars, agent_state, NamedInv
<1>12. QED
  BY <1>2, <1>3, <1>4, <1>5, <1>6, <1>7, <1>8, <1>9, <1>10, <1>11
  DEF LlmNext, LlmStep

(* A required field that is there was given, under its name or its alias. *)
LEMMA GivenField ==
    ASSUME NEW payload, NEW n \in DOMAIN EmptyFields,
           NEW v, v # EmptyFields[n],
           v = IF Given(payload, n) # EmptyFields[n] THEN Given(payload, n)
               ELSE Given(payload, Alias(n))
    PROVE  \E m \in {n, Alias(n)} : Given(payload, m) # EmptyFields[m]
<1>1. EmptyFields[Alias(n)] = EmptyFields[n]
  BY DEF Alias, EmptyFields
<1>2. QED
  BY <1>1

(* A confidence that is not low was given with the answer, or stands there *)
(* for an answer that gave none and a default that is enough.              *)
LEMMA VouchedFor ==
    ASSUME NEW payload, NEW default \in Int,
           ConfidenceOf(payload, default) \in Confidences,
           ~LowConfidence(ConfidenceOf(payload, default))
    PROVE  Vouched(payload) \/ (Silent(payload) /\ MinConfidence <= default)
<1> DEFINE reported == ConfidenceOf(payload, default)
<1>1. reported \in Int \cup {NaN} /\ reported # None
  BY ConfidencesAssumption, NoneAssumption, NaNAssumption
<1>2. reported = NaN \/ reported >= MinConfidence
  BY <1>1, MinConfidenceAssumption DEF LowConfidence, ConfidenceOr
<1>3. CASE /\ "confidence" \in DOMAIN payload
           /\ payload["confidence"] \notin {None, 0}
  <2>1. reported = payload["confidence"]
    BY <1>3 DEF ConfidenceOf
  <2>2. QED
    BY <1>2, <1>3, <2>1 DEF Vouched
<1>4. CASE ~(/\ "confidence" \in DOMAIN payload
             /\ payload["confidence"] \notin {None, 0})
  <2>1. reported = default /\ default # NaN
    BY <1>4, NaNAssumption DEF ConfidenceOf
  <2>2. QED
    BY <1>2, <1>4, <2>1, MinConfidenceAssumption DEF Silent
<1>5. QED
  BY <1>3, <1>4

(* What an approval rests on, for every chain, all texts and all rules:    *)
(* the type and the required fields are the answers', and so is the        *)
(* confidence, except for a threshold of zero, an extraction whose default *)
(* of 0.7 is enough and the last attempt of the budget (llm.py under       *)
(* needs_retry and route_decision).                                        *)
THEOREM ApprovalRestsOnAnswersHolds ==
    ClientsCovered => (LlmSpec => []ApprovalRestsOnAnswers)
<1>1. LlmInit => NamedInv
  BY DEF LlmInit, Init, NamedInv, NoResult
<1>2. RunInv /\ AnswersInv /\ NamedInv /\ SalvageKeepsGoodFields
         => ApprovalRestsOnAnswers
  <2> SUFFICES ASSUME RunInv, AnswersInv, NamedInv, SalvageKeepsGoodFields,
                      route = "auto_approve", ~use_mock_llm(settings)
               PROVE  /\ "document_type" \in DOMAIN heard.classify
                      /\ heard.classify["document_type"] = document_type
                      /\ MinConfidence > 0 => Vouched(heard.classify)
                      /\ \A n \in required_fields(get_rules, document_type) :
                            \E m \in {n, Alias(n)} :
                               Given(heard.extract, m) # EmptyFields[m]
                      /\ \/ Vouched(heard.extract)
                         \/ Silent(heard.extract) /\ MinConfidence <= 70
                         \/ extract_calls = AttemptBudget
    BY DEF ApprovalRestsOnAnswers
  <2>1. /\ document_type # "unknown"
        /\ error = "none"
        /\ ~LowConfidence(classification_confidence)
        /\ SoundFields(document_type, fields)
        /\ LowConfidence(extraction_confidence)
              => extract_calls = AttemptBudget
    BY RunMeans DEF ApprovalIsSound, WeakApprovalIsLastResort
  <2>2. /\ "document_type" \in DOMAIN heard.classify
        /\ heard.classify["document_type"] = document_type
        /\ classification_confidence = ConfidenceOf(heard.classify, 0)
        /\ result.error # "exception"
    BY <2>1 DEF NamedInv
  <2>3. /\ classification_confidence \in Confidences \cup {None}
        /\ extraction_confidence \in Confidences \cup {None}
        /\ retries \in Nat
    BY DEF RunInv, TypeOK
  <2>4. MinConfidence > 0 => Vouched(heard.classify)
    <3>1. ConfidenceOf(heard.classify, 0) # None
      BY NoneAssumption DEF ConfidenceOf
    <3>2. Vouched(heard.classify) \/ MinConfidence <= 0
      BY <2>1, <2>2, <2>3, <3>1, VouchedFor
    <3>3. QED
      BY <3>2, MinConfidenceAssumption
  <2>5. ASSUME NEW n \in required_fields(get_rules, document_type)
        PROVE  \E m \in {n, Alias(n)} :
                  Given(heard.extract, m) # EmptyFields[m]
    <3>1. ~is_empty(fields, n)
      BY <2>1 DEF SoundFields
    <3>2. DOMAIN fields = DOMAIN EmptyFields
      <4>1. fields = sync_aliases(Plain(heard.extract))
        BY FieldsAreSalvaged DEF AnswersInv, NamedInv
      <4>2. QED
        BY <4>1 DEF sync_aliases, Plain
    <3>3. n \in DOMAIN EmptyFields
      BY <3>1, <3>2 DEF is_empty, FieldValue, ListFields, EmptyFields
    <3>4. fields[n] # EmptyFields[n]
      BY <3>1, <3>2, <3>3 DEF is_empty, FieldValue, ListFields, EmptyFields
    <3>5. fields[n] = IF Given(heard.extract, n) # EmptyFields[n]
                      THEN Given(heard.extract, n)
                      ELSE Given(heard.extract, Alias(n))
      BY <3>3 DEF SalvageKeepsGoodFields, NamedInv
    <3>6. QED
      BY <3>3, <3>4, <3>5, GivenField
  <2>6. CASE LowConfidence(extraction_confidence)
    BY <2>1, <2>2, <2>4, <2>5, <2>6
  <2>7. CASE ~LowConfidence(extraction_confidence)
    <3>1. extraction_confidence # None
      BY <2>1, <2>3 DEF RunInv, ResortInv
    <3>2. extraction_confidence = ConfidenceOf(heard.extract, 70)
      BY <2>2, <3>1 DEF AnswersInv, extraction_confidence_of
    <3>3. Vouched(heard.extract) \/ (Silent(heard.extract)
                                        /\ MinConfidence <= 70)
      BY <2>3, <2>7, <3>1, <3>2, VouchedFor
    <3>4. QED
      BY <2>2, <2>4, <2>5, <3>3
  <2>8. QED
    BY <2>6, <2>7
<1>3. QED
  BY <1>1, <1>2, RunInvKept, AnswersCorrect, SalvageKeepsGoodFieldsHolds,
     NamedStep, PTL DEF LlmSpec

-----------------------------------------------------------------------------
(* What is proved of Pipeline with a model left to chance holds of the     *)
(* pipeline with its clients: the retry budget, the rejection of           *)
(* injections, the soundness of an approval, the outcome of the run, and   *)
(* that no finding and no error is lost (run_pipeline over llm.py).        *)
THEOREM ClientsKeepPipelineSafe ==
    ClientsCovered =>
       (LlmSpec => /\ [](/\ RetryBudget /\ WeakApprovalIsLastResort
                         /\ OnlyFailuresExhaustSteps
                         /\ InjectionAlwaysRejected /\ IssuesMatchFields
                         /\ PiiNeverRoutes /\ ApprovalIsSound
                         /\ ResultReflectsRun)
                   /\ FindingsNeverLost /\ ErrorSticks)
<1>1. RunInv /\ [Next]_vars =>
         /\ security_findings \subseteq security_findings'
         /\ error # "none" => error' # "none"
  BY StepKeepsFindings, StepKeepsError DEF RunInv
<1>2. QED
  BY <1>1, RunInvKept, ImplementsPipelineHolds, RunMeans, PTL
  DEF ImplementsPipeline, FindingsNeverLost, ErrorSticks

=============================================================================
