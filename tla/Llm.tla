--------------------------------- MODULE Llm ---------------------------------
(***************************************************************************)
(* llm.py: which client and which models the settings name, how the text   *)
(* of an answer becomes an object, and how an object becomes a             *)
(* classification or a set of fields.                                      *)
(*                                                                         *)
(* A JSON object is a function from its keys to their values, of which we  *)
(* tell apart: null (None), what validates for the key, and what does not  *)
(* (Malformed: "12,5" for an amount, a string for a list, a list with one  *)
(* bad entry).  The text of an answer is a sequence of pieces: an object,  *)
(* or Prose that has no brace, or Braces that are not one JSON object.     *)
(***************************************************************************)
EXTENDS Models

CONSTANTS
    Malformed,   \* a JSON value its field does not accept
    Prose,       \* text without a brace, such as a code fence
    Braces       \* text with braces that is no JSON object

(* Settings.use_mock_llm: mock mode is forced on without an API key. *)
use_mock_llm(settings) == settings.mock_llm \/ ~settings.api_key

(* Mutant of gemini_model_chain: every configured name is kept. *)
gemini_model_chain_repeats(settings) ==
    <<settings.gemini_model>>
        \o SelectSeq(settings.fallbacks, LAMBDA m : m # Empty)

(* Settings.gemini_model_chain: the primary model, then the fallbacks that *)
(* are not blank, each name at its first place only.                       *)
gemini_model_chain(settings) ==
    LET upto[n \in 0..Len(settings.fallbacks)] ==
          IF n = 0 THEN <<settings.gemini_model>>
          ELSE LET m == settings.fallbacks[n]
                   seen == {upto[n - 1][i] : i \in DOMAIN upto[n - 1]}
               IN IF m \in seen \cup {Empty} THEN upto[n - 1]
                  ELSE Append(upto[n - 1], m)
    IN upto[Len(settings.fallbacks)]

(* Mutant of FAILOVER_CODES: an overloaded model ends the call. *)
FAILOVER_CODES_quota == {"429"}

(* APIError codes that make the client turn to the next model. *)
FAILOVER_CODES == {"429", "503"}

-----------------------------------------------------------------------------
(* From the text of an answer to an object. *)

EmptyPayload == [k \in {} |-> None]

(* _safe_json_loads: the span from the first opening to the last closing   *)
(* brace is parsed; what is not one object becomes the empty object.       *)
safe_json_loads(raw) ==
    LET span == SelectSeq(raw, LAMBDA piece : piece # Prose)
    IN IF Len(span) = 1 /\ span[1] # Braces THEN span[1] ELSE EmptyPayload

(* float(payload.get("confidence", default) or default) raises on what is  *)
(* Malformed; an absent, null or zero confidence is the default.  A NaN,   *)
(* of the literal that json.loads accepts or of the string "nan", is true  *)
(* and a float: it comes out as it went in.                                *)
ConfidenceRaises(payload) ==
    "confidence" \in DOMAIN payload /\ payload["confidence"] = Malformed

ConfidenceOf(payload, default) ==
    IF /\ "confidence" \in DOMAIN payload
       /\ payload["confidence"] \notin {None, 0}
    THEN payload["confidence"] ELSE default

(* _classification_from_payload: a type that is absent or not known is     *)
(* UNKNOWN, a confidence that is absent is 0.                              *)
classification_from_payload(payload) ==
    [document_type |->
        IF /\ "document_type" \in DOMAIN payload
           /\ payload["document_type"] \in DocumentTypes
        THEN payload["document_type"] ELSE "unknown",
     confidence |-> ConfidenceOf(payload, 0)]

-----------------------------------------------------------------------------
(* From an object to ExtractedFields. *)

Without(payload, keys) ==
    [k \in DOMAIN payload \ keys |-> payload[k]]

(* _NullTolerantModel: an explicit null for a field that is not Optional   *)
(* is dropped, so that the default applies.                                *)
drop_nulls_for_nonoptional(payload) ==
    Without(payload, {k \in ListFields \cap DOMAIN payload :
                         payload[k] = None})

(* The top-level keys a ValidationError is about; keys that are no field   *)
(* of the schema are ignored by it.                                        *)
bad_keys(payload) ==
    {k \in DOMAIN drop_nulls_for_nonoptional(payload)
              \cap DOMAIN EmptyFields : payload[k] = Malformed}

(* ExtractedFields.model_validate of an object without bad keys. *)
model_validate(payload) ==
    LET cleaned == drop_nulls_for_nonoptional(payload)
    IN sync_aliases([n \in DOMAIN EmptyFields |->
                        IF n \in DOMAIN cleaned THEN cleaned[n]
                        ELSE EmptyFields[n]])

(* Mutant of fields_from_payload: one bad field discards all of them. *)
fields_from_payload_discards(payload) ==
    LET given == Without(payload, {"confidence"})
    IN IF bad_keys(given) = {} THEN model_validate(given) ELSE EmptyFields

(* _fields_from_payload: the object as it is; failing that, without its    *)
(* bad keys; failing that, no field but the raw text in extra.             *)
fields_from_payload(payload) ==
    LET given    == Without(payload, {"confidence"})
        salvaged == Without(given, bad_keys(given))
    IN IF bad_keys(given) = {} THEN model_validate(given)
       ELSE IF bad_keys(salvaged) = {} THEN model_validate(salvaged)
       ELSE EmptyFields

(* Mutant of extraction_confidence_of: silence counts as sure. *)
extraction_confidence_of_sure(payload) == ConfidenceOf(payload, 90)

(* The other half of its answer: the confidence the model claimed. *)
extraction_confidence_of(payload) == ConfidenceOf(payload, 70)

-----------------------------------------------------------------------------
(* MockLLMClient.  Of a document, keywords[t] is how many of the keywords  *)
(* of type t occur in it, and matches[t] what the patterns of t find.      *)

MockTypes == <<"invoice", "contract", "resume", "id_document">>

(* classify: the first type with the most hits. *)
mock_classify(doc) ==
    LET hits(i) == doc.keywords[MockTypes[i]]
        best == CHOOSE i \in 1..4 : /\ \A k \in 1..4 : hits(k) <= hits(i)
                                    /\ \A k \in 1..(i - 1) : hits(k) < hits(i)
        sure == 50 + 15 * hits(best)
    IN IF hits(best) = 0 THEN [document_type |-> "unknown", confidence |-> 30]
       ELSE [document_type |-> MockTypes[best],
             confidence |-> IF sure < 99 THEN sure ELSE 99]

(* extract: what the patterns find, with the aliases filled in by hand. *)
mock_fields(doc, doc_type) ==
    CASE doc_type = "unknown"  -> EmptyFields
      [] doc_type = "invoice"  ->
            [doc.matches["invoice"] EXCEPT !.grand_total =
                doc.matches["invoice"].total_amount]
      [] doc_type = "contract" ->
            [doc.matches["contract"] EXCEPT !.party_names =
                doc.matches["contract"].parties]
      [] doc_type = "resume"   ->
            [doc.matches["resume"] EXCEPT !.full_name =
                doc.matches["resume"].candidate_name]
      [] OTHER -> doc.matches[doc_type]

(* extract: the key field of the type decides how sure the client is. *)
mock_confidence(doc, doc_type) ==
    LET f == mock_fields(doc, doc_type)
    IN CASE doc_type = "unknown"     -> 60
         [] doc_type = "invoice"     ->
               IF f.total_amount # None THEN 85 ELSE 50
         [] doc_type = "contract"    ->
               IF f.party_names # <<>> THEN 80 ELSE 50
         [] doc_type = "resume"      -> IF Truthy(f.email) THEN 80 ELSE 50
         [] OTHER                    -> IF Truthy(f.id_number) THEN 80 ELSE 50

=============================================================================
