----------------------------- MODULE Evaluation -----------------------------
(***************************************************************************)
(* The evaluation harness of eval/: the golden dataset is read, each       *)
(* example goes through the pipeline, and the outcomes are scored twice    *)
(* over: by the local runner, whose exit code is the regression gate of    *)
(* the continuous integration, and by a LangSmith experiment over a copy   *)
(* of the dataset that is uploaded once and never refreshed.               *)
(*                                                                         *)
(* A line of the file is a record (an EvalExample), or the model value of  *)
(* a line of another kind.  Numbers are thousandths; a ratio is a pair     *)
(* <<numerator, denominator>>; thresholds are percentages.                 *)
(***************************************************************************)
EXTENDS Models, FiniteSets

CONSTANTS
    Malformed,        \* a line that is no JSON, or that misses a key
    NotAnObject,      \* a line of JSON that is not an object
    Folded,           \* Folded[s]: string s stripped and in lower case
    Lines,            \* the lines a dataset may hold
    MaxLines,         \* bound: the longest dataset
    Edits,            \* bound: the edits of the dataset after the start
    Outcomes,         \* what run_pipeline may return
    MinClassification, MinRouting, MinFieldF1   \* the three thresholds

ASSUME ThresholdsAssumption ==
    {MinClassification, MinRouting, MinFieldF1} \subseteq 1 .. 100
(* A label is about finitely many fields, and the router is the last node  *)
(* of the graph: a run that returns has a route.                           *)
ASSUME LinesAssumption ==
    \A line \in Lines \ {Blank, Malformed, NotAnObject} :
        line.expected_fields # None
            => IsFiniteSet(DOMAIN line.expected_fields)
ASSUME OutcomesAssumption == \A outcome \in Outcomes : outcome.route # None
ASSUME NoLabelAssumption == None \notin BOOLEAN
ASSUME MaxLinesAssumption == MaxLines \in Nat
ASSUME EditsAssumption == Edits \in Nat

VARIABLES
    file,      \* the lines of golden.jsonl
    edits,     \* the edits made so far
    remote,    \* LangSmith's copy: None, or a sequence of examples
    stage,     \* "idle", or what the program in progress does next
    examples,  \* the examples it has read
    pairs,     \* the examples it has run, each with its outcome
    exit       \* how it ended; "none" until it has

eval_vars == <<file, edits, remote, stage, examples, pairs, exit>>

-----------------------------------------------------------------------------
(* The scores *)

(* _norm: absent and blank alike, numbers to two decimals, text folded.    *)
norm(value) ==
    IF value \in {None, Empty, Blank} THEN Empty
    ELSE IF value \in DOMAIN Folded THEN Folded[value]
    ELSE (value + 5) \div 10

field_match(expected, actual) == norm(expected) = norm(actual)

(* A plausible bug: where nothing was measured, nothing is wrong.          *)
ratio_optimistic(n, d) == IF d = 0 THEN <<1, 1>> ELSE <<n, d>>

(* n / d if d else 0.0 *)
ratio(n, d) == IF d = 0 THEN <<0, 1>> ELSE <<n, d>>

below(r, percent) == 100 * r[1] < percent * r[2]

precision(s) == ratio(s.true_positive, s.true_positive + s.false_positive)
recall(s) == ratio(s.true_positive, s.true_positive + s.false_negative)

(* 2pr / (p + r) *)
f1(s) ==
    LET p == precision(s)
        r == recall(s)
    IN ratio(2 * p[1] * r[1], p[1] * r[2] + r[1] * p[2])

classification_accuracy(example, outcome) ==
    outcome.document_type = example.expected_type

routing_accuracy(example, outcome) ==
    IF example.expected_route = None THEN None
    ELSE outcome.route = example.expected_route

matched(example, outcome) ==
    {name \in DOMAIN example.expected_fields :
        field_match(example.expected_fields[name],
                    FieldValue(outcome.fields, name))}

field_extraction_metrics(example, outcome) ==
    [ true_positive  |-> Cardinality(matched(example, outcome)),
      false_positive |-> 0,
      false_negative |->
         Cardinality(DOMAIN example.expected_fields
                        \ matched(example, outcome)) ]

EvalReport ==
    [ n |-> 0, classification_correct |-> 0, routing_correct |-> 0,
      routing_total |-> 0, true_positive |-> 0, false_positive |-> 0,
      false_negative |-> 0 ]

One(b) == IF b THEN 1 ELSE 0

score_pair(report, pair) ==
    LET route_ok == routing_accuracy(pair.example, pair.outcome)
        fs == field_extraction_metrics(pair.example, pair.outcome)
    IN [ n |-> report.n + 1,
         classification_correct |->
            report.classification_correct
               + One(classification_accuracy(pair.example, pair.outcome)),
         routing_total   |-> report.routing_total + One(route_ok # None),
         routing_correct |->
            report.routing_correct + One(route_ok # None /\ route_ok = TRUE),
         true_positive   |-> report.true_positive + fs.true_positive,
         false_positive  |-> report.false_positive + fs.false_positive,
         false_negative  |-> report.false_negative + fs.false_negative ]

(* evaluate_all raises on labels whose expected_fields is null.            *)
Unscorable(ps) == \E i \in DOMAIN ps : ps[i].example.expected_fields = None

(* evaluate_all: one report, to which each pair in turn is added. *)
evaluate_all(ps) ==
    LET upto[n \in 0..Len(ps)] ==
          IF n = 0 THEN EvalReport ELSE score_pair(upto[n - 1], ps[n])
    IN upto[Len(ps)]

(* What main of runner.py compares with its thresholds.                    *)
gate_passes(report) ==
    /\ ~below(ratio(report.classification_correct, report.n),
              MinClassification)
    /\ ~below(ratio(report.routing_correct, report.routing_total), MinRouting)
    /\ ~below(f1(report), MinFieldF1)

(* A plausible bug: an example without a label is not marked down.         *)
routing_evaluator_lenient(outputs, reference) ==
    ratio(One(reference.expected_route \in {None, outputs.route}), 1)

(* The evaluators of langsmith_eval.py, each score in 0 .. 1.              *)
classification_evaluator(outputs, reference) ==
    ratio(One(outputs.document_type = reference.expected_type), 1)

routing_evaluator(outputs, reference) ==
    ratio(One(outputs.route = reference.expected_route), 1)

field_f1_evaluator(outputs, reference) ==
    IF \/ reference.expected_fields = None
       \/ DOMAIN reference.expected_fields = {}
    THEN <<1, 1>>
    ELSE ratio(Cardinality(matched(reference, outputs)),
               Cardinality(DOMAIN reference.expected_fields))

-----------------------------------------------------------------------------
(* The dataset *)

Skipped(line) == line \in {Blank, Malformed}

(* load_dataset: blank and malformed lines are left out, in order; a line  *)
(* that is JSON but no object is not caught and ends the program.          *)
load_dataset(lines) ==
    LET loaded[n \in 0..Len(lines)] ==
          IF n = 0 THEN <<>>
          ELSE IF Skipped(lines[n]) THEN loaded[n - 1]
          ELSE Append(loaded[n - 1], lines[n])
    IN loaded[Len(lines)]

Unloadable(lines) == \E k \in DOMAIN lines : lines[k] = NotAnObject

EvalInit ==
    /\ file \in UNION {[1..n -> Lines] : n \in 0..MaxLines}
    /\ edits = 0
    /\ remote = None
    /\ stage = "idle"
    /\ examples = <<>>
    /\ pairs = <<>>
    /\ exit = "none"

(* A maintainer changes a line of the dataset between two programs; what   *)
(* the last one printed is no longer looked at.                            *)
edit_line(k, line) ==
    /\ stage = "idle" /\ edits < Edits
    /\ file' = [file EXCEPT ![k] = line]
    /\ edits' = edits + 1
    /\ examples' = <<>> /\ pairs' = <<>> /\ exit' = "none"
    /\ UNCHANGED <<remote, stage>>

Ends(how) == stage' = "idle" /\ exit' = how

-----------------------------------------------------------------------------
(* python -m smartingest.eval.runner *)

run_evaluation ==
    /\ stage = "idle"
    /\ pairs' = <<>>
    /\ IF Unloadable(file)
       THEN examples' = <<>> /\ Ends("raised")
       ELSE /\ examples' = load_dataset(file)
            /\ stage' = "runner" /\ exit' = "none"
    /\ UNCHANGED <<file, edits, remote>>

Turn == Len(pairs) + 1

(* The next example goes through run_pipeline, which returns or raises;    *)
(* nothing catches the latter.                                             *)
run_example ==
    /\ stage = "runner" /\ Turn <= Len(examples)
    /\ \/ /\ \E outcome \in Outcomes :
                pairs' = Append(pairs, [example |-> examples[Turn],
                                        outcome |-> outcome])
          /\ UNCHANGED <<stage, exit>>
       \/ Ends("raised") /\ UNCHANGED pairs
    /\ UNCHANGED <<file, edits, remote, examples>>

(* evaluate_all, then the gate: exit code 0, or 1.                         *)
gate ==
    /\ stage = "runner" /\ Turn > Len(examples)
    /\ Ends(IF Unscorable(pairs) THEN "raised"
            ELSE IF gate_passes(evaluate_all(pairs)) THEN "passed"
            ELSE "failed")
    /\ UNCHANGED <<file, edits, remote, examples, pairs>>

-----------------------------------------------------------------------------
(* run_langsmith_eval *)

(* The dataset is uploaded only when LangSmith has none of that name; the  *)
(* examples follow in a second request, and if that one fails the dataset  *)
(* stays behind, empty.                                                    *)
run_langsmith_eval ==
    /\ stage = "idle"
    /\ pairs' = <<>>
    /\ \/ /\ Unloadable(file)
          /\ examples' = <<>> /\ Ends("raised") /\ UNCHANGED remote
       \/ /\ ~Unloadable(file)
          /\ remote' = IF remote = None THEN load_dataset(file) ELSE remote
          /\ examples' = remote'
          /\ stage' = "experiment" /\ exit' = "none"
       \/ /\ ~Unloadable(file)
          /\ remote = None
          /\ remote' = <<>> /\ examples' = <<>> /\ Ends("raised")
    /\ UNCHANGED <<file, edits>>

(* LangSmith calls the target on each of its examples; one whose run       *)
(* raises is recorded as an error and scores nothing.                      *)
pipeline_target ==
    /\ stage = "experiment" /\ examples # <<>>
    /\ examples' = Tail(examples)
    /\ \/ \E outcome \in Outcomes :
             pairs' = Append(pairs, [example |-> Head(examples),
                                     outcome |-> outcome])
       \/ UNCHANGED pairs
    /\ UNCHANGED <<file, edits, remote, stage, exit>>

experiment_ends ==
    /\ stage = "experiment" /\ examples = <<>>
    /\ Ends("measured")
    /\ UNCHANGED <<file, edits, remote, examples, pairs>>

EvalNext ==
    \/ \E k \in DOMAIN file : \E line \in Lines : edit_line(k, line)
    \/ run_evaluation \/ run_example \/ gate
    \/ run_langsmith_eval \/ pipeline_target \/ experiment_ends

EvalSpec == EvalInit /\ [][EvalNext]_eval_vars

-----------------------------------------------------------------------------
(* Properties *)

Labelled == {i \in DOMAIN pairs : pairs[i].example.expected_route # None}

Expected ==
    UNION {{<<i, name>> : name \in DOMAIN pairs[i].example.expected_fields} :
              i \in DOMAIN pairs}

Found ==
    {e \in Expected :
        field_match(pairs[e[1]].example.expected_fields[e[2]],
                    FieldValue(pairs[e[1]].outcome.fields, e[2]))}

AtLeast(percent, some, all) ==
    some # {} /\ 100 * Cardinality(some) >= percent * Cardinality(all)

(* The exit code of the runner means what it says: 0 exactly when every     *)
(* example of the file was run and, counted over the whole dataset, enough *)
(* types are right, enough of the labelled routes are right, and, since no *)
(* wrong value is ever a false positive, enough of the expected fields are *)
(* found for an F1 of the threshold.  Nothing that was not measured passes: *)
(* no example, no labelled route, no field found fails the gate.           *)
GateIsEarned ==
    exit \in {"passed", "failed"} =>
        (exit = "passed" <=>
            /\ Len(pairs) = Cardinality({k \in DOMAIN file :
                                  file[k] \notin {Blank, Malformed}})
            /\ AtLeast(MinClassification,
                       {i \in DOMAIN pairs : pairs[i].outcome.document_type
                                           = pairs[i].example.expected_type},
                       DOMAIN pairs)
            /\ AtLeast(MinRouting,
                       {i \in Labelled : pairs[i].outcome.route
                                       = pairs[i].example.expected_route},
                       Labelled)
            /\ Found # {}
            /\ Cardinality(Found) * (200 - MinFieldF1)
                  >= MinFieldF1 * Cardinality(Expected))

(* The two readings of one set of outcomes do not contradict each other: a *)
(* LangSmith experiment in which every evaluator gives every example full   *)
(* marks, over labels with some expected field and none of them null, is   *)
(* one the local gate would have passed.  An example without a route label *)
(* is left out by the one and marked down by the other, never waved        *)
(* through by both.                                                        *)
FullMarksPassTheGate ==
    /\ exit = "measured"
    /\ ~Unscorable(pairs)
    /\ Expected # {}
    /\ \A i \in DOMAIN pairs :
          LET reference == pairs[i].example
              outputs == pairs[i].outcome
          IN <<1, 1>> = classification_evaluator(outputs, reference)
             /\ <<1, 1>> = routing_evaluator(outputs, reference)
             /\ ~below(field_f1_evaluator(outputs, reference), 100)
    => gate_passes(evaluate_all(pairs))

=============================================================================
