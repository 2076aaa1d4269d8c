-------------------------- MODULE EvaluationProofs --------------------------
(***************************************************************************)
(* The regression gate means what it says, for every dataset, every number *)
(* of lines and of fields, every outcome of the pipeline and every set of  *)
(* thresholds; and it agrees with a LangSmith experiment that gives full   *)
(* marks.  Both rest on what the loops of load_dataset and evaluate_all    *)
(* compute, shown by induction over the index of the loop.                 *)
(***************************************************************************)
EXTENDS Evaluation, Counting

(* What a line that is neither skipped nor fatal holds. *)
Objects == Lines \ {Blank, Malformed, NotAnObject}

Pairs == [example : Objects, outcome : Outcomes]

-----------------------------------------------------------------------------
(* load_dataset *)

Kept(lines) == {k \in DOMAIN lines : ~Skipped(lines[k])}

(* The loop of load_dataset, turn by turn. *)
LEMMA LoadLoop ==
    ASSUME NEW lines \in Seq(Lines)
    PROVE  \E g \in [0..Len(lines) -> Seq(Lines)] :
              /\ load_dataset(lines) = g[Len(lines)]
              /\ g[0] = <<>>
              /\ \A n \in 1..Len(lines) :
                    g[n] = IF Skipped(lines[n]) THEN g[n - 1]
                           ELSE Append(g[n - 1], lines[n])
<1> DEFINE N == Len(lines)
           S == Seq(Lines)
           step == [x \in S \X (1..N) |->
                      IF Skipped(lines[x[2]]) THEN x[1]
                      ELSE Append(x[1], lines[x[2]])]
           body(g) == [n \in 0..N |->
                         IF n = 0 THEN <<>>
                         ELSE IF Skipped(lines[n]) THEN g[n - 1]
                         ELSE Append(g[n - 1], lines[n])]
           h == CHOOSE g : g = body(g)
<1>1. N \in Nat /\ \A n \in 1..N : lines[n] \in Lines
  OBVIOUS
<1>2. step \in [S \X (1..N) -> S] /\ <<>> \in S
  BY <1>1
<1>3. \A s \in S, n \in 1..N :
         step[<<s, n>>] = IF Skipped(lines[n]) THEN s ELSE Append(s, lines[n])
  OBVIOUS
<1>4. PICK g \in [0..N -> S] :
         g[0] = <<>> /\ \A n \in 1..N : g[n] = step[<<g[n - 1], n>>]
  <2>1. N \in Nat /\ Turns(step, N, S)
    BY <1>1, <1>2 DEF Turns
  <2> HIDE DEF step, S, N
  <2>2. \E g : StatesOf(g, <<>>, step, N, S)
    BY <1>2, <2>1, LoopExists
  <2>3. QED
    BY <2>2 DEF StatesOf
<1>5. g = body(g)
  <2> HIDE DEF step
  <2>1. ASSUME NEW n \in 0..N PROVE g[n] = body(g)[n]
    <3>1. CASE n = 0
      BY <1>4, <3>1
    <3>2. CASE n # 0
      <4>1. n \in 1..N /\ n - 1 \in 0..N
        BY <1>1, <3>2
      <4>2. g[n - 1] \in S
        BY <4>1
      <4>3. QED
        BY <1>3, <1>4, <3>2, <4>1, <4>2
    <3>3. QED
      BY <3>1, <3>2
  <2>2. QED
    BY <2>1
<1>6. h = body(h)
  <2> HIDE DEF body
  <2>1. QED
    BY <1>5, Zenon
<1>7. h = g
  <2> DEFINE T == {n \in 0..N : h[n] = g[n]}
  <2> HIDE DEF h, step
  <2>1. 0 \in T
    BY <1>1, <1>5, <1>6
  <2>2. ASSUME NEW n \in 1..N, n - 1 \in T PROVE n \in T
    <3>1. h[n] = body(h)[n] /\ g[n] = body(g)[n]
      BY <1>5, <1>6
    <3>2. QED
      BY <1>1, <2>2, <3>1
  <2>3. \A n \in 0..N : n \in T
    <3> HIDE DEF T
    <3>1. QED
      BY <1>1, <2>1, <2>2, UpTo
  <2>4. DOMAIN h = 0..N
    BY <1>6
  <2>5. QED
    BY <1>6, <2>3, <2>4
<1>8. load_dataset(lines) = h[N]
  BY DEF load_dataset
<1>9. \A n \in 1..N : g[n] = IF Skipped(lines[n]) THEN g[n - 1]
                             ELSE Append(g[n - 1], lines[n])
  <2> HIDE DEF step
  <2>1. ASSUME NEW n \in 1..N
        PROVE  n - 1 \in 0..N
    BY <1>1
  <2>2. \A n \in 1..N : g[n - 1] \in S
    BY <2>1
  <2>3. QED
    BY <1>3, <1>4, <2>2
<1> HIDE DEF h, step, body
<1>10. QED
  BY <1>4, <1>7, <1>8, <1>9

(* What load_dataset returns holds objects only when no line ends the      *)
(* program, and one for each line that is kept.                            *)
THEOREM LoadFacts ==
    ASSUME NEW lines \in Seq(Lines), ~Unloadable(lines)
    PROVE  /\ load_dataset(lines) \in Seq(Objects)
           /\ Len(load_dataset(lines)) = Cardinality(Kept(lines))
<1> DEFINE N == Len(lines)
           K == Kept(lines)
<1>1. PICK g \in [0..N -> Seq(Lines)] :
         /\ load_dataset(lines) = g[N]
         /\ g[0] = <<>>
         /\ \A n \in 1..N : g[n] = IF Skipped(lines[n]) THEN g[n - 1]
                                  ELSE Append(g[n - 1], lines[n])
  BY LoadLoop
<1>2. N \in Nat /\ DOMAIN lines = 1..N /\ \A n \in 1..N : lines[n] \in Lines
  OBVIOUS
<1>3. \A n \in 1..N : lines[n] # NotAnObject
  BY <1>2 DEF Unloadable
<1> DEFINE T == {n \in 0..N : /\ g[n] \in Seq(Objects)
                             /\ Len(g[n]) = Cardinality(K \cap (1..n))}
<1>4. 0 \in T
  <2>1. K \cap (1..0) = {}
    OBVIOUS
  <2>2. Cardinality(K \cap (1..0)) = 0
    BY <2>1, FS_EmptySet
  <2>3. g[0] \in Seq(Objects) /\ Len(g[0]) = 0
    BY <1>1
  <2> HIDE DEF K
  <2>4. QED
    BY <1>2, <2>2, <2>3
<1>5. ASSUME NEW n \in 1..N, n - 1 \in T PROVE n \in T
  <2>1. n \in Nat \ {0} /\ n \in 0..N
    BY <1>2
  <2>2. /\ g[n - 1] \in Seq(Objects)
        /\ Len(g[n - 1]) = Cardinality(K \cap (1..(n - 1)))
    BY <1>5
  <2>3. n \in K <=> ~Skipped(lines[n])
    BY <1>2 DEF Kept
  <2> HIDE DEF K
  <2>4. Cardinality(K \cap (1..n)) = Cardinality(K \cap (1..(n - 1)))
                                      + (IF n \in K THEN 1 ELSE 0)
    BY <2>1, CountNext
  <2>5. CASE Skipped(lines[n])
    <3>1. g[n] = g[n - 1]
      BY <1>1, <2>5
    <3>2. QED
      BY <2>1, <2>2, <2>3, <2>4, <2>5, <3>1
  <2>6. CASE ~Skipped(lines[n])
    <3>1. g[n] = Append(g[n - 1], lines[n])
      BY <1>1, <2>6
    <3>2. lines[n] \in Objects
      BY <1>2, <1>3, <2>6 DEF Skipped, Objects
    <3>3. g[n] \in Seq(Objects) /\ Len(g[n]) = Len(g[n - 1]) + 1
      BY <2>2, <3>1, <3>2
    <3>4. QED
      BY <2>1, <2>2, <2>3, <2>4, <2>6, <3>3
  <2>7. QED
    BY <2>5, <2>6
<1>6. N \in T
  <2> HIDE DEF T
  <2>1. \A n \in 0..N : n \in T
    BY <1>2, <1>4, <1>5, UpTo
  <2>2. QED
    BY <1>2, <2>1
<1>7. K \cap (1..N) = K
  BY <1>2 DEF Kept
<1>8. QED
  BY <1>1, <1>6, <1>7

-----------------------------------------------------------------------------
(* evaluate_all *)

Reports ==
    [ n : Nat, classification_correct : Nat, routing_correct : Nat,
      routing_total : Nat, true_positive : Nat, false_positive : Nat,
      false_negative : Nat ]

MatchedBy(pair) == matched(pair.example, pair.outcome)

MissedBy(pair) == DOMAIN pair.example.expected_fields \ MatchedBy(pair)

(* A label that is not null expects finitely many fields. *)
LEMMA FinitelyExpected ==
    ASSUME NEW pair \in Pairs, pair.example.expected_fields # None
    PROVE  /\ IsFiniteSet(MatchedBy(pair)) /\ IsFiniteSet(MissedBy(pair))
           /\ Cardinality(MatchedBy(pair)) \in Nat
           /\ Cardinality(MissedBy(pair)) \in Nat
<1>1. pair.example \in Lines \ {Blank, Malformed, NotAnObject}
  BY DEF Pairs, Objects
<1>2. IsFiniteSet(DOMAIN pair.example.expected_fields)
  BY <1>1, LinesAssumption
<1>3. /\ MatchedBy(pair) \subseteq DOMAIN pair.example.expected_fields
      /\ MissedBy(pair) \subseteq DOMAIN pair.example.expected_fields
  BY DEF MatchedBy, MissedBy, matched
<1>4. IsFiniteSet(MatchedBy(pair)) /\ IsFiniteSet(MissedBy(pair))
  BY <1>2, <1>3, FS_Subset
<1>5. QED
  BY <1>4, FS_CardinalityType

(* What a pair adds to the report. *)
LEMMA OnePair ==
    ASSUME NEW pair \in Pairs, pair.example.expected_fields # None,
           NEW r \in Reports
    PROVE  LET to == score_pair(r, pair)
               e == pair.example
               o == pair.outcome
           IN /\ to \in Reports
              /\ to.n = r.n + 1
              /\ to.classification_correct = r.classification_correct
                   + (IF o.document_type = e.expected_type THEN 1 ELSE 0)
              /\ to.routing_total = r.routing_total
                   + (IF e.expected_route # None THEN 1 ELSE 0)
              /\ to.routing_correct = r.routing_correct
                   + (IF e.expected_route # None
                         /\ o.route = e.expected_route THEN 1 ELSE 0)
              /\ to.true_positive
                    = r.true_positive + Cardinality(MatchedBy(pair))
              /\ to.false_positive = r.false_positive
              /\ to.false_negative
                    = r.false_negative + Cardinality(MissedBy(pair))
<1> DEFINE e == pair.example
           o == pair.outcome
           route_ok == routing_accuracy(e, o)
           fs == field_extraction_metrics(e, o)
<1>1. /\ Cardinality(MatchedBy(pair)) \in Nat
      /\ Cardinality(MissedBy(pair)) \in Nat
  BY FinitelyExpected
<1>2. /\ fs.true_positive = Cardinality(MatchedBy(pair))
      /\ fs.false_positive = 0
      /\ fs.false_negative = Cardinality(MissedBy(pair))
  BY DEF field_extraction_metrics, MatchedBy, MissedBy
<1>3. One(route_ok # None) = IF e.expected_route # None THEN 1 ELSE 0
  <2>1. CASE e.expected_route = None
    BY <2>1 DEF routing_accuracy, One
  <2>2. CASE e.expected_route # None
    <3>1. route_ok \in BOOLEAN
      BY <2>2, Zenon DEF routing_accuracy
    <3>2. route_ok # None
      BY <3>1, NoLabelAssumption
    <3> HIDE DEF route_ok, e
    <3>3. QED
      BY <2>2, <3>2 DEF One
  <2>3. QED
    BY <2>1, <2>2
<1>4. One(route_ok # None /\ route_ok = TRUE)
         = IF e.expected_route # None /\ o.route = e.expected_route
           THEN 1 ELSE 0
  <2>1. CASE e.expected_route = None
    BY <2>1 DEF routing_accuracy, One
  <2>2. CASE e.expected_route # None
    <3>1. route_ok = (o.route = e.expected_route)
      BY <2>2, Zenon DEF routing_accuracy
    <3>2. route_ok \in BOOLEAN
      BY <3>1, Zenon
    <3>3. route_ok # None
      BY <3>2, NoLabelAssumption
    <3>4. (route_ok = TRUE) <=> (o.route = e.expected_route)
      BY <3>1, Zenon
    <3> HIDE DEF route_ok, e, o
    <3>5. QED
      BY <2>2, <3>3, <3>4 DEF One
  <2>3. QED
    BY <2>1, <2>2
<1>5. One(classification_accuracy(e, o))
         = IF o.document_type = e.expected_type THEN 1 ELSE 0
  BY DEF classification_accuracy, One
<1> HIDE DEF fs, route_ok, e, o
<1>6. score_pair(r, pair)
        = [ n |-> r.n + 1,
            classification_correct |-> r.classification_correct
               + One(classification_accuracy(e, o)),
            routing_total   |-> r.routing_total + One(route_ok # None),
            routing_correct |->
               r.routing_correct + One(route_ok # None /\ route_ok = TRUE),
            true_positive   |-> r.true_positive + fs.true_positive,
            false_positive  |-> r.false_positive + fs.false_positive,
            false_negative  |-> r.false_negative + fs.false_negative ]
  BY DEF score_pair, e, o, route_ok, fs
<1>7. QED
  BY <1>1, <1>2, <1>3, <1>4, <1>5, <1>6 DEF Reports, e, o

(* The loop of evaluate_all, pair by pair. *)
LEMMA EvaluateLoop ==
    ASSUME NEW ps \in Seq(Pairs), ~Unscorable(ps)
    PROVE  \E g \in [0..Len(ps) -> Reports] :
              /\ evaluate_all(ps) = g[Len(ps)]
              /\ g[0] = EvalReport
              /\ \A n \in 1..Len(ps) : g[n] = score_pair(g[n - 1], ps[n])
<1> DEFINE N == Len(ps)
           step == [x \in Reports \X (1..N) |-> score_pair(x[1], ps[x[2]])]
           body(g) == [n \in 0..N |-> IF n = 0 THEN EvalReport
                                     ELSE score_pair(g[n - 1], ps[n])]
           h == CHOOSE g : g = body(g)
<1>1. N \in Nat /\ DOMAIN ps = 1..N /\ \A n \in 1..N : ps[n] \in Pairs
  OBVIOUS
<1>2. \A n \in 1..N : ps[n].example.expected_fields # None
  BY <1>1 DEF Unscorable
<1>3. EvalReport \in Reports
  BY DEF EvalReport, Reports
<1>4. \A r \in Reports, n \in 1..N :
         /\ score_pair(r, ps[n]) \in Reports
         /\ step[<<r, n>>] = score_pair(r, ps[n])
  <2>1. TAKE r \in Reports, n \in 1..N
  <2>2. score_pair(r, ps[n]) \in Reports
    BY <1>1, <1>2, OnePair
  <2>3. QED
    BY <2>2
<1>5. step \in [Reports \X (1..N) -> Reports]
  BY <1>4
<1>6. PICK g : StatesOf(g, EvalReport, step, N, Reports)
  <2>1. N \in Nat /\ Turns(step, N, Reports)
    BY <1>1, <1>5 DEF Turns
  <2> HIDE DEF step, N
  <2>2. QED
    BY <1>3, <2>1, LoopExists
<1>7. g \in [0..N -> Reports] /\ g[0] = EvalReport
  BY <1>6 DEF StatesOf
<1>8. ASSUME NEW n \in 1..N
      PROVE  g[n] = score_pair(g[n - 1], ps[n])
  <2> HIDE DEF step
  <2>1. n - 1 \in 0..N
    BY <1>1
  <2>2. g[n - 1] \in Reports
    BY <1>7, <2>1
  <2>3. g[n] = step[<<g[n - 1], n>>]
    BY <1>6 DEF StatesOf
  <2>4. QED
    BY <1>4, <2>2, <2>3
<1>9. g = body(g)
  <2> HIDE DEF step
  <2>1. ASSUME NEW n \in 0..N PROVE g[n] = body(g)[n]
    BY <1>1, <1>7, <1>8
  <2>2. QED
    BY <1>7, <2>1
<1>10. h = body(h)
  <2> HIDE DEF body
  <2>1. QED
    BY <1>9, Zenon
<1>11. h = g
  <2> DEFINE T == {n \in 0..N : h[n] = g[n]}
  <2> HIDE DEF h, step
  <2>1. 0 \in T
    BY <1>1, <1>9, <1>10
  <2>2. ASSUME NEW n \in 1..N, n - 1 \in T PROVE n \in T
    <3>1. h[n] = body(h)[n] /\ g[n] = body(g)[n]
      BY <1>9, <1>10
    <3>2. QED
      BY <1>1, <2>2, <3>1
  <2>3. \A n \in 0..N : n \in T
    <3> HIDE DEF T
    <3>1. QED
      BY <1>1, <2>1, <2>2, UpTo
  <2>4. DOMAIN h = 0..N
    BY <1>10
  <2>5. QED
    BY <1>7, <1>10, <2>3, <2>4
<1>12. evaluate_all(ps) = h[N]
  BY DEF evaluate_all
<1> HIDE DEF h, step, body
<1>13. QED
  BY <1>7, <1>8, <1>11, <1>12

RightTypes(ps) ==
    {i \in DOMAIN ps : ps[i].outcome.document_type
                         = ps[i].example.expected_type}

LabelledIn(ps) ==
    {i \in DOMAIN ps : ps[i].example.expected_route # None}

RightRoutes(ps) ==
    {i \in LabelledIn(ps) : ps[i].outcome.route
                              = ps[i].example.expected_route}

(* The expected fields found, and missed, in the first n pairs.            *)
FoundUpTo(ps, n) == UNION {{i} \X MatchedBy(ps[i]) : i \in 1..n}

MissedUpTo(ps, n) == UNION {{i} \X MissedBy(ps[i]) : i \in 1..n}

(* The report of evaluate_all counts what it says: the pairs, those with   *)
(* the right type, those labelled with a route, those with the right one,  *)
(* and the expected fields found and missed, over all pairs together.      *)
THEOREM EvaluateFacts ==
    ASSUME NEW ps \in Seq(Pairs), ~Unscorable(ps)
    PROVE  LET r == evaluate_all(ps)
               N == Len(ps)
           IN /\ r \in Reports
              /\ r.n = N
              /\ r.classification_correct = Cardinality(RightTypes(ps))
              /\ r.routing_total = Cardinality(LabelledIn(ps))
              /\ r.routing_correct = Cardinality(RightRoutes(ps))
              /\ r.false_positive = 0
              /\ IsFiniteSet(FoundUpTo(ps, N))
              /\ r.true_positive = Cardinality(FoundUpTo(ps, N))
              /\ IsFiniteSet(MissedUpTo(ps, N))
              /\ r.false_negative = Cardinality(MissedUpTo(ps, N))
<1> DEFINE N == Len(ps)
<1>1. PICK g \in [0..N -> Reports] :
         /\ evaluate_all(ps) = g[N]
         /\ g[0] = EvalReport
         /\ \A n \in 1..N : g[n] = score_pair(g[n - 1], ps[n])
  BY EvaluateLoop
<1>2. N \in Nat /\ DOMAIN ps = 1..N /\ \A n \in 1..N : ps[n] \in Pairs
  OBVIOUS
<1>3. \A n \in 1..N : ps[n].example.expected_fields # None
  BY <1>2 DEF Unscorable
<1> DEFINE Counts(n) ==
             /\ g[n].n = n
             /\ g[n].classification_correct
                   = Cardinality(RightTypes(ps) \cap (1..n))
             /\ g[n].routing_total = Cardinality(LabelledIn(ps) \cap (1..n))
             /\ g[n].routing_correct
                   = Cardinality(RightRoutes(ps) \cap (1..n))
             /\ g[n].false_positive = 0
             /\ IsFiniteSet(FoundUpTo(ps, n))
             /\ g[n].true_positive = Cardinality(FoundUpTo(ps, n))
             /\ IsFiniteSet(MissedUpTo(ps, n))
             /\ g[n].false_negative = Cardinality(MissedUpTo(ps, n))
           T == {n \in 0..N : Counts(n)}
<1>4. 0 \in T
  <2>1. /\ RightTypes(ps) \cap (1..0) = {}
        /\ LabelledIn(ps) \cap (1..0) = {}
        /\ RightRoutes(ps) \cap (1..0) = {}
    OBVIOUS
  <2>2. FoundUpTo(ps, 0) = {} /\ MissedUpTo(ps, 0) = {}
    BY DEF FoundUpTo, MissedUpTo
  <2>3. IsFiniteSet({}) /\ Cardinality({}) = 0
    BY FS_EmptySet
  <2>4. Counts(0)
    <3>1. /\ g[0].n = 0 /\ g[0].classification_correct = 0
          /\ g[0].routing_total = 0 /\ g[0].routing_correct = 0
          /\ g[0].false_positive = 0 /\ g[0].true_positive = 0
          /\ g[0].false_negative = 0
      BY <1>1 DEF EvalReport
    <3>2. QED
      BY <2>1, <2>2, <2>3, <3>1
  <2> HIDE DEF Counts
  <2>5. QED
    BY <1>2, <2>4
<1>5. ASSUME NEW n \in 1..N, n - 1 \in T PROVE n \in T
  <2>1. n \in Nat \ {0} /\ n \in 0..N /\ n - 1 \in 0..N
    BY <1>2
  <2>2. Counts(n - 1) /\ g[n - 1] \in Reports
    BY <1>1, <1>5, <2>1
  <2>3. ps[n] \in Pairs /\ ps[n].example.expected_fields # None
    BY <1>2, <1>3
  <2>4. g[n] = score_pair(g[n - 1], ps[n])
    BY <1>1
  <2> DEFINE e == ps[n].example
             o == ps[n].outcome
  <2>5. /\ g[n].n = g[n - 1].n + 1
        /\ g[n].classification_correct = g[n - 1].classification_correct
               + (IF o.document_type = e.expected_type THEN 1 ELSE 0)
        /\ g[n].routing_total = g[n - 1].routing_total
               + (IF e.expected_route # None THEN 1 ELSE 0)
        /\ g[n].routing_correct = g[n - 1].routing_correct
               + (IF e.expected_route # None
                     /\ o.route = e.expected_route THEN 1 ELSE 0)
        /\ g[n].true_positive
              = g[n - 1].true_positive + Cardinality(MatchedBy(ps[n]))
        /\ g[n].false_positive = g[n - 1].false_positive
        /\ g[n].false_negative
              = g[n - 1].false_negative + Cardinality(MissedBy(ps[n]))
    BY <2>2, <2>3, <2>4, OnePair
  <2>6. /\ n \in RightTypes(ps) <=> o.document_type = e.expected_type
        /\ n \in LabelledIn(ps) <=> e.expected_route # None
        /\ n \in RightRoutes(ps) <=> e.expected_route # None
                                    /\ o.route = e.expected_route
    BY <1>2 DEF RightTypes, LabelledIn, RightRoutes
  <2>7. /\ Cardinality(RightTypes(ps) \cap (1..n))
              = Cardinality(RightTypes(ps) \cap (1..(n - 1)))
                   + (IF n \in RightTypes(ps) THEN 1 ELSE 0)
        /\ Cardinality(LabelledIn(ps) \cap (1..n))
              = Cardinality(LabelledIn(ps) \cap (1..(n - 1)))
                   + (IF n \in LabelledIn(ps) THEN 1 ELSE 0)
        /\ Cardinality(RightRoutes(ps) \cap (1..n))
              = Cardinality(RightRoutes(ps) \cap (1..(n - 1)))
                   + (IF n \in RightRoutes(ps) THEN 1 ELSE 0)
    BY <2>1, CountNext
  <2>8. /\ FoundUpTo(ps, n)
              = FoundUpTo(ps, n - 1) \cup ({n} \X MatchedBy(ps[n]))
        /\ MissedUpTo(ps, n)
              = MissedUpTo(ps, n - 1) \cup ({n} \X MissedBy(ps[n]))
    <3>1. 1..n = (1..(n - 1)) \cup {n}
      OBVIOUS
    <3>2. QED
      BY <3>1 DEF FoundUpTo, MissedUpTo
  <2>9. /\ \A x \in MatchedBy(ps[n]) : <<n, x>> \notin FoundUpTo(ps, n - 1)
        /\ \A x \in MissedBy(ps[n]) : <<n, x>> \notin MissedUpTo(ps, n - 1)
    <3>1. n \notin 1..(n - 1)
      OBVIOUS
    <3>2. QED
      BY <3>1 DEF FoundUpTo, MissedUpTo
  <2>10. IsFiniteSet(MatchedBy(ps[n])) /\ IsFiniteSet(MissedBy(ps[n]))
    BY <2>3, FinitelyExpected
  <2>11. /\ IsFiniteSet(FoundUpTo(ps, n))
         /\ Cardinality(FoundUpTo(ps, n)) = Cardinality(FoundUpTo(ps, n - 1))
                                    + Cardinality(MatchedBy(ps[n]))
    BY <2>2, <2>8, <2>9, <2>10, RowAdds
  <2>12. /\ IsFiniteSet(MissedUpTo(ps, n))
         /\ Cardinality(MissedUpTo(ps, n))
               = Cardinality(MissedUpTo(ps, n - 1))
                                    + Cardinality(MissedBy(ps[n]))
    BY <2>2, <2>8, <2>9, <2>10, RowAdds
  <2>13. g[n].n = n
    BY <2>2, <2>5
  <2> HIDE DEF e, o
  <2>14. Counts(n)
    BY <2>2, <2>5, <2>6, <2>7, <2>11, <2>12, <2>13
  <2>15. QED
    BY <2>1, <2>14
<1>6. Counts(N)
  <2>1. \A n \in 0..N : n \in T
    <3> HIDE DEF T
    <3>1. QED
      BY <1>2, <1>4, <1>5, UpTo
  <2>2. N \in T
    BY <1>2, <2>1
  <2> HIDE DEF Counts
  <2>3. QED
    BY <2>2
<1>7. /\ RightTypes(ps) \cap (1..N) = RightTypes(ps)
      /\ LabelledIn(ps) \cap (1..N) = LabelledIn(ps)
      /\ RightRoutes(ps) \cap (1..N) = RightRoutes(ps)
  BY <1>2 DEF RightTypes, LabelledIn, RightRoutes
<1>8. QED
  BY <1>1, <1>2, <1>6, <1>7

-----------------------------------------------------------------------------
(* The gate *)

(* A share is not below its threshold when enough of all are there, and    *)
(* there is one at all: of nothing, no share is high enough.               *)
LEMMA ShareIsEnough ==
    ASSUME NEW all, IsFiniteSet(all), NEW some \in SUBSET all,
           NEW P \in 1..100
    PROVE  ~below(ratio(Cardinality(some), Cardinality(all)), P)
              <=> AtLeast(P, some, all)
<1> DEFINE n == Cardinality(all)
           c == Cardinality(some)
<1>1. IsFiniteSet(some) /\ c \in Nat /\ n \in Nat /\ c <= n
  BY FS_Subset, FS_CardinalityType
<1>2. (c = 0) <=> (some = {})
  BY <1>1, FS_EmptySet
<1> HIDE DEF n, c
<1>3. CASE n = 0
  <2>1. ratio(c, n) = <<0, 1>>
    BY <1>3 DEF ratio
  <2>2. below(ratio(c, n), P)
    BY <2>1 DEF below
  <2>3. QED
    BY <1>1, <1>2, <1>3, <2>2 DEF AtLeast, n, c
<1>4. CASE n # 0
  <2>1. ratio(c, n) = <<c, n>>
    BY <1>4 DEF ratio
  <2>2. below(ratio(c, n), P) <=> 100 * c < P * n
    BY <2>1 DEF below
  <2>3. P * n \in Nat /\ P * n > 0
    BY <1>1, <1>4
  <2>4. (~(100 * c < P * n)) <=> (c # 0 /\ 100 * c >= P * n)
    BY <1>1, <2>3
  <2>5. QED
    BY <1>2, <2>2, <2>4 DEF AtLeast, n, c
<1>5. QED
  BY <1>3, <1>4

(* The F1 of t found and m missed fields, no wrong one ever counted, is    *)
(* not below F percent when a field is found and t (200 - F) >= F (t + m). *)
LEMMA F1IsEnough ==
    ASSUME NEW r \in Reports, r.false_positive = 0, NEW F \in 1..100
    PROVE  ~below(f1(r), F)
              <=> /\ r.true_positive # 0
                  /\ r.true_positive * (200 - F)
                        >= F * (r.true_positive + r.false_negative)
<1> DEFINE t == r.true_positive
           m == r.false_negative
<1>1. t \in Nat /\ m \in Nat /\ t + r.false_positive = t
  BY DEF Reports
<1>2. precision(r) = ratio(t, t) /\ recall(r) = ratio(t, t + m)
  BY <1>1 DEF precision, recall
<1> HIDE DEF t, m
<1>3. CASE t = 0
  <2>1. precision(r) = <<0, 1>>
    BY <1>2, <1>3 DEF ratio
  <2>2. recall(r)[1] = 0 /\ recall(r)[2] \in Nat
    BY <1>1, <1>2, <1>3 DEF ratio
  <2>3. /\ precision(r)[1] * recall(r)[2]
              + recall(r)[1] * precision(r)[2] = 0
    BY <2>1, <2>2
  <2>4. f1(r) = <<0, 1>>
    BY <2>3 DEF f1, ratio
  <2>5. below(f1(r), F)
    BY <2>4 DEF below
  <2>6. QED
    BY <1>3, <2>5 DEF t, m
<1>4. CASE t # 0
  <2>1. precision(r) = <<t, t>> /\ recall(r) = <<t, t + m>>
    BY <1>1, <1>2, <1>4 DEF ratio
  <2>2. f1(r) = ratio(2 * t * t, t * (t + m) + t * t)
    BY <2>1 DEF f1
  <2>3. t * (t + m) \in Nat /\ t * t \in Nat /\ t * t > 0
    BY <1>1, <1>4
  <2>4. f1(r) = <<2 * t * t, t * (t + m) + t * t>>
    BY <2>2, <2>3 DEF ratio
  <2>5. below(f1(r), F)
           <=> 100 * (2 * t * t) < F * (t * (t + m) + t * t)
    BY <2>4 DEF below
  <2> DEFINE a == 200 * t
             b == F * (2 * t + m)
  <2>6. /\ 100 * (2 * t * t) = t * a
        /\ F * (t * (t + m) + t * t) = t * b
    BY <1>1
  <2>7. a \in Int /\ b \in Int
    BY <1>1
  <2>8. (t * a < t * b) <=> (a < b)
    <3> HIDE DEF a, b
    <3>1. QED
      BY <1>1, <1>4, <2>7
  <2>9. (a < b) <=> ~(t * (200 - F) >= F * (t + m))
    BY <1>1
  <2>10. QED
    BY <1>4, <2>5, <2>6, <2>8, <2>9 DEF t, m
<1>5. QED
  BY <1>3, <1>4

(* What the gate decides of the outcomes of a run that can be scored.      *)
LEMMA GateDecides ==
    ASSUME NEW ps \in Seq(Pairs), ~Unscorable(ps)
    PROVE  LET F == FoundUpTo(ps, Len(ps))
               M == MissedUpTo(ps, Len(ps))
           IN gate_passes(evaluate_all(ps))
                 <=> /\ AtLeast(MinClassification, RightTypes(ps), DOMAIN ps)
                     /\ AtLeast(MinRouting, RightRoutes(ps), LabelledIn(ps))
                     /\ F # {}
                     /\ Cardinality(F) * (200 - MinFieldF1)
                           >= MinFieldF1 * Cardinality(F \cup M)
<1> DEFINE F == FoundUpTo(ps, Len(ps))
           M == MissedUpTo(ps, Len(ps))
           r == evaluate_all(ps)
<1>1. /\ r \in Reports
      /\ r.n = Len(ps)
      /\ r.classification_correct = Cardinality(RightTypes(ps))
      /\ r.routing_total = Cardinality(LabelledIn(ps))
      /\ r.routing_correct = Cardinality(RightRoutes(ps))
      /\ r.false_positive = 0
      /\ IsFiniteSet(F) /\ r.true_positive = Cardinality(F)
      /\ IsFiniteSet(M) /\ r.false_negative = Cardinality(M)
  BY EvaluateFacts
<1>2. Len(ps) \in Nat /\ DOMAIN ps = 1..Len(ps)
  OBVIOUS
<1>3. IsFiniteSet(DOMAIN ps) /\ Cardinality(DOMAIN ps) = Len(ps)
  <2>1. /\ IsFiniteSet(1..Len(ps))
        /\ Cardinality(1..Len(ps))
              = IF 1 > Len(ps) THEN 0 ELSE Len(ps) - 1 + 1
    BY <1>2, FS_Interval
  <2>2. QED
    BY <1>2, <2>1
<1>4. /\ RightTypes(ps) \in SUBSET DOMAIN ps
      /\ LabelledIn(ps) \in SUBSET DOMAIN ps
      /\ RightRoutes(ps) \in SUBSET LabelledIn(ps)
  BY DEF RightTypes, LabelledIn, RightRoutes
<1>5. IsFiniteSet(LabelledIn(ps))
  BY <1>3, <1>4, FS_Subset
<1>6. Cardinality(F \cup M) = Cardinality(F) + Cardinality(M)
  <2>1. F \cap M = {}
    BY DEF FoundUpTo, MissedUpTo, MissedBy
  <2>2. Cardinality(F \cap M) = 0
    BY <2>1, FS_EmptySet
  <2> HIDE DEF F, M
  <2>3. Cardinality(F \cup M)
           = Cardinality(F) + Cardinality(M) - Cardinality(F \cap M)
    BY <1>1, FS_Union
  <2>4. Cardinality(F) \in Nat /\ Cardinality(M) \in Nat
    BY <1>1, FS_CardinalityType
  <2>5. QED
    BY <2>2, <2>3, <2>4
<1>7. (Cardinality(F) = 0) <=> (F = {})
  BY <1>1, FS_EmptySet
<1>8. ~below(ratio(r.classification_correct, r.n), MinClassification)
         <=> AtLeast(MinClassification, RightTypes(ps), DOMAIN ps)
  BY <1>1, <1>3, <1>4, ThresholdsAssumption, ShareIsEnough
<1>9. ~below(ratio(r.routing_correct, r.routing_total), MinRouting)
         <=> AtLeast(MinRouting, RightRoutes(ps), LabelledIn(ps))
  BY <1>1, <1>4, <1>5, ThresholdsAssumption, ShareIsEnough
<1>10. ~below(f1(r), MinFieldF1)
          <=> /\ r.true_positive # 0
              /\ r.true_positive * (200 - MinFieldF1)
                    >= MinFieldF1 * (r.true_positive + r.false_negative)
  BY <1>1, ThresholdsAssumption, F1IsEnough
<1> HIDE DEF F, M, r
<1>11. ~below(f1(r), MinFieldF1)
          <=> /\ F # {}
              /\ Cardinality(F) * (200 - MinFieldF1)
                    >= MinFieldF1 * Cardinality(F \cup M)
  BY <1>1, <1>6, <1>7, <1>10
<1>12. QED
  BY <1>8, <1>9, <1>11 DEF gate_passes, F, M, r

-----------------------------------------------------------------------------
(* The two programs *)

(* The inductive invariant: the runner works on what the file holds, runs  *)
(* its examples one after the other, and a verdict is the gate's on every  *)
(* one of them.                                                            *)
EvalInv ==
    /\ file \in Seq(Lines)
    /\ remote = None \/ remote \in Seq(Objects)
    /\ examples \in Seq(Objects)
    /\ pairs \in Seq(Pairs)
    /\ stage \in {"idle", "runner", "experiment"}
    /\ stage # "idle" => exit = "none"
    /\ stage = "runner" =>
          /\ ~Unloadable(file)
          /\ examples = load_dataset(file)
          /\ Len(pairs) <= Len(examples)
    /\ exit \in {"passed", "failed"} =>
          /\ ~Unloadable(file)
          /\ Len(pairs) = Len(load_dataset(file))
          /\ ~Unscorable(pairs)
          /\ exit = "passed" <=> gate_passes(evaluate_all(pairs))

(* Before the first program ran there is no verdict to be wrong about. *)
LEMMA EvalStart == EvalInit => EvalInv
<1>1. SUFFICES ASSUME EvalInit PROVE EvalInv
  OBVIOUS
<1>2. file \in Seq(Lines)
  <2>1. PICK n \in 0..MaxLines : file \in [1..n -> Lines]
    BY <1>1 DEF EvalInit
  <2>2. n \in Nat
    BY MaxLinesAssumption
  <2>3. QED
    BY <2>1, <2>2
<1>3. QED
  BY <1>1, <1>2 DEF EvalInit, EvalInv

(* Every step keeps the invariant: a verdict stands only until the file    *)
(* is edited or the next program starts.                                   *)
LEMMA EvalStep == EvalInv /\ [EvalNext]_eval_vars => EvalInv'
<1>1. SUFFICES ASSUME EvalInv, [EvalNext]_eval_vars PROVE EvalInv'
  OBVIOUS
<1>2. /\ file \in Seq(Lines)
      /\ remote = None \/ remote \in Seq(Objects)
      /\ examples \in Seq(Objects)
      /\ pairs \in Seq(Pairs)
  BY <1>1 DEF EvalInv
<1>3. <<>> \in Seq(Pairs) /\ <<>> \in Seq(Objects)
  OBVIOUS
<1>4. ASSUME NEW outcome \in Outcomes, NEW e \in Objects
      PROVE  LET ps == Append(pairs, [example |-> e, outcome |-> outcome])
             IN ps \in Seq(Pairs) /\ Len(ps) = Len(pairs) + 1
  <2>1. [example |-> e, outcome |-> outcome] \in Pairs
    BY DEF Pairs
  <2>2. QED
    BY <1>2, <2>1
<1>5. ~Unloadable(file) => load_dataset(file) \in Seq(Objects)
  BY <1>2, LoadFacts
<1>6. ASSUME NEW k \in DOMAIN file, NEW line \in Lines, edit_line(k, line)
      PROVE  EvalInv'
  <2>1. file' \in Seq(Lines)
    BY <1>2, <1>6 DEF edit_line
  <2>2. QED
    BY <1>1, <1>2, <1>3, <1>6, <2>1 DEF edit_line, EvalInv
<1>7. CASE run_evaluation
  <2>1. CASE Unloadable(file)
    BY <1>1, <1>2, <1>3, <1>7, <2>1 DEF run_evaluation, Ends, EvalInv
  <2>2. CASE ~Unloadable(file)
    <3>1. /\ pairs' = <<>> /\ examples' = load_dataset(file)
          /\ stage' = "runner" /\ exit' = "none"
          /\ file' = file /\ remote' = remote
      BY <1>7, <2>2 DEF run_evaluation
    <3>2. Len(pairs') = 0 /\ Len(examples') \in Nat
      BY <1>5, <2>2, <3>1
    <3>3. QED
      BY <1>2, <1>3, <1>5, <2>2, <3>1, <3>2 DEF EvalInv
  <2>3. QED
    BY <2>1, <2>2
<1>8. CASE run_example
  <2>1. /\ stage = "runner" /\ Turn <= Len(examples)
        /\ file' = file /\ remote' = remote /\ examples' = examples
    BY <1>8 DEF run_example
  <2>2. CASE Ends("raised") /\ UNCHANGED pairs
    BY <1>1, <1>2, <2>1, <2>2 DEF Ends, EvalInv
  <2>3. ASSUME NEW outcome \in Outcomes,
               pairs' = Append(pairs, [example |-> examples[Turn],
                                       outcome |-> outcome]),
               UNCHANGED <<stage, exit>>
        PROVE  EvalInv'
    <3>1. examples[Turn] \in Objects
      BY <1>2, <2>1 DEF Turn
    <3>2. pairs' \in Seq(Pairs) /\ Len(pairs') = Turn
      BY <1>4, <2>3, <3>1 DEF Turn
    <3>3. QED
      BY <1>1, <1>2, <2>1, <2>3, <3>2 DEF EvalInv
  <2>4. QED
    BY <1>8, <2>2, <2>3 DEF run_example
<1>9. CASE gate
  <2>1. /\ stage = "runner" /\ Turn > Len(examples)
        /\ file' = file /\ remote' = remote /\ examples' = examples
        /\ pairs' = pairs
        /\ stage' = "idle"
        /\ exit' = IF Unscorable(pairs) THEN "raised"
                   ELSE IF gate_passes(evaluate_all(pairs)) THEN "passed"
                   ELSE "failed"
    BY <1>9 DEF gate, Ends
  <2>2. /\ ~Unloadable(file) /\ examples = load_dataset(file)
        /\ Len(pairs) <= Len(examples)
    BY <1>1, <2>1 DEF EvalInv
  <2>3. Len(pairs) = Len(examples)
    BY <1>2, <2>1, <2>2 DEF Turn
  <2>4. QED
    BY <1>1, <1>2, <2>1, <2>2, <2>3 DEF EvalInv
<1>10. CASE run_langsmith_eval
  <2>1. stage = "idle" /\ pairs' = <<>> /\ file' = file
    BY <1>10 DEF run_langsmith_eval
  <2>2. CASE Unloadable(file) /\ examples' = <<>> /\ Ends("raised")
             /\ UNCHANGED remote
    BY <1>2, <1>3, <2>1, <2>2 DEF Ends, EvalInv
  <2>3. CASE /\ ~Unloadable(file)
             /\ remote' = IF remote = None THEN load_dataset(file)
                          ELSE remote
             /\ examples' = remote'
             /\ stage' = "experiment" /\ exit' = "none"
    <3>1. remote' \in Seq(Objects)
      BY <1>2, <1>5, <2>3
    <3>2. QED
      BY <1>2, <1>3, <2>1, <2>3, <3>1 DEF EvalInv
  <2>4. CASE /\ remote' = <<>> /\ examples' = <<>> /\ Ends("raised")
    BY <1>2, <1>3, <2>1, <2>4 DEF Ends, EvalInv
  <2>5. QED
    BY <1>10, <2>2, <2>3, <2>4 DEF run_langsmith_eval
<1>11. CASE pipeline_target
  <2>1. /\ stage = "experiment" /\ examples # <<>>
        /\ examples' = Tail(examples)
        /\ file' = file /\ remote' = remote
        /\ stage' = stage /\ exit' = exit
    BY <1>11 DEF pipeline_target
  <2>2. exit = "none" /\ Head(examples) \in Objects
        /\ examples' \in Seq(Objects)
    BY <1>1, <1>2, <2>1 DEF EvalInv
  <2>3. pairs' \in Seq(Pairs)
    BY <1>2, <1>4, <1>11, <2>2 DEF pipeline_target
  <2>4. QED
    BY <1>2, <2>1, <2>2, <2>3 DEF EvalInv
<1>12. CASE experiment_ends
  BY <1>1, <1>2, <1>12 DEF experiment_ends, Ends, EvalInv
<1>13. CASE UNCHANGED eval_vars
  BY <1>1, <1>13 DEF eval_vars, EvalInv, Unloadable, Unscorable
<1>14. QED
  BY <1>1, <1>6, <1>7, <1>8, <1>9, <1>10, <1>11, <1>12, <1>13 DEF EvalNext

(* What the properties count over pairs is what evaluate_all counts.       *)
LEMMA CountedFields ==
    ASSUME pairs \in Seq(Pairs)
    PROVE  /\ Found = FoundUpTo(pairs, Len(pairs))
           /\ Expected = FoundUpTo(pairs, Len(pairs))
                            \cup MissedUpTo(pairs, Len(pairs))
<1>1. DOMAIN pairs = 1..Len(pairs)
  OBVIOUS
<1>2. \A e : e \in Expected <=>
               \E i \in DOMAIN pairs :
                  \E name \in DOMAIN pairs[i].example.expected_fields :
                     e = <<i, name>>
  BY DEF Expected
<1>3. \A i, name : <<i, name>> \in Expected <=>
               /\ i \in DOMAIN pairs
               /\ name \in DOMAIN pairs[i].example.expected_fields
  BY <1>2
<1>4. \A i, name : <<i, name>> \in Found <=>
               i \in DOMAIN pairs /\ name \in MatchedBy(pairs[i])
  BY <1>3 DEF Found, MatchedBy, matched
<1>5. /\ \A i, name : <<i, name>> \in FoundUpTo(pairs, Len(pairs)) <=>
               i \in DOMAIN pairs /\ name \in MatchedBy(pairs[i])
      /\ \A i, name : <<i, name>> \in MissedUpTo(pairs, Len(pairs)) <=>
               i \in DOMAIN pairs /\ name \in MissedBy(pairs[i])
  BY <1>1 DEF FoundUpTo, MissedUpTo
<1>6. /\ \A e \in Found : \E i, name : e = <<i, name>>
      /\ \A e \in FoundUpTo(pairs, Len(pairs)) : \E i, name : e = <<i, name>>
      /\ \A e \in MissedUpTo(pairs, Len(pairs)) : \E i, name : e = <<i, name>>
  BY <1>2 DEF Found, FoundUpTo, MissedUpTo
<1>7. Found = FoundUpTo(pairs, Len(pairs))
  <2>1. \A i, name : <<i, name>> \in Found
                         <=> <<i, name>> \in FoundUpTo(pairs, Len(pairs))
    BY <1>4, <1>5, Zenon
  <2>2. ASSUME NEW e \in Found PROVE e \in FoundUpTo(pairs, Len(pairs))
    <3>1. PICK i, name : e = <<i, name>>
      BY <1>6
    <3>2. QED
      BY <2>1, <2>2, <3>1, Zenon
  <2>3. ASSUME NEW e \in FoundUpTo(pairs, Len(pairs)) PROVE e \in Found
    <3>1. PICK i, name : e = <<i, name>>
      BY <1>6
    <3>2. QED
      BY <2>1, <2>3, <3>1, Zenon
  <2>4. QED
    BY <2>2, <2>3
<1>8. \A i : DOMAIN pairs[i].example.expected_fields
               = MatchedBy(pairs[i]) \cup MissedBy(pairs[i])
  BY DEF MissedBy, MatchedBy, matched
<1>9. Expected = FoundUpTo(pairs, Len(pairs))
                   \cup MissedUpTo(pairs, Len(pairs))
  BY <1>2, <1>3, <1>5, <1>6, <1>8
<1>10. QED
  BY <1>7, <1>9

-----------------------------------------------------------------------------
(* The invariant of the two programs. *)
THEOREM EvalCorrect == EvalSpec => []EvalInv
BY EvalStart, EvalStep, PTL DEF EvalSpec

(* For every dataset, every outcome of the pipeline and every threshold,   *)
(* exit code 0 of the runner is earned, and earned is exit code 0: the     *)
(* gate ran every example of the file and counts right.                    *)
THEOREM GateIsEarnedHolds == EvalSpec => []GateIsEarned
<1>1. EvalInv => GateIsEarned
  <2>1. SUFFICES ASSUME EvalInv, exit \in {"passed", "failed"}
                 PROVE  GateIsEarned
    BY DEF GateIsEarned
  <2>2. /\ file \in Seq(Lines) /\ pairs \in Seq(Pairs)
        /\ ~Unloadable(file)
        /\ Len(pairs) = Len(load_dataset(file))
        /\ ~Unscorable(pairs)
        /\ exit = "passed" <=> gate_passes(evaluate_all(pairs))
    BY <2>1 DEF EvalInv
  <2>3. {k \in DOMAIN file : file[k] \notin {Blank, Malformed}} = Kept(file)
    BY DEF Kept, Skipped
  <2>4. Len(pairs) = Cardinality({k \in DOMAIN file :
                                    file[k] \notin {Blank, Malformed}})
    BY <2>2, <2>3, LoadFacts
  <2>5. /\ {i \in DOMAIN pairs : pairs[i].outcome.document_type
                                   = pairs[i].example.expected_type}
              = RightTypes(pairs)
        /\ Labelled = LabelledIn(pairs)
        /\ {i \in Labelled : pairs[i].outcome.route
                              = pairs[i].example.expected_route}
              = RightRoutes(pairs)
    BY DEF RightTypes, Labelled, LabelledIn, RightRoutes
  <2>6. gate_passes(evaluate_all(pairs))
           <=> /\ AtLeast(MinClassification, RightTypes(pairs), DOMAIN pairs)
               /\ AtLeast(MinRouting, RightRoutes(pairs), LabelledIn(pairs))
               /\ Found # {}
               /\ Cardinality(Found) * (200 - MinFieldF1)
                     >= MinFieldF1 * Cardinality(Expected)
    BY <2>2, GateDecides, CountedFields
  <2>7. QED
    BY <2>2, <2>4, <2>5, <2>6 DEF GateIsEarned
<1>2. QED
  BY <1>1, EvalCorrect, PTL

(* For every dataset, every outcome and every threshold, the gate passes   *)
(* what a LangSmith experiment gives full marks.                           *)
THEOREM FullMarksPassTheGateHolds == EvalSpec => []FullMarksPassTheGate
<1>1. EvalInv => FullMarksPassTheGate
  <2>1. SUFFICES
          ASSUME EvalInv, ~Unscorable(pairs), Expected # {},
                 \A i \in DOMAIN pairs :
                    /\ <<1, 1>> = classification_evaluator(pairs[i].outcome,
                                                           pairs[i].example)
                    /\ <<1, 1>> = routing_evaluator(pairs[i].outcome,
                                                    pairs[i].example)
                    /\ ~below(field_f1_evaluator(pairs[i].outcome,
                                                 pairs[i].example), 100)
          PROVE  gate_passes(evaluate_all(pairs))
    BY DEF FullMarksPassTheGate
  <2> DEFINE D == DOMAIN pairs
             F == FoundUpTo(pairs, Len(pairs))
             M == MissedUpTo(pairs, Len(pairs))
  <2>2. /\ pairs \in Seq(Pairs) /\ D = 1..Len(pairs)
        /\ \A i \in D : /\ pairs[i] \in Pairs
                        /\ pairs[i].outcome \in Outcomes
                        /\ pairs[i].example.expected_fields # None
    <3>1. pairs \in Seq(Pairs)
      BY <2>1 DEF EvalInv
    <3>2. D = 1..Len(pairs) /\ \A i \in D : pairs[i] \in Pairs
      BY <3>1
    <3>3. \A pair \in Pairs : pair.outcome \in Outcomes
      BY DEF Pairs
    <3>4. \A i \in D : pairs[i].example.expected_fields # None
      BY <2>1 DEF Unscorable
    <3>5. QED
      BY <3>1, <3>2, <3>3, <3>4
  <2>3. \A b \in BOOLEAN : <<1, 1>> = ratio(One(b), 1) => b
    BY DEF ratio, One
  <2>4. ASSUME NEW i \in D
        PROVE  /\ pairs[i].outcome.document_type
                     = pairs[i].example.expected_type
               /\ pairs[i].outcome.route = pairs[i].example.expected_route
               /\ pairs[i].example.expected_route # None
    <3>1. /\ pairs[i].outcome.document_type
                = pairs[i].example.expected_type
          /\ pairs[i].outcome.route = pairs[i].example.expected_route
      BY <2>1, <2>3 DEF classification_evaluator, routing_evaluator
    <3>2. QED
      BY <2>2, <3>1, OutcomesAssumption
  <2>5. ASSUME NEW i \in D
        PROVE  MissedBy(pairs[i]) = {}
    <3> DEFINE X == DOMAIN pairs[i].example.expected_fields
               Y == MatchedBy(pairs[i])
    <3>1. CASE X = {}
      BY <3>1 DEF MissedBy
    <3>2. CASE X # {}
      <4>1. IsFiniteSet(X)
        <5>1. pairs[i].example \in Lines \ {Blank, Malformed, NotAnObject}
          BY <2>2 DEF Pairs, Objects
        <5>2. QED
          BY <2>2, <5>1, LinesAssumption
      <4>2. Y \in SUBSET X
        BY DEF MatchedBy, matched
      <4>3. field_f1_evaluator(pairs[i].outcome, pairs[i].example)
               = ratio(Cardinality(Y), Cardinality(X))
        BY <2>2, <3>2 DEF field_f1_evaluator, MatchedBy
      <4>4. ~below(ratio(Cardinality(Y), Cardinality(X)), 100)
        BY <2>1, <4>3
      <4> HIDE DEF X, Y
      <4>5. 100 * Cardinality(Y) >= 100 * Cardinality(X)
        BY <4>1, <4>2, <4>4, ShareIsEnough DEF AtLeast
      <4>6. /\ Cardinality(Y) \in Nat /\ Cardinality(X) \in Nat
            /\ Cardinality(Y) = Cardinality(X) => Y = X
            /\ Cardinality(Y) <= Cardinality(X)
        BY <4>1, <4>2, FS_Subset, FS_CardinalityType
      <4>7. Y = X
        BY <4>5, <4>6
      <4>8. QED
        BY <4>7 DEF MissedBy, X, Y
    <3>3. QED
      BY <3>1, <3>2
  <2>6. /\ RightTypes(pairs) = D /\ LabelledIn(pairs) = D
        /\ RightRoutes(pairs) = D
    BY <2>4 DEF RightTypes, LabelledIn, RightRoutes
  <2>7. M = {}
    BY <2>2, <2>5 DEF MissedUpTo
  <2>8. F \cup M = F /\ F # {}
    BY <2>1, <2>2, <2>7, CountedFields
  <2>9. D # {}
    BY <2>1 DEF Expected
  <2>10. Cardinality(D) \in Nat
    BY <2>2, FS_Interval, FS_CardinalityType
  <2>11. Cardinality(F) \in Nat
    BY <2>1, <2>2, EvaluateFacts, FS_CardinalityType
  <2> HIDE DEF D, F, M
  <2>12. \A P \in 1..100 : AtLeast(P, D, D)
    BY <2>9, <2>10 DEF AtLeast
  <2>13. /\ AtLeast(MinClassification, D, D) /\ AtLeast(MinRouting, D, D)
    BY <2>12, ThresholdsAssumption
  <2>14. Cardinality(F) * (200 - MinFieldF1) >= MinFieldF1 * Cardinality(F)
    <3>1. MinFieldF1 \in 1..100
      BY ThresholdsAssumption
    <3>2. \A c \in Nat, p \in 1..100 : c * (200 - p) >= p * c
      <4>1. TAKE c \in Nat, p \in 1..100
      <4>2. c * (200 - p) = c * (200 - 2 * p) + p * c
        OBVIOUS
      <4>3. 200 - 2 * p \in Nat
        OBVIOUS
      <4>4. c * (200 - 2 * p) \in Nat /\ p * c \in Nat
        BY <4>3
      <4>5. QED
        BY <4>2, <4>4
    <3>3. QED
      BY <2>11, <3>1, <3>2
  <2>15. QED
    BY <2>1, <2>2, <2>6, <2>8, <2>13, <2>14, GateDecides DEF D, F, M
<1>2. QED
  BY <1>1, EvalCorrect, PTL

=============================================================================
