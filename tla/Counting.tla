------------------------------ MODULE Counting ------------------------------
(***************************************************************************)
(* What the proofs about loops and counts need, for any data: induction    *)
(* over the index of a loop, said of sets and functions, a loop as a       *)
(* recursive function of its index, and cardinalities.                     *)
(***************************************************************************)
EXTENDS Integers, FiniteSets, FiniteSetTheorems, WellFoundedInduction, TLAPS

(* Induction up to N: a set that holds 0 and, with each index, the next.   *)
LEMMA UpTo ==
    ASSUME NEW N \in Nat, NEW T, 0 \in T,
           \A i \in 1..N : i - 1 \in T => i \in T
    PROVE  \A i \in 0..N : i \in T
<1> DEFINE Missing == {i \in 0..N : i \notin T}
<1>1. SUFFICES ASSUME Missing # {} PROVE FALSE
  OBVIOUS
<1>2. PICK m \in Missing : \A k \in Missing : <<k, m>> \notin OpToRel(<, Nat)
  <2>1. Missing \subseteq Nat
    OBVIOUS
  <2>2. QED
    BY <1>1, <2>1, WFMin, NatLessThanWellFounded, Zenon
<1>3. m \in 1..N
  OBVIOUS
<1>4. m - 1 \in 0..N /\ m - 1 < m /\ m - 1 \in Nat /\ m \in Nat
  BY <1>3
<1>5. m - 1 \notin Missing
  <2>1. <<m - 1, m>> \in OpToRel(<, Nat)
    BY <1>4 DEF OpToRel
  <2>2. QED
    BY <1>2, <2>1
<1>6. QED
  BY <1>3, <1>4, <1>5

(* A loop over 1..N: step[<<x, i>>] is what turn i makes of the state x,   *)
(* and g[i] the state after turn i.                                        *)
Turns(step, N, S) == step \in [S \X (1..N) -> S]

StatesOf(g, base, step, N, S) ==
    /\ g \in [0..N -> S]
    /\ g[0] = base
    /\ \A i \in 1..N : g[i] = step[<<g[i - 1], i>>]

(* Every loop with a state in S has its states after each turn. *)
LEMMA LoopExists ==
    ASSUME NEW N, NEW S, NEW base, NEW step,
           N \in Nat, base \in S, Turns(step, N, S)
    PROVE  \E g : StatesOf(g, base, step, N, S)
<1> USE DEF Turns
<1> DEFINE Runs(n, g) == /\ g \in [0..n -> S]
                         /\ g[0] = base
                         /\ \A i \in 1..n : g[i] = step[<<g[i - 1], i>>]
           T == {n \in 0..N : \E g : Runs(n, g)}
<1>1. 0 \in T
  <2>1. Runs(0, [i \in 0..0 |-> base])
    OBVIOUS
  <2> HIDE DEF Runs
  <2>2. QED
    BY <2>1
<1>2. ASSUME NEW n \in 1..N, n - 1 \in T
      PROVE  n \in T
  <2>1. PICK g : Runs(n - 1, g)
    BY <1>2
  <2> DEFINE h == [i \in 0..n |-> IF i = n THEN step[<<g[n - 1], n>>]
                                 ELSE g[i]]
  <2>2. g[n - 1] \in S
    BY <2>1
  <2>3. step[<<g[n - 1], n>>] \in S
    BY <2>2
  <2>4. h \in [0..n -> S]
    BY <2>1, <2>3
  <2>5. h[0] = base
    BY <2>1
  <2>6. ASSUME NEW i \in 1..n
        PROVE  h[i] = step[<<h[i - 1], i>>]
    <3>1. i - 1 \in 0..(n - 1) /\ h[i - 1] = g[i - 1]
      OBVIOUS
    <3>2. CASE i = n
      <4>1. h[n] = step[<<g[n - 1], n>>]
        OBVIOUS
      <4>2. QED
        BY <3>1, <3>2, <4>1
    <3>3. CASE i # n
      <4>1. i \in 1..(n - 1)
        BY <3>3
      <4>2. h[i] = g[i] /\ g[i] = step[<<g[i - 1], i>>]
        BY <2>1, <3>3, <4>1
      <4>3. QED
        BY <3>1, <4>2
    <3>4. QED
      BY <3>2, <3>3
  <2>7. Runs(n, h)
    BY <2>4, <2>5, <2>6
  <2> HIDE DEF Runs, h
  <2>8. QED
    BY <2>7
<1>3. N \in T
  <2> HIDE DEF T
  <2>1. \A i \in 0..N : i \in T
    BY <1>1, <1>2, UpTo
  <2>2. QED
    BY <2>1
<1>4. QED
  BY <1>3 DEF StatesOf

-----------------------------------------------------------------------------
(* Counting up to n: the index n adds one exactly when it counts. *)
LEMMA CountNext ==
    ASSUME NEW A, NEW n \in Nat \ {0}
    PROVE  /\ IsFiniteSet(A \cap (1..n))
           /\ Cardinality(A \cap (1..n)) \in Nat
           /\ Cardinality(A \cap (1..n))
                 = Cardinality(A \cap (1..(n - 1)))
                      + (IF n \in A THEN 1 ELSE 0)
<1> DEFINE B == A \cap (1..(n - 1))
<1>1. IsFiniteSet(B)
  <2>1. IsFiniteSet(1..(n - 1))
    BY FS_Interval
  <2>2. QED
    BY <2>1, FS_Intersection
<1>2. Cardinality(B) \in Nat
  BY <1>1, FS_CardinalityType
<1>3. n \notin B
  OBVIOUS
<1>4. CASE n \in A
  <2>1. A \cap (1..n) = B \cup {n}
    BY <1>4
  <2> HIDE DEF B
  <2>2. QED
    <3>1. /\ IsFiniteSet(B \cup {n})
          /\ Cardinality(B \cup {n}) = Cardinality(B) + 1
      BY <1>1, <1>3, FS_AddElement
    <3>2. QED
      BY <1>2, <1>4, <2>1, <3>1 DEF B
<1>5. CASE n \notin A
  <2>1. A \cap (1..n) = B
    BY <1>5
  <2> HIDE DEF B
  <2>2. QED
    <3>1. /\ IsFiniteSet(A \cap (1..n))
          /\ Cardinality(A \cap (1..n)) = Cardinality(B)
      BY <1>1, <2>1, Zenon
    <3>2. Cardinality(B) = Cardinality(B) + 0
      BY <1>2
    <3>3. QED
      BY <1>2, <1>5, <3>1, <3>2 DEF B
<1>6. QED
  BY <1>4, <1>5

(* A row of pairs <<n, x>> that a finite set has none of adds its size. *)
LEMMA RowAdds ==
    ASSUME NEW F, IsFiniteSet(F), NEW M, IsFiniteSet(M), NEW n,
           \A x \in M : <<n, x>> \notin F
    PROVE  /\ IsFiniteSet(F \cup ({n} \X M))
           /\ Cardinality(F \cup ({n} \X M))
                 = Cardinality(F) + Cardinality(M)
<1> DEFINE Row == {n} \X M
<1>1. IsFiniteSet({n}) /\ Cardinality({n}) = 1
  BY FS_Singleton
<1>2. IsFiniteSet(Row) /\ Cardinality(Row) = 1 * Cardinality(M)
  BY <1>1, FS_Product
<1>3. Cardinality(M) \in Nat /\ Cardinality(F) \in Nat
  BY FS_CardinalityType
<1>4. F \cap Row = {}
  OBVIOUS
<1>5. Cardinality(F \cap Row) = 0
  BY <1>4, FS_EmptySet
<1> HIDE DEF Row
<1>6. /\ IsFiniteSet(F \cup Row)
      /\ Cardinality(F \cup Row)
            = Cardinality(F) + Cardinality(Row) - Cardinality(F \cap Row)
  BY <1>2, FS_Union
<1>7. QED
  BY <1>2, <1>3, <1>5, <1>6 DEF Row

(* A sequence without repetitions is as long as the set of its elements. *)
LEMMA DistinctLength ==
    ASSUME NEW n \in Nat, NEW s, DOMAIN s = 1..n,
           \A i, k \in 1..n : s[i] = s[k] => i = k
    PROVE  LET R == {s[i] : i \in 1..n}
           IN  IsFiniteSet(R) /\ Cardinality(R) = n
<1> DEFINE R == {s[i] : i \in 1..n}
           f == [i \in 1..n |-> s[i]]
<1>1. f \in Bijection(1..n, R)
  BY DEF Bijection, Injection, Surjection, IsInjective
<1>2. ExistsBijection(1..n, R)
  BY <1>1 DEF ExistsBijection
<1>3. IsFiniteSet(1..n) /\ Cardinality(1..n) = n
  BY FS_Interval
<1> HIDE DEF R, f
<1>4. IsFiniteSet(R) /\ Cardinality(R) = n
  BY <1>2, <1>3, FS_Bijection
<1>5. QED
  BY <1>4 DEF R

=============================================================================
