------------------------------ MODULE FoldLemmas ------------------------------
(***************************************************************************)
(* What the folds of the community modules compute: sums, sequences joined *)
(* end to end, and the least and greatest of a set of numbers.  A fold is  *)
(* a function by recursion, so each lemma first shows that there is such a *)
(* function; induction is the least counterexample.                        *)
(***************************************************************************)
EXTENDS Integers, Sequences, FiniteSets, FiniteSetsExt, SequencesExt,
        FiniteSetTheorems, SequenceTheorems, WellFoundedInduction, TLAPS

\* Min is what its name says.
LEMMA LeastNumber ==
  ASSUME NEW S \in SUBSET Nat, S # {}
  PROVE  Min(S) \in S /\ \A y \in S : Min(S) <= y
<1> DEFINE R == {p \in Nat \X Nat : p[1] < p[2]}
<1>1. IsWellFoundedOn(R, Nat)
  <2>1. OpToRel(<, Nat) = R
    BY DEF OpToRel
  <2>2. QED
    BY <2>1, NatLessThanWellFounded
<1>2. PICK x \in S : \A y \in S : <<y, x>> \notin R
  BY <1>1, WFMin
<1>3. \A y \in S : x <= y
  <2> SUFFICES ASSUME NEW y \in S, ~(x <= y)
               PROVE  FALSE
    OBVIOUS
  <2>1. y \in Nat /\ x \in Nat /\ y < x
    OBVIOUS
  <2>2. QED
    BY <1>2, <2>1
<1>4. QED
  BY <1>3 DEF Min

-----------------------------------------------------------------------------
(* Sums *)

Summed(f) == FoldFunction(+, 0, f)

Picked(s) == CHOOSE x \in s : TRUE

\* g adds up f over each set, one picked element at a time.
Adds(g, f) ==
  g = [s \in SUBSET DOMAIN f |-> IF s = {} THEN 0 ELSE f[Picked(s)] + g[s \ {Picked(s)}]]

\* g does so for sets of at most k elements.
AddsUpTo(g, f, k) ==
  \A s \in SUBSET DOMAIN f : Cardinality(s) <= k =>
    g[s] = IF s = {} THEN 0 ELSE f[Picked(s)] + g[s \ {Picked(s)}]

LEMMA Dropped ==
  ASSUME NEW s, IsFiniteSet(s), s # {}
  PROVE  /\ Picked(s) \in s /\ s \ {Picked(s)} \in SUBSET s
         /\ \A x \in s : /\ IsFiniteSet(s \ {x}) /\ Cardinality(s \ {x}) = Cardinality(s) - 1
                         /\ Cardinality(s) \in Nat /\ Cardinality(s \ {x}) \in Nat
<1>1. Picked(s) \in s
  BY DEF Picked
<1>2. ASSUME NEW x \in s
      PROVE  /\ IsFiniteSet(s \ {x}) /\ Cardinality(s \ {x}) = Cardinality(s) - 1
             /\ Cardinality(s) \in Nat /\ Cardinality(s \ {x}) \in Nat
  <2>1. IsFiniteSet(s \ {x}) /\ Cardinality(s \ {x}) = Cardinality(s) - 1
    BY FS_RemoveElement
  <2>2. QED
    BY <2>1, FS_CardinalityType
<1>3. QED
  BY <1>1, <1>2

LEMMA AdderExists ==
  ASSUME NEW f, IsFiniteSet(DOMAIN f)
  PROVE  \E g : Adds(g, f)
<1> DEFINE Unable == {k \in Nat : \A g : ~AddsUpTo(g, f, k)}
           D == DOMAIN f
           H(g) == [s \in SUBSET D |-> IF s = {} THEN 0 ELSE f[Picked(s)] + g[s \ {Picked(s)}]]
<1>1. \A s \in SUBSET D : IsFiniteSet(s) /\ Cardinality(s) \in Nat /\ Cardinality(s) <= Cardinality(D)
                          /\ (Cardinality(s) = 0 <=> s = {})
  BY FS_Subset, FS_CardinalityType, FS_EmptySet
<1>2. ASSUME NEW g, NEW k \in Nat, AddsUpTo(g, f, k)
      PROVE  AddsUpTo(H(g), f, k + 1)
  <2> SUFFICES ASSUME NEW s \in SUBSET D, Cardinality(s) <= k + 1
               PROVE  H(g)[s] = IF s = {} THEN 0 ELSE f[Picked(s)] + H(g)[s \ {Picked(s)}]
    BY DEF AddsUpTo
  <2>1. CASE s = {}
    BY <2>1
  <2>2. CASE s # {}
    <3> DEFINE t == s \ {Picked(s)}
    <3>1. t \in SUBSET D /\ Cardinality(t) <= k
      BY <1>1, <2>2, Dropped
    <3>2. g[t] = IF t = {} THEN 0 ELSE f[Picked(t)] + g[t \ {Picked(t)}]
      BY <1>2, <3>1 DEF AddsUpTo
    <3>3. H(g)[t] = g[t]
      BY <3>1, <3>2
    <3>4. QED
      BY <2>2, <3>3
  <2>3. QED
    BY <2>1, <2>2
<1>3. AddsUpTo(H(f), f, 0)
  BY <1>1 DEF AddsUpTo
<1>4. Unable = {}
  <2> SUFFICES ASSUME Unable # {}
               PROVE  FALSE
    OBVIOUS
  <2> DEFINE m == Min(Unable)
  <2>1. m \in Unable /\ \A k \in Unable : m <= k
    <3>1. Unable \in SUBSET Nat
      OBVIOUS
    <3>2. QED
      BY <3>1, LeastNumber
  <2> HIDE DEF m, H
  <2>2. m \in Nat /\ \A g : ~AddsUpTo(g, f, m)
    BY <2>1
  <2>3. m # 0
    BY <1>3, <2>2
  <2>4. m - 1 \in Nat /\ ~(m <= m - 1) /\ (m - 1) + 1 = m
    BY <2>2, <2>3
  <2>5. PICK g : AddsUpTo(g, f, m - 1)
    BY <2>1, <2>4
  <2>6. AddsUpTo(H(g), f, m)
    BY <1>2, <2>4, <2>5
  <2>7. QED
    BY <2>2, <2>6
<1>5. Cardinality(D) \in Nat
  BY FS_CardinalityType
<1>6. PICK g : AddsUpTo(g, f, Cardinality(D))
  BY <1>4, <1>5
<1>7. Adds(H(g), f)
  <2>1. \A s \in SUBSET D : H(g)[s] = g[s]
    BY <1>1, <1>6 DEF AddsUpTo
  <2>2. \A s \in SUBSET D : s # {} => s \ {Picked(s)} \in SUBSET D
    OBVIOUS
  <2>3. \A s \in SUBSET D : H(g)[s] = IF s = {} THEN 0 ELSE f[Picked(s)] + H(g)[s \ {Picked(s)}]
    BY <2>1, <2>2
  <2>4. H(g) = [s \in SUBSET D |-> H(g)[s]]
    OBVIOUS
  <2> HIDE DEF H
  <2>5. QED
    BY <2>3, <2>4 DEF Adds
<1>8. QED
  BY <1>7

\* Summed is some adder's value.
LEMMA SummedByAdder ==
  ASSUME NEW f, IsFiniteSet(DOMAIN f)
  PROVE  \E g : Adds(g, f) /\ Summed(f) = g[DOMAIN f]
<1> DEFINE G == CHOOSE g : Adds(g, f)
<1>1. Adds(G, f)
  BY AdderExists
<1>2. Summed(f) = G[DOMAIN f]
  BY DEF Summed, FoldFunction, FoldFunctionOnSet, MapThenFoldSet, Adds, Picked
<1>3. QED
  BY <1>1, <1>2

\* An adder may take any element first.
LEMMA AnyFirst ==
  ASSUME NEW f, IsFiniteSet(DOMAIN f), \A x \in DOMAIN f : f[x] \in Int, NEW g, Adds(g, f),
         NEW S \in SUBSET DOMAIN f
  PROVE  g[S] \in Int /\ \A x \in S : g[S] = f[x] + g[S \ {x}]
<1> DEFINE D == DOMAIN f
           Fine(s) == g[s] \in Int /\ \A x \in s : g[s] = f[x] + g[s \ {x}]
           Bad == {k \in Nat : \E s \in SUBSET D : Cardinality(s) = k /\ ~Fine(s)}
<1>1. \A s \in SUBSET D : IsFiniteSet(s) /\ Cardinality(s) \in Nat
  BY FS_Subset, FS_CardinalityType
<1>2. \A s \in SUBSET D : g[s] = IF s = {} THEN 0 ELSE f[Picked(s)] + g[s \ {Picked(s)}]
  BY Zenon DEF Adds
<1>3. Bad = {}
  <2> SUFFICES ASSUME Bad # {}
               PROVE  FALSE
    OBVIOUS
  <2> DEFINE m == Min(Bad)
  <2>1. m \in Bad /\ \A k \in Bad : m <= k
    <3>1. Bad \in SUBSET Nat
      OBVIOUS
    <3>2. QED
      BY <3>1, LeastNumber
  <2> HIDE DEF m
  <2>2. PICK s \in SUBSET D : Cardinality(s) = m /\ ~Fine(s)
    BY <2>1
  <2>3. \A t \in SUBSET D : Cardinality(t) < m => Fine(t)
    <3> SUFFICES ASSUME NEW t \in SUBSET D, Cardinality(t) < m, ~Fine(t)
                 PROVE  FALSE
      OBVIOUS
    <3>1. Cardinality(t) \in Nat
      BY <1>1
    <3>2. Cardinality(t) \in Bad
      BY <3>1
    <3>3. m \in Nat /\ m <= Cardinality(t)
      BY <2>1, <3>2
    <3>4. QED
      BY <3>1, <3>3
  <2>4. CASE s = {}
    <3>1. g[s] = 0
      BY <1>2, <2>4
    <3>2. Fine(s)
      BY <2>4, <3>1
    <3>3. QED
      BY <2>2, <3>2
  <2>5. CASE s # {}
    <3> DEFINE p == Picked(s)
    <3>1. p \in s /\ g[s] = f[p] + g[s \ {p}]
      BY <1>1, <1>2, <2>5, Dropped
    <3>2. \A x \in s : s \ {x} \in SUBSET D /\ Fine(s \ {x})
      BY <1>1, <2>2, <2>3, <2>5, Dropped
    <3> HIDE DEF p
    <3>3. g[s] \in Int
      <4>1. p \in D /\ f[p] \in Int /\ g[s \ {p}] \in Int
        BY <3>1, <3>2
      <4>2. QED
        BY <3>1, <4>1
    <3>4. ASSUME NEW x \in s
          PROVE  g[s] = f[x] + g[s \ {x}]
      <4>1. CASE x = p
        BY <3>1, <4>1
      <4>2. CASE x # p
        <5>1. x \in s \ {p} /\ p \in s \ {x}
          BY <3>1, <4>2
        <5>2. g[s \ {p}] = f[x] + g[(s \ {p}) \ {x}]
          BY <3>1, <3>2, <5>1
        <5>3. g[s \ {x}] = f[p] + g[(s \ {x}) \ {p}]
          BY <3>2, <5>1
        <5>4. (s \ {p}) \ {x} = (s \ {x}) \ {p}
          OBVIOUS
        <5>5. f[x] \in Int /\ f[p] \in Int
          BY <3>1
        <5>6. g[(s \ {p}) \ {x}] \in Int
          <6>1. Cardinality((s \ {p}) \ {x}) < m /\ (s \ {p}) \ {x} \in SUBSET D
            <7>1. IsFiniteSet(s \ {p}) /\ Cardinality(s \ {p}) = m - 1 /\ m \in Nat /\ s \ {p} # {}
              BY <1>1, <2>2, <3>1, <5>1, <2>5, Dropped
            <7>2. Cardinality((s \ {p}) \ {x}) = Cardinality(s \ {p}) - 1
              BY <5>1, <7>1, Dropped
            <7>3. QED
              BY <7>1, <7>2
          <6>2. QED
            BY <2>3, <6>1
        <5> DEFINE w == g[(s \ {p}) \ {x}]
        <5>7. g[s] = f[p] + (f[x] + w) /\ g[s \ {x}] = f[p] + w /\ w \in Int
          BY <3>1, <5>2, <5>3, <5>4, <5>6
        <5> HIDE DEF w
        <5>8. QED
          BY <5>5, <5>7
      <4>3. QED
        BY <4>1, <4>2
    <3>5. QED
      BY <2>2, <3>3, <3>4
  <2>6. QED
    BY <2>4, <2>5
<1>4. QED
  BY <1>1, <1>3

\* Two functions that agree on a set have the same sum over it.
LEMMA SameSum ==
  ASSUME NEW e, NEW f, IsFiniteSet(DOMAIN e), IsFiniteSet(DOMAIN f),
         NEW g, NEW h, Adds(g, e), Adds(h, f),
         NEW S, S \subseteq DOMAIN e, S \subseteq DOMAIN f, \A x \in S : e[x] = f[x]
  PROVE  g[S] = h[S]
<1> DEFINE Bad == {k \in Nat : \E s \in SUBSET S : Cardinality(s) = k /\ g[s] # h[s]}
<1>1. \A s \in SUBSET S : IsFiniteSet(s) /\ Cardinality(s) \in Nat
  BY FS_Subset, FS_CardinalityType
<1>2. \A s \in SUBSET S :
        /\ g[s] = IF s = {} THEN 0 ELSE e[Picked(s)] + g[s \ {Picked(s)}]
        /\ h[s] = IF s = {} THEN 0 ELSE f[Picked(s)] + h[s \ {Picked(s)}]
  <2> TAKE s \in SUBSET S
  <2>1. s \in SUBSET DOMAIN e /\ s \in SUBSET DOMAIN f
    OBVIOUS
  <2>2. QED
    BY <2>1, Zenon DEF Adds
<1>3. Bad = {}
  <2> SUFFICES ASSUME Bad # {}
               PROVE  FALSE
    OBVIOUS
  <2> DEFINE m == Min(Bad)
  <2>1. m \in Bad /\ \A k \in Bad : m <= k
    <3>1. Bad \in SUBSET Nat
      OBVIOUS
    <3>2. QED
      BY <3>1, LeastNumber
  <2> HIDE DEF m
  <2>2. PICK s \in SUBSET S : Cardinality(s) = m /\ g[s] # h[s]
    BY <2>1
  <2>3. s # {}
    BY <1>2, <2>2
  <2> DEFINE t == s \ {Picked(s)}
  <2>4. Picked(s) \in s /\ t \in SUBSET S /\ Cardinality(t) \in Nat /\ Cardinality(t) < m
    BY <1>1, <2>2, <2>3, Dropped
  <2>5. g[t] = h[t]
    BY <2>1, <2>4
  <2>6. QED
    BY <1>2, <2>2, <2>3, <2>4, <2>5
<1>4. QED
  BY <1>1, <1>3

\* The sum over nothing is 0, and any element may be taken out of a sum.
LEMMA SumOfNone ==
  ASSUME NEW f, DOMAIN f = {}
  PROVE  Summed(f) = 0
<1>1. IsFiniteSet(DOMAIN f)
  BY FS_EmptySet
<1>2. PICK g : Adds(g, f) /\ Summed(f) = g[DOMAIN f]
  BY <1>1, SummedByAdder
<1>3. {} \in SUBSET DOMAIN f
  OBVIOUS
<1>4. g[{}] = 0
  BY <1>2, <1>3, Zenon DEF Adds
<1>5. QED
  BY <1>2, <1>4

LEMMA SumTakesOut ==
  ASSUME NEW f, IsFiniteSet(DOMAIN f), \A x \in DOMAIN f : f[x] \in Int, NEW a \in DOMAIN f,
         NEW e, DOMAIN e = DOMAIN f \ {a}, \A x \in DOMAIN e : e[x] = f[x]
  PROVE  Summed(f) \in Int /\ Summed(e) \in Int /\ Summed(f) = f[a] + Summed(e)
<1>1. IsFiniteSet(DOMAIN e)
  BY FS_Subset
<1>2. PICK g : Adds(g, f) /\ Summed(f) = g[DOMAIN f]
  BY SummedByAdder
<1>3. PICK h : Adds(h, e) /\ Summed(e) = h[DOMAIN e]
  BY <1>1, SummedByAdder
<1>4. /\ g[DOMAIN f] \in Int /\ g[DOMAIN f] = f[a] + g[DOMAIN f \ {a}]
      /\ g[DOMAIN f \ {a}] \in Int
  <2>1. DOMAIN f \in SUBSET DOMAIN f /\ DOMAIN f \ {a} \in SUBSET DOMAIN f
    OBVIOUS
  <2> DEFINE S == DOMAIN f
             T == DOMAIN f \ {a}
  <2>2. S \in SUBSET DOMAIN f /\ T \in SUBSET DOMAIN f /\ a \in S
    BY <2>1
  <2>3. Adds(g, f)
    BY <1>2
  <2> HIDE DEF S, T
  <2>4. g[S] \in Int /\ \A x \in S : g[S] = f[x] + g[S \ {x}]
    BY <2>2, <2>3, AnyFirst
  <2>5. g[T] \in Int
    BY <2>2, <2>3, AnyFirst
  <2>6. QED
    BY <2>2, <2>4, <2>5 DEF S, T
<1>5. g[DOMAIN e] = h[DOMAIN e]
  <2>1. DOMAIN e \subseteq DOMAIN f /\ DOMAIN e \subseteq DOMAIN e
    OBVIOUS
  <2>2. \A x \in DOMAIN e : f[x] = e[x]
    OBVIOUS
  <2>3. QED
    BY <1>1, <1>2, <1>3, <2>1, <2>2, SameSum
<1>6. QED
  BY <1>2, <1>3, <1>4, <1>5
\* A sum stays in a set that its terms are in and that adding does not leave.
LEMMA SumStaysIn ==
  ASSUME NEW Z, 0 \in Z, \A x, y \in Z : x + y \in Z,
         NEW f, IsFiniteSet(DOMAIN f), \A x \in DOMAIN f : f[x] \in Z
  PROVE  Summed(f) \in Z
<1>1. PICK g : Adds(g, f) /\ Summed(f) = g[DOMAIN f]
  BY SummedByAdder
<1> DEFINE D == DOMAIN f
           Bad == {k \in Nat : \E s \in SUBSET D : Cardinality(s) = k /\ g[s] \notin Z}
<1>2. \A s \in SUBSET D : IsFiniteSet(s) /\ Cardinality(s) \in Nat
  BY FS_Subset, FS_CardinalityType
<1>3. \A s \in SUBSET D : g[s] = IF s = {} THEN 0 ELSE f[Picked(s)] + g[s \ {Picked(s)}]
  BY <1>1, Zenon DEF Adds
<1>4. Bad = {}
  <2> SUFFICES ASSUME Bad # {}
               PROVE  FALSE
    OBVIOUS
  <2> DEFINE m == Min(Bad)
  <2>1. m \in Bad /\ \A k \in Bad : m <= k
    <3>1. Bad \in SUBSET Nat
      OBVIOUS
    <3>2. QED
      BY <3>1, LeastNumber
  <2> HIDE DEF m
  <2>2. PICK s \in SUBSET D : Cardinality(s) = m /\ g[s] \notin Z
    BY <2>1
  <2>3. s # {}
    BY <1>3, <2>2
  <2> DEFINE t == s \ {Picked(s)}
  <2>4. Picked(s) \in s /\ t \in SUBSET D /\ Cardinality(t) \in Nat /\ Cardinality(t) < m
    BY <1>2, <2>2, <2>3, Dropped
  <2>5. g[t] \in Z
    BY <2>1, <2>4
  <2>6. QED
    BY <1>3, <2>2, <2>3, <2>4, <2>5
<1>5. QED
  BY <1>1, <1>2, <1>4

\* One term more.
LEMMA SumMore ==
  ASSUME NEW n \in Nat, NEW f, DOMAIN f = 1..(n + 1), \A x \in 1..(n + 1) : f[x] \in Int,
         NEW e, DOMAIN e = 1..n, \A x \in 1..n : e[x] = f[x]
  PROVE  Summed(f) \in Int /\ Summed(e) \in Int /\ Summed(f) = f[n + 1] + Summed(e)
<1>1. IsFiniteSet(DOMAIN f)
  BY FS_Interval
<1>2. n + 1 \in DOMAIN f /\ DOMAIN e = DOMAIN f \ {n + 1}
  OBVIOUS
<1>3. (\A x \in DOMAIN f : f[x] \in Int) /\ \A x \in DOMAIN e : e[x] = f[x]
  OBVIOUS
<1> DEFINE a == n + 1
<1> HIDE DEF a
<1>4. Summed(f) \in Int /\ Summed(e) \in Int /\ Summed(f) = f[a] + Summed(e)
  BY <1>1, <1>2, <1>3, SumTakesOut DEF a
<1>5. QED
  BY <1>4 DEF a
-----------------------------------------------------------------------------
(* Folds from the left *)

\* Max is what its name says.
LEMMA GreatestNumber ==
  ASSUME NEW n \in Nat, NEW S \in SUBSET (0..n), S # {}
  PROVE  Max(S) \in S /\ \A y \in S : y <= Max(S)
<1> DEFINE T == {n - y : y \in S}
<1>1. T \in SUBSET Nat /\ T # {}
  <2>1. \A y \in S : n - y \in Nat
    OBVIOUS
  <2>2. QED
    BY <2>1
<1>2. Min(T) \in T /\ \A z \in T : Min(T) <= z
  BY <1>1, LeastNumber
<1>3. PICK x \in S : Min(T) = n - x
  BY <1>2
<1>4. \A y \in S : y <= x
  <2> TAKE y \in S
  <2>1. n - y \in T
    OBVIOUS
  <2>2. n - x <= n - y
    BY <1>2, <1>3, <2>1
  <2>3. x \in 0..n /\ y \in 0..n
    OBVIOUS
  <2>4. QED
    BY <2>2, <2>3
<1>5. QED
  BY <1>4 DEF Max

\* An interval and its bounds.
LEMMA IntervalEnds ==
  ASSUME NEW a \in Nat, NEW b \in Nat, a <= b
  PROVE  /\ Min(a..b) = a /\ Max(a..b) = b /\ Cardinality(a..b) = b - a + 1
<1>1. Min(a..b) = a
  <2>1. a..b \in SUBSET Nat /\ a..b # {}
    OBVIOUS
  <2>2. Min(a..b) \in a..b /\ \A y \in a..b : Min(a..b) <= y
    BY <2>1, LeastNumber
  <2>3. QED
    BY <2>2
<1>2. Max(a..b) = b
  <2>1. a..b \in SUBSET (0..b) /\ a..b # {}
    OBVIOUS
  <2>2. Max(a..b) \in a..b /\ \A y \in a..b : y <= Max(a..b)
    BY <2>1, GreatestNumber
  <2>3. QED
    BY <2>2
<1>3. Cardinality(a..b) = b - a + 1
  BY FS_Interval
<1>4. QED
  BY <1>1, <1>2, <1>3

\* Without its last element a set of the first n numbers is smaller.
LEMMA LastDropped ==
  ASSUME NEW n \in Nat, NEW s \in SUBSET (1..n)
  PROVE  /\ IsFiniteSet(s) /\ Cardinality(s) \in Nat
         /\ s # {} => /\ Max(s) \in s /\ s \ {Max(s)} \in SUBSET (1..n)
                      /\ Cardinality(s \ {Max(s)}) \in Nat
                      /\ Cardinality(s \ {Max(s)}) < Cardinality(s)
<1>1. IsFiniteSet(s) /\ Cardinality(s) \in Nat
  <2>1. IsFiniteSet(1..n)
    BY FS_Interval
  <2>2. IsFiniteSet(s)
    BY <2>1, FS_Subset
  <2>3. QED
    BY <2>2, FS_CardinalityType
<1>2. ASSUME s # {}
      PROVE  /\ Max(s) \in s /\ s \ {Max(s)} \in SUBSET (1..n)
             /\ Cardinality(s \ {Max(s)}) \in Nat
             /\ Cardinality(s \ {Max(s)}) < Cardinality(s)
  <2>1. s \in SUBSET (0..n)
    OBVIOUS
  <2>2. Max(s) \in s
    BY <1>2, <2>1, GreatestNumber
  <2> DEFINE m == Max(s)
  <2>3. m \in s
    BY <2>2
  <2> HIDE DEF m
  <2>4. Cardinality(s \ {m}) \in Nat /\ Cardinality(s \ {m}) = Cardinality(s) - 1
    BY <1>1, <1>2, <2>3, Dropped
  <2>5. s \ {m} \in SUBSET (1..n)
    OBVIOUS
  <2>6. Cardinality(s \ {m}) < Cardinality(s)
    BY <1>1, <2>4
  <2>7. QED
    BY <2>3, <2>4, <2>5, <2>6 DEF m
<1>3. QED
  BY <1>1, <1>2

\* b is a sequence of functions: g[s] is what those at s make of base, from the
\* left.
Folds(g, base, b) ==
  g = [s \in SUBSET DOMAIN b |-> IF s = {} THEN base ELSE b[Max(s)][g[s \ {Max(s)}]]]

\* g does so for sets of at most k elements.
FoldsUpTo(g, base, b, k) ==
  /\ g = [s \in SUBSET DOMAIN b |-> g[s]]
  /\ \A s \in SUBSET DOMAIN b : Cardinality(s) <= k =>
       g[s] = IF s = {} THEN base ELSE b[Max(s)][g[s \ {Max(s)}]]

LEMMA FoldExists ==
  ASSUME NEW base, NEW n \in Nat, NEW b, DOMAIN b = 1..n
  PROVE  \E g : Folds(g, base, b)
<1> DEFINE Unable == {k \in Nat : \A g : ~FoldsUpTo(g, base, b, k)}
           D == DOMAIN b
           H(g) == [s \in SUBSET D |-> IF s = {} THEN base ELSE b[Max(s)][g[s \ {Max(s)}]]]
<1>1. \A s \in SUBSET D : /\ Cardinality(s) \in Nat
                          /\ s # {} => /\ s \ {Max(s)} \in SUBSET D
                                       /\ Cardinality(s \ {Max(s)}) \in Nat
                                       /\ Cardinality(s \ {Max(s)}) < Cardinality(s)
  BY LastDropped
<1>2. ASSUME NEW g, NEW k \in Nat, FoldsUpTo(g, base, b, k)
      PROVE  FoldsUpTo(H(g), base, b, k + 1)
  <2>1. ASSUME NEW s \in SUBSET D, Cardinality(s) <= k + 1, s # {}
        PROVE  H(g)[s] = b[Max(s)][H(g)[s \ {Max(s)}]]
    <3> DEFINE t == s \ {Max(s)}
    <3>1. t \in SUBSET D /\ Cardinality(t) <= k
      BY <1>1, <2>1
    <3>2. g[t] = IF t = {} THEN base ELSE b[Max(t)][g[t \ {Max(t)}]]
      BY <1>2, <3>1 DEF FoldsUpTo
    <3>3. H(g)[t] = g[t]
      BY <3>1, <3>2
    <3>4. H(g)[s] = b[Max(s)][g[t]]
      BY <2>1
    <3>5. QED
      BY <3>3, <3>4
  <2>2. \A s \in SUBSET D : s = {} => H(g)[s] = base
    OBVIOUS
  <2>3. H(g) = [s \in SUBSET D |-> H(g)[s]]
    OBVIOUS
  <2> HIDE DEF H
  <2>4. QED
    BY <2>1, <2>2, <2>3 DEF FoldsUpTo
<1>3. FoldsUpTo(H(b), base, b, 0)
  <2>1. H(b) = [s \in SUBSET D |-> H(b)[s]]
    OBVIOUS
  <2>2. \A s \in SUBSET D : Cardinality(s) <= 0 => s = {}
    <3> SUFFICES ASSUME NEW s \in SUBSET D, Cardinality(s) <= 0, s # {}
                 PROVE  FALSE
      OBVIOUS
    <3>1. Cardinality(s \ {Max(s)}) \in Nat /\ Cardinality(s \ {Max(s)}) < Cardinality(s)
      BY <1>1
    <3>2. Cardinality(s) \in Nat
      BY <1>1
    <3>3. QED
      BY <3>1, <3>2
  <2>3. \A s \in SUBSET D : s = {} => H(b)[s] = base
    OBVIOUS
  <2> HIDE DEF H
  <2>4. QED
    BY <2>1, <2>2, <2>3 DEF FoldsUpTo
<1>4. Unable = {}
  <2> SUFFICES ASSUME Unable # {}
               PROVE  FALSE
    OBVIOUS
  <2> DEFINE m == Min(Unable)
  <2>1. m \in Unable /\ \A k \in Unable : m <= k
    <3>1. Unable \in SUBSET Nat
      OBVIOUS
    <3>2. QED
      BY <3>1, LeastNumber
  <2> HIDE DEF m, H
  <2>2. m \in Nat /\ \A g : ~FoldsUpTo(g, base, b, m)
    BY <2>1
  <2>3. m # 0
    BY <1>3, <2>2
  <2>4. m - 1 \in Nat /\ ~(m <= m - 1) /\ (m - 1) + 1 = m
    BY <2>2, <2>3
  <2>5. PICK g : FoldsUpTo(g, base, b, m - 1)
    BY <2>1, <2>4
  <2>6. FoldsUpTo(H(g), base, b, m)
    BY <1>2, <2>4, <2>5
  <2>7. QED
    BY <2>2, <2>6
<1>5. n \in Nat /\ \A s \in SUBSET D : Cardinality(s) <= n
  <2>1. IsFiniteSet(D) /\ Cardinality(D) = n
    <3>1. IsFiniteSet(1..n) /\ Cardinality(1..n) = IF 1 > n THEN 0 ELSE n - 1 + 1
      BY FS_Interval
    <3>2. QED
      BY <3>1
  <2>2. \A s \in SUBSET D : Cardinality(s) <= Cardinality(D)
    BY <2>1, FS_Subset
  <2>3. QED
    BY <2>1, <2>2
<1>6. PICK g : FoldsUpTo(g, base, b, n)
  BY <1>4, <1>5
<1>7. Folds(g, base, b)
  <2>1. g = [s \in SUBSET D |-> g[s]]
    BY <1>6, Zenon DEF FoldsUpTo
  <2>2. \A s \in SUBSET D : g[s] = IF s = {} THEN base ELSE b[Max(s)][g[s \ {Max(s)}]]
    BY <1>5, <1>6, Zenon DEF FoldsUpTo
  <2>3. QED
    BY <2>1, <2>2, Zenon DEF Folds
<1>8. QED
  BY <1>7

\* What is built element by element stays in a set that no element leads out of.
LEMMA FoldStaysIn ==
  ASSUME NEW X, NEW n \in Nat, NEW g, g[{}] \in X,
         \A s \in SUBSET (1..n) : s # {} /\ g[s \ {Max(s)}] \in X => g[s] \in X,
         NEW S \in SUBSET (1..n)
  PROVE  g[S] \in X
<1> DEFINE D == 1..n
           Bad == {k \in Nat : \E s \in SUBSET D : Cardinality(s) = k /\ g[s] \notin X}
<1>1. Bad = {}
  <2> SUFFICES ASSUME Bad # {}
               PROVE  FALSE
    OBVIOUS
  <2> DEFINE m == Min(Bad)
  <2>1. m \in Bad /\ \A k \in Bad : m <= k
    <3>1. Bad \in SUBSET Nat
      OBVIOUS
    <3>2. QED
      BY <3>1, LeastNumber
  <2> HIDE DEF m
  <2>2. PICK s \in SUBSET D : Cardinality(s) = m /\ g[s] \notin X
    BY <2>1
  <2>3. s # {}
    BY <2>2
  <2> DEFINE t == s \ {Max(s)}
  <2>4. t \in SUBSET D /\ Cardinality(t) \in Nat /\ Cardinality(t) < m
    BY <2>2, <2>3, LastDropped
  <2>5. g[t] \in X
    BY <2>1, <2>4
  <2>6. QED
    BY <2>2, <2>3, <2>5
<1>2. Cardinality(S) \in Nat
  BY LastDropped
<1>3. QED
  BY <1>1, <1>2

\* One function more.
LEMMA FoldMore ==
  ASSUME NEW base, NEW n \in Nat, NEW b, DOMAIN b = 1..n, NEW c, DOMAIN c = 1..(n + 1),
         \A k \in 1..n : c[k] = b[k],
         NEW g, Folds(g, base, b), NEW h, Folds(h, base, c)
  PROVE  h[1..(n + 1)] = c[n + 1][g[1..n]]
<1> DEFINE D == 1..n
           Bad == {k \in Nat : \E s \in SUBSET D : Cardinality(s) = k /\ g[s] # h[s]}
<1>1. \A s \in SUBSET D : g[s] = IF s = {} THEN base ELSE b[Max(s)][g[s \ {Max(s)}]]
  BY Zenon DEF Folds
<1>2. \A s \in SUBSET (1..(n + 1)) : h[s] = IF s = {} THEN base ELSE c[Max(s)][h[s \ {Max(s)}]]
  BY Zenon DEF Folds
<1>3. \A s \in SUBSET D : s \in SUBSET (1..(n + 1))
  OBVIOUS
<1>4. Bad = {}
  <2> SUFFICES ASSUME Bad # {}
               PROVE  FALSE
    OBVIOUS
  <2> DEFINE m == Min(Bad)
  <2>1. m \in Bad /\ \A k \in Bad : m <= k
    <3>1. Bad \in SUBSET Nat
      OBVIOUS
    <3>2. QED
      BY <3>1, LeastNumber
  <2> HIDE DEF m
  <2>2. PICK s \in SUBSET D : Cardinality(s) = m /\ g[s] # h[s]
    BY <2>1
  <2>3. s # {}
    BY <1>1, <1>2, <1>3, <2>2
  <2> DEFINE t == s \ {Max(s)}
  <2>4. Max(s) \in s /\ t \in SUBSET D /\ Cardinality(t) \in Nat /\ Cardinality(t) < m
    BY <2>2, <2>3, LastDropped
  <2>5. g[t] = h[t]
    BY <2>1, <2>4
  <2>6. b[Max(s)] = c[Max(s)]
    BY <2>4
  <2>7. g[s] = b[Max(s)][g[t]] /\ h[s] = c[Max(s)][h[t]]
    BY <1>1, <1>2, <1>3, <2>3
  <2>8. QED
    BY <2>2, <2>5, <2>6, <2>7
<1>5. g[1..n] = h[1..n]
  <2>1. Cardinality(1..n) \in Nat
    BY FS_Interval, FS_CardinalityType
  <2>2. QED
    BY <1>4, <2>1
<1> DEFINE s == 1..(n + 1)
<1>6. s # {} /\ s \in SUBSET (1..(n + 1)) /\ Max(s) = n + 1 /\ s \ {Max(s)} = 1..n
  <2>1. s \in SUBSET (0..(n + 1)) /\ s # {} /\ n + 1 \in Nat
    OBVIOUS
  <2>2. Max(s) \in s /\ \A y \in s : y <= Max(s)
    BY <2>1, GreatestNumber
  <2>3. Max(s) = n + 1
    BY <2>2
  <2>4. QED
    BY <2>1, <2>3
<1> HIDE DEF s
<1>7. h[s] = c[Max(s)][h[s \ {Max(s)}]]
  BY <1>2, <1>6
<1>8. QED
  BY <1>5, <1>6, <1>7 DEF s
-----------------------------------------------------------------------------
(* Sequences joined end to end *)

Joins(f, q) == f = [i \in 1..Len(q) |-> IF i = 1 THEN q[i] ELSE f[i - 1] \o q[i]]

JoinsUpTo(f, q, k) ==
  /\ f = [i \in 1..Len(q) |-> f[i]]
  /\ \A i \in 1..Len(q) : i <= k => f[i] = IF i = 1 THEN q[i] ELSE f[i - 1] \o q[i]

LEMMA JoinExists ==
  ASSUME NEW q, Len(q) \in Nat
  PROVE  \E f : Joins(f, q)
<1> DEFINE n == Len(q)
           Unable == {k \in Nat : \A f : ~JoinsUpTo(f, q, k)}
           H(f) == [i \in 1..n |-> IF i = 1 THEN q[i] ELSE f[i - 1] \o q[i]]
<1>1. ASSUME NEW f, NEW k \in Nat, JoinsUpTo(f, q, k)
      PROVE  JoinsUpTo(H(f), q, k + 1)
  <2>1. ASSUME NEW i \in 1..n, i <= k + 1, i # 1
        PROVE  H(f)[i] = H(f)[i - 1] \o q[i]
    <3>1. i - 1 \in 1..n /\ i - 1 <= k
      BY <2>1
    <3> DEFINE j == i - 1
    <3>2. f[j] = IF j = 1 THEN q[j] ELSE f[j - 1] \o q[j]
      BY <1>1, <3>1 DEF JoinsUpTo
    <3>3. H(f)[j] = f[j]
      BY <3>1, <3>2
    <3>4. H(f)[i] = f[j] \o q[i]
      BY <2>1
    <3>5. QED
      BY <3>3, <3>4
  <2>2. \A i \in 1..n : i = 1 => H(f)[i] = q[i]
    OBVIOUS
  <2>3. H(f) = [i \in 1..n |-> H(f)[i]]
    OBVIOUS
  <2> HIDE DEF H
  <2>4. QED
    BY <2>1, <2>2, <2>3 DEF JoinsUpTo
<1>2. JoinsUpTo(H(q), q, 0)
  <2>1. H(q) = [i \in 1..n |-> H(q)[i]]
    OBVIOUS
  <2>2. \A i \in 1..n : ~(i <= 0)
    OBVIOUS
  <2> HIDE DEF H
  <2>3. QED
    BY <2>1, <2>2 DEF JoinsUpTo
<1>3. Unable = {}
  <2> SUFFICES ASSUME Unable # {}
               PROVE  FALSE
    OBVIOUS
  <2> DEFINE m == Min(Unable)
  <2>1. m \in Unable /\ \A k \in Unable : m <= k
    <3>1. Unable \in SUBSET Nat
      OBVIOUS
    <3>2. QED
      BY <3>1, LeastNumber
  <2> HIDE DEF m, H
  <2>2. m \in Nat /\ \A f : ~JoinsUpTo(f, q, m)
    BY <2>1
  <2>3. m # 0
    BY <1>2, <2>2
  <2>4. m - 1 \in Nat /\ ~(m <= m - 1) /\ (m - 1) + 1 = m
    BY <2>2, <2>3
  <2>5. PICK f : JoinsUpTo(f, q, m - 1)
    BY <2>1, <2>4
  <2>6. JoinsUpTo(H(f), q, m)
    BY <1>1, <2>4, <2>5
  <2>7. QED
    BY <2>2, <2>6
<1>4. PICK f : JoinsUpTo(f, q, n)
  BY <1>3
<1>5. \A i \in 1..n : i <= n
  OBVIOUS
<1>6. Joins(f, q)
  BY <1>4, <1>5, Zenon DEF Joins, JoinsUpTo
<1>7. QED
  BY <1>6

LEMMA FlattenJoins ==
  ASSUME NEW q, Len(q) \in Nat \ {0}
  PROVE  \E f : Joins(f, q) /\ FlattenSeq(q) = f[Len(q)]
<1> DEFINE G == CHOOSE f : Joins(f, q)
<1>1. Joins(G, q)
  BY JoinExists
<1>2. Len(q) # 0
  OBVIOUS
<1>3. FlattenSeq(q) = G[Len(q)]
  BY <1>2, Zenon DEF FlattenSeq, Joins
<1>4. QED
  BY <1>1, <1>3

\* Two sequences that begin alike are joined alike.
LEMMA SameJoin ==
  ASSUME NEW p, NEW q, NEW n \in Nat \ {0}, Len(p) \in Nat, n <= Len(p), Len(q) \in Nat, n <= Len(q),
         \A i \in 1..n : p[i] = q[i], NEW f, NEW g, Joins(f, p), Joins(g, q)
  PROVE  f[n] = g[n]
<1> DEFINE Bad == {k \in 1..n : f[k] # g[k]}
<1>1. \A i \in 1..n : /\ f[i] = IF i = 1 THEN p[i] ELSE f[i - 1] \o p[i]
                      /\ g[i] = IF i = 1 THEN q[i] ELSE g[i - 1] \o q[i]
  <2>1. \A i \in 1..Len(p) : f[i] = IF i = 1 THEN p[i] ELSE f[i - 1] \o p[i]
    BY Zenon DEF Joins
  <2>2. \A i \in 1..Len(q) : g[i] = IF i = 1 THEN q[i] ELSE g[i - 1] \o q[i]
    BY Zenon DEF Joins
  <2>3. \A i \in 1..n : i \in 1..Len(p) /\ i \in 1..Len(q)
    OBVIOUS
  <2>4. QED
    BY <2>1, <2>2, <2>3
<1>2. Bad = {}
  <2> SUFFICES ASSUME Bad # {}
               PROVE  FALSE
    OBVIOUS
  <2> DEFINE m == Min(Bad)
  <2>1. m \in Bad /\ \A k \in Bad : m <= k
    <3>1. Bad \in SUBSET Nat
      OBVIOUS
    <3>2. QED
      BY <3>1, LeastNumber
  <2> HIDE DEF m
  <2>2. m \in 1..n /\ f[m] # g[m]
    BY <2>1
  <2>3. m # 1
    BY <1>1, <2>2
  <2>4. m - 1 \in 1..n /\ ~(m <= m - 1)
    BY <2>2, <2>3
  <2>5. f[m - 1] = g[m - 1]
    BY <2>1, <2>4
  <2>6. f[m] = f[m - 1] \o p[m] /\ g[m] = g[m - 1] \o q[m]
    BY <1>1, <2>2, <2>3
  <2>7. QED
    BY <2>2, <2>5, <2>6
<1>3. n \in 1..n
  OBVIOUS
<1>4. QED
  BY <1>2, <1>3

\* One sequence more.
LEMMA FlattenMore ==
  ASSUME NEW Y, NEW q, NEW r, Len(q) \in Nat, Len(r) = Len(q) + 1,
         \A i \in 1..Len(q) : q[i] = r[i], r[Len(r)] \in Seq(Y), Len(q) = 0 => q = << >>
  PROVE  FlattenSeq(r) = FlattenSeq(q) \o r[Len(r)]
<1> DEFINE n == Len(q)
<1>0. n \in Nat /\ Len(r) = n + 1 /\ r[n + 1] \in Seq(Y) /\ (n = 0 => q = << >>)
  OBVIOUS
<1>1. PICK g : Joins(g, r) /\ FlattenSeq(r) = g[n + 1]
  BY <1>0, FlattenJoins
<1>2. g[n + 1] = IF n + 1 = 1 THEN r[n + 1] ELSE g[(n + 1) - 1] \o r[n + 1]
  <2>1. \A i \in 1..(n + 1) : g[i] = IF i = 1 THEN r[i] ELSE g[i - 1] \o r[i]
    <3>1. \A i \in 1..Len(r) : g[i] = IF i = 1 THEN r[i] ELSE g[i - 1] \o r[i]
      BY <1>1, Zenon DEF Joins
    <3>2. QED
      BY <3>1
  <2>2. n + 1 \in 1..(n + 1)
    BY <1>0
  <2>3. QED
    BY <2>1, <2>2, Zenon
<1>3. CASE n = 0
  <2>1. FlattenSeq(q) = << >>
    BY <1>0, <1>3 DEF FlattenSeq
  <2>2. << >> \o r[n + 1] = r[n + 1]
    BY <1>0, ConcatEmptySeq
  <2>3. QED
    BY <1>0, <1>1, <1>2, <1>3, <2>1, <2>2
<1>4. CASE n # 0
  <2>1. PICK f : Joins(f, q) /\ FlattenSeq(q) = f[n]
    BY <1>0, <1>4, FlattenJoins
  <2>2. f[n] = g[n]
    <3>1. Joins(f, q) /\ Joins(g, r) /\ n \in Nat \ {0} /\ n <= Len(q) /\ n <= Len(r)
      BY <1>0, <1>1, <1>4, <2>1
    <3>2. Len(q) \in Nat /\ Len(r) \in Nat /\ \A i \in 1..n : q[i] = r[i]
      OBVIOUS
    <3> HIDE DEF n
    <3>3. QED
      BY <3>1, <3>2, SameJoin
  <2>3. g[n + 1] = g[n] \o r[n + 1]
    <3>1. n + 1 # 1 /\ (n + 1) - 1 = n
      BY <1>4
    <3>2. QED
      BY <1>2, <3>1
  <2>4. QED
    BY <1>0, <1>1, <2>1, <2>2, <2>3
<1>5. QED
  BY <1>3, <1>4
==============================================================================
