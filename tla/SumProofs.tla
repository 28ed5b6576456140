------------------------------ MODULE SumProofs ------------------------------
(***************************************************************************)
(* Lemmas about SumFunctionOnSet of the community modules, for every       *)
(* finite set of summands: how a sum changes with a summand, and that it   *)
(* does not depend on the order in which they are added up.  The induction *)
(* is over the strict subsets of the set, as a least counterexample.       *)
(***************************************************************************)
EXTENDS Integers, FiniteSets, Functions, FiniteSetTheorems, WellFoundedInduction, TLAPS

Sum(f, S) == SumFunctionOnSet(f, S)

(* The element that is added first. *)
First(s) == CHOOSE x \in s : TRUE

(* A property of subsets that fails, fails at one that has no smaller one. *)
LEMMA Minimal ==
    ASSUME NEW S, IsFiniteSet(S), NEW T \in SUBSET SUBSET S, T # {}
    PROVE  \E x \in T : \A y \in T : y \subseteq x => y = x
PROOF
<1>1. IsWellFoundedOn(StrictSubsetOrdering(S), FiniteSubsetsOf(S))
  BY FS_StrictSubsetOrderingWellFounded
<1>2. FiniteSubsetsOf(S) = SUBSET S
  BY FS_FiniteSubsetsOfFinite
<1>3. \E x \in T : \A y \in T : ~(<<y, x>> \in StrictSubsetOrdering(S))
  BY <1>1, <1>2, WFMin
<1> QED
  BY <1>3 DEF StrictSubsetOrdering

(* The function that the definition of the sum chooses. *)
Iter(f, S, g) ==
    g = [s \in SUBSET S |-> IF s = {} THEN 0
                            ELSE f[CHOOSE x \in s : TRUE] + g[s \ {CHOOSE x \in s : TRUE}]]

LEMMA SumIsIter ==
    ASSUME NEW f, NEW S, NEW h, Iter(f, S, h)
    PROVE  \E g : Iter(f, S, g) /\ Sum(f, S) = g[S]
PROOF
  BY DEF Iter, Sum, SumFunctionOnSet, FoldFunctionOnSet, MapThenFoldSet

LEMMA IterAt ==
    ASSUME NEW f, NEW S, NEW g, Iter(f, S, g), NEW s, s \subseteq S
    PROVE  /\ s = {} => g[s] = 0
           /\ s # {} => First(s) \in s /\ g[s] = f[First(s)] + g[s \ {First(s)}]
PROOF
<1>1. s \in SUBSET S
  OBVIOUS
<1> QED
  BY <1>1 DEF Iter, First

LEMMA IterUnique ==
    ASSUME NEW f, NEW S, IsFiniteSet(S), NEW A, NEW B, S \subseteq A, S \subseteq B,
           NEW g, NEW h, Iter(f, A, g), Iter(f, B, h)
    PROVE  g[S] = h[S]
PROOF
<1> DEFINE T == {s \in SUBSET S : g[s] # h[s]}
<1>1. SUFFICES ASSUME T # {}
               PROVE  FALSE
  OBVIOUS
<1>2. PICK x \in T : \A y \in T : y \subseteq x => y = x
  <2>1. T \in SUBSET SUBSET S
    OBVIOUS
  <2> HIDE DEF T
  <2> QED
    BY <1>1, <2>1, Minimal
<1>3. x \subseteq A /\ x \subseteq B /\ x \subseteq S /\ g[x] # h[x]
  OBVIOUS
<1>4. x # {}
  BY <1>3, IterAt
<1>5. /\ First(x) \in x
      /\ g[x] = f[First(x)] + g[x \ {First(x)}] /\ h[x] = f[First(x)] + h[x \ {First(x)}]
  BY <1>3, <1>4, IterAt
<1>6. g[x \ {First(x)}] = h[x \ {First(x)}]
  BY <1>2, <1>3, <1>5
<1> QED
  BY <1>3, <1>5, <1>6

LEMMA IterExists ==
    ASSUME NEW f, NEW S, IsFiniteSet(S)
    PROVE  \E g : Iter(f, S, g)
PROOF
<1> DEFINE T == {s \in SUBSET S : ~ \E g : Iter(f, s, g)}
<1>1. SUFFICES ASSUME T # {}
               PROVE  FALSE
  OBVIOUS
<1>2. PICK x \in T : \A y \in T : y \subseteq x => y = x
  <2>1. T \in SUBSET SUBSET S
    OBVIOUS
  <2> HIDE DEF T
  <2> QED
    BY <1>1, <2>1, Minimal
<1>3. x \subseteq S /\ IsFiniteSet(x)
  BY FS_Subset
<1> DEFINE G(s) == CHOOSE g : Iter(f, s, g)
<1>4. ASSUME NEW s \in SUBSET x, s # x
      PROVE  Iter(f, s, G(s))
  <2>1. \E g : Iter(f, s, g)
    BY <1>2, <1>3, <1>4
  <2> QED
    BY <2>1
<1> DEFINE h == [s \in SUBSET x |->
                    IF s = {} THEN 0
                    ELSE IF s = x THEN f[First(s)] + G(s \ {First(s)})[s \ {First(s)}]
                    ELSE G(s)[s]]
<1> HIDE DEF G
<1>5. ASSUME NEW s \in SUBSET x
      PROVE  h[s] = IF s = {} THEN 0 ELSE f[First(s)] + h[s \ {First(s)}]
  <2>1. CASE s = {}
    BY <2>1
  <2>2. CASE s # {}
    <3> DEFINE r == s \ {First(s)}
    <3>1. First(s) \in s
      BY <2>2 DEF First
    <3>2. r \in SUBSET x /\ r # x /\ r \subseteq s /\ r # s
      BY <3>1
    <3>3. Iter(f, r, G(r)) /\ IsFiniteSet(r)
      BY <1>3, <1>4, <3>2, FS_Subset
    <3>4. h[r] = G(r)[r]
      <4>1. CASE r = {}
        <5>1. G(r)[r] = 0
          BY <3>3, <4>1, IterAt
        <5> QED
          BY <3>2, <4>1, <5>1
      <4>2. CASE r # {}
        BY <3>2, <4>2
      <4> QED
        BY <4>1, <4>2
    <3>5. CASE s = x
      BY <2>2, <3>4, <3>5
    <3>6. CASE s # x
      <4>1. Iter(f, s, G(s))
        BY <1>4, <3>6
      <4>2. G(s)[s] = f[First(s)] + G(s)[r]
        BY <2>2, <4>1, IterAt
      <4>3. G(s)[r] = G(r)[r]
        <5>1. r \subseteq s /\ r \subseteq r
          OBVIOUS
        <5> HIDE DEF r
        <5> QED
          BY <3>3, <4>1, <5>1, IterUnique
      <4> QED
        BY <2>2, <3>4, <3>6, <4>2, <4>3
    <3> QED
      BY <3>5, <3>6
  <2> QED
    BY <2>1, <2>2
<1>6. h = [s \in SUBSET x |-> h[s]]
  OBVIOUS
<1> HIDE DEF h
<1>7. Iter(f, x, h)
  BY <1>5, <1>6 DEF Iter, First
<1> QED
  BY <1>2, <1>7

LEMMA SumStep ==
    ASSUME NEW f, NEW S, IsFiniteSet(S)
    PROVE  /\ S = {} => Sum(f, S) = 0
           /\ S # {} => /\ First(S) \in S
                        /\ Sum(f, S) = f[First(S)] + Sum(f, S \ {First(S)})
PROOF
<1>1. PICK g : Iter(f, S, g) /\ Sum(f, S) = g[S]
  BY IterExists, SumIsIter
<1> DEFINE r == S \ {First(S)}
<1>2. IsFiniteSet(r)
  BY FS_Subset
<1>3. PICK h : Iter(f, r, h) /\ Sum(f, r) = h[r]
  BY <1>2, IterExists, SumIsIter
<1>4. g[r] = h[r]
  BY <1>1, <1>2, <1>3, IterUnique
<1> QED
  BY <1>1, <1>3, <1>4, IterAt

(***************************************************************************)
(* A sum of natural numbers is one.                                        *)
(***************************************************************************)
LEMMA SumNat ==
    ASSUME NEW f, NEW S, IsFiniteSet(S), \A x \in S : f[x] \in Nat
    PROVE  Sum(f, S) \in Nat
PROOF
<1> DEFINE T == {s \in SUBSET S : Sum(f, s) \notin Nat}
<1>1. SUFFICES ASSUME T # {}
               PROVE  FALSE
  OBVIOUS
<1>2. PICK x \in T : \A y \in T : y \subseteq x => y = x
  <2>1. T \in SUBSET SUBSET S
    OBVIOUS
  <2> HIDE DEF T
  <2> QED
    BY <1>1, <2>1, Minimal
<1>3. x \subseteq S /\ IsFiniteSet(x) /\ Sum(f, x) \notin Nat
  BY FS_Subset
<1>4. First(x) \in x /\ Sum(f, x) = f[First(x)] + Sum(f, x \ {First(x)})
  <2>1. x # {}
    <3>1. x = {} => Sum(f, x) = 0
      BY <1>3, SumStep
    <3> QED
      BY <1>3, <3>1
  <2> QED
    BY <1>3, <2>1, SumStep
<1>5. Sum(f, x \ {First(x)}) \in Nat
  BY <1>2, <1>3, <1>4
<1> QED
  BY <1>3, <1>4, <1>5

(***************************************************************************)
(* A sum of integers is one.                                               *)
(***************************************************************************)
LEMMA SumInt ==
    ASSUME NEW f, NEW S, IsFiniteSet(S), \A x \in S : f[x] \in Int
    PROVE  Sum(f, S) \in Int
PROOF
<1> DEFINE T == {s \in SUBSET S : Sum(f, s) \notin Int}
<1>1. SUFFICES ASSUME T # {}
               PROVE  FALSE
  OBVIOUS
<1>2. PICK x \in T : \A y \in T : y \subseteq x => y = x
  <2>1. T \in SUBSET SUBSET S
    OBVIOUS
  <2> HIDE DEF T
  <2> QED
    BY <1>1, <2>1, Minimal
<1>3. x \subseteq S /\ IsFiniteSet(x) /\ Sum(f, x) \notin Int
  BY FS_Subset
<1>4. First(x) \in x /\ Sum(f, x) = f[First(x)] + Sum(f, x \ {First(x)})
  <2>1. x # {}
    <3>1. x = {} => Sum(f, x) = 0
      BY <1>3, SumStep
    <3> QED
      BY <1>3, <3>1
  <2> QED
    BY <1>3, <2>1, SumStep
<1>5. Sum(f, x \ {First(x)}) \in Int
  BY <1>2, <1>3, <1>4
<1> QED
  BY <1>3, <1>4, <1>5

(***************************************************************************)
(* Any summand may be taken out first.                                     *)
(***************************************************************************)
LEMMA SumRemove ==
    ASSUME NEW f, NEW S, IsFiniteSet(S), \A x \in S : f[x] \in Int, NEW z \in S
    PROVE  Sum(f, S) = f[z] + Sum(f, S \ {z})
PROOF
<1> DEFINE T == {s \in SUBSET S : \E y \in s : Sum(f, s) # f[y] + Sum(f, s \ {y})}
<1>1. SUFFICES ASSUME T # {}
               PROVE  FALSE
  OBVIOUS
<1>2. PICK x \in T : \A y \in T : y \subseteq x => y = x
  <2>1. T \in SUBSET SUBSET S
    OBVIOUS
  <2> HIDE DEF T
  <2> QED
    BY <1>1, <2>1, Minimal
<1>3. PICK y \in x : Sum(f, x) # f[y] + Sum(f, x \ {y})
  OBVIOUS
<1> DEFINE c == First(x)
           r == x \ {c}
           q == x \ {y}
           o == r \ {y}
<1>4. x \subseteq S /\ IsFiniteSet(x) /\ IsFiniteSet(o)
  <2>1. x \subseteq S /\ o \subseteq S
    OBVIOUS
  <2> QED
    BY <2>1, FS_Subset
<1>5. c \in x /\ Sum(f, x) = f[c] + Sum(f, r)
  BY <1>3, <1>4, SumStep
<1>6. c # y
  BY <1>3, <1>5
<1>7. r \notin T /\ q \notin T
  BY <1>2, <1>3, <1>5
<1>8. r \in SUBSET S /\ q \in SUBSET S /\ y \in r /\ c \in q /\ o = q \ {c}
  BY <1>4, <1>5, <1>6
<1>9. Sum(f, r) = f[y] + Sum(f, o)
  BY <1>7, <1>8
<1>10. Sum(f, q) = f[c] + Sum(f, o)
  BY <1>7, <1>8
<1>11. f[y] \in Int /\ f[c] \in Int /\ Sum(f, o) \in Int
  <2>1. \A e \in o : f[e] \in Int
    OBVIOUS
  <2>2. Sum(f, o) \in Int
    BY <1>4, <2>1, SumInt
  <2> QED
    BY <1>4, <1>5, <2>2
<1> HIDE DEF c, r, o, T
<1> QED
  BY <1>3, <1>5, <1>9, <1>10, <1>11

(***************************************************************************)
(* Equal summands have equal sums.                                         *)
(***************************************************************************)
LEMMA SumSame ==
    ASSUME NEW f, NEW g, NEW S, IsFiniteSet(S), \A x \in S : f[x] = g[x]
    PROVE  Sum(f, S) = Sum(g, S)
PROOF
<1> DEFINE T == {s \in SUBSET S : Sum(f, s) # Sum(g, s)}
<1>1. SUFFICES ASSUME T # {}
               PROVE  FALSE
  OBVIOUS
<1>2. PICK x \in T : \A y \in T : y \subseteq x => y = x
  <2>1. T \in SUBSET SUBSET S
    OBVIOUS
  <2> HIDE DEF T
  <2> QED
    BY <1>1, <2>1, Minimal
<1>3. x \subseteq S /\ IsFiniteSet(x) /\ Sum(f, x) # Sum(g, x)
  BY FS_Subset
<1>4. x # {}
  BY <1>3, SumStep
<1>5. /\ First(x) \in x /\ Sum(f, x) = f[First(x)] + Sum(f, x \ {First(x)})
      /\ Sum(g, x) = g[First(x)] + Sum(g, x \ {First(x)})
  BY <1>3, <1>4, SumStep
<1>6. Sum(f, x \ {First(x)}) = Sum(g, x \ {First(x)}) /\ f[First(x)] = g[First(x)]
  BY <1>2, <1>3, <1>5
<1> QED
  BY <1>3, <1>5, <1>6

(***************************************************************************)
(* More natural summands have no smaller sum.                              *)
(***************************************************************************)
LEMMA SumMonotone ==
    ASSUME NEW f, NEW S, IsFiniteSet(S), \A x \in S : f[x] \in Nat, NEW R, R \subseteq S
    PROVE  Sum(f, R) <= Sum(f, S)
PROOF
<1> DEFINE T == {s \in SUBSET S : R \subseteq s /\ ~(Sum(f, R) <= Sum(f, s))}
<1>1. SUFFICES ASSUME T # {}
               PROVE  FALSE
  OBVIOUS
<1>2. PICK x \in T : \A y \in T : y \subseteq x => y = x
  <2>1. T \in SUBSET SUBSET S
    OBVIOUS
  <2> HIDE DEF T
  <2> QED
    BY <1>1, <2>1, Minimal
<1>3. x \subseteq S /\ IsFiniteSet(x) /\ R \subseteq x /\ ~(Sum(f, R) <= Sum(f, x))
  BY FS_Subset
<1>4. Sum(f, R) \in Nat /\ Sum(f, x) \in Nat
  <2>1. IsFiniteSet(R) /\ \A e \in R : f[e] \in Nat
    BY FS_Subset
  <2> QED
    BY <1>3, <2>1, SumNat
<1>5. PICK z \in x : z \notin R
  BY <1>3, <1>4
<1> DEFINE r == x \ {z}
<1>6. IsFiniteSet(r) /\ r \subseteq S /\ R \subseteq r
  BY <1>3, <1>5, FS_Subset
<1>7. Sum(f, R) <= Sum(f, r)
  BY <1>2, <1>3, <1>5, <1>6
<1>8. Sum(f, x) = f[z] + Sum(f, r)
  BY <1>3, SumRemove
<1>9. Sum(f, r) \in Nat /\ f[z] \in Nat
  <2>1. \A e \in r : f[e] \in Nat
    BY <1>6
  <2> QED
    BY <1>3, <1>6, <2>1, SumNat
<1> HIDE DEF r
<1> QED
  BY <1>3, <1>4, <1>7, <1>8, <1>9

(***************************************************************************)
(* Summands that are no larger have no larger a sum.                       *)
(***************************************************************************)
LEMMA SumPointwise ==
    ASSUME NEW f, NEW g, NEW S, IsFiniteSet(S),
           \A x \in S : f[x] \in Nat /\ g[x] \in Nat /\ f[x] <= g[x]
    PROVE  Sum(f, S) <= Sum(g, S)
PROOF
<1> DEFINE T == {s \in SUBSET S : ~(Sum(f, s) <= Sum(g, s))}
<1>1. SUFFICES ASSUME T # {}
               PROVE  FALSE
  OBVIOUS
<1>2. PICK x \in T : \A y \in T : y \subseteq x => y = x
  <2>1. T \in SUBSET SUBSET S
    OBVIOUS
  <2> HIDE DEF T
  <2> QED
    BY <1>1, <2>1, Minimal
<1>3. x \subseteq S /\ IsFiniteSet(x) /\ ~(Sum(f, x) <= Sum(g, x))
  BY FS_Subset
<1>4. x # {}
  <2>1. x = {} => Sum(f, x) = 0
    BY <1>3, SumStep
  <2>2. x = {} => Sum(g, x) = 0
    BY <1>3, SumStep
  <2> QED
    BY <1>3, <2>1, <2>2
<1> DEFINE r == x \ {First(x)}
<1>5. First(x) \in x /\ Sum(f, x) = f[First(x)] + Sum(f, r) /\ Sum(g, x) = g[First(x)] + Sum(g, r)
  BY <1>3, <1>4, SumStep
<1>6. Sum(f, r) <= Sum(g, r)
  BY <1>2, <1>3, <1>5
<1>7. IsFiniteSet(r) /\ \A e \in r : f[e] \in Nat /\ g[e] \in Nat
  BY <1>3, FS_Subset
<1> HIDE DEF r
<1>8. Sum(f, r) \in Nat /\ Sum(g, r) \in Nat
  BY <1>7, SumNat
<1>9. f[First(x)] \in Nat /\ g[First(x)] \in Nat /\ f[First(x)] <= g[First(x)]
  BY <1>3, <1>5
<1> QED
  BY <1>3, <1>5, <1>6, <1>8, <1>9

(***************************************************************************)
(* A sum is no further from zero than the sum of bounds of its summands.   *)
(***************************************************************************)
LEMMA SumBetween ==
    ASSUME NEW f, NEW g, NEW S, IsFiniteSet(S),
           \A x \in S : f[x] \in Int /\ g[x] \in Nat /\ -g[x] <= f[x] /\ f[x] <= g[x]
    PROVE  -Sum(g, S) <= Sum(f, S) /\ Sum(f, S) <= Sum(g, S)
PROOF
<1> DEFINE T == {s \in SUBSET S : ~(-Sum(g, s) <= Sum(f, s) /\ Sum(f, s) <= Sum(g, s))}
<1>1. SUFFICES ASSUME T # {}
               PROVE  FALSE
  OBVIOUS
<1>2. PICK x \in T : \A y \in T : y \subseteq x => y = x
  <2>1. T \in SUBSET SUBSET S
    OBVIOUS
  <2> HIDE DEF T
  <2> QED
    BY <1>1, <2>1, Minimal
<1>3. /\ x \subseteq S /\ IsFiniteSet(x)
      /\ ~(-Sum(g, x) <= Sum(f, x) /\ Sum(f, x) <= Sum(g, x))
  BY FS_Subset
<1>4. x # {}
  <2>1. Sum(f, {}) = 0 /\ Sum(g, {}) = 0
    BY FS_EmptySet, SumStep
  <2> QED
    BY <1>3, <2>1
<1> DEFINE c == First(x)
           r == x \ {c}
<1>5. c \in x /\ Sum(f, x) = f[c] + Sum(f, r) /\ Sum(g, x) = g[c] + Sum(g, r)
  <2>1. c \in x /\ Sum(f, x) = f[c] + Sum(f, r)
    BY <1>3, <1>4, SumStep
  <2>2. Sum(g, x) = g[c] + Sum(g, r)
    BY <1>3, <1>4, SumStep
  <2> QED
    BY <2>1, <2>2
<1>6. -Sum(g, r) <= Sum(f, r) /\ Sum(f, r) <= Sum(g, r)
  BY <1>2, <1>3, <1>5
<1>7. IsFiniteSet(r) /\ \A y \in r : f[y] \in Int /\ g[y] \in Nat
  BY <1>3, FS_Subset
<1> HIDE DEF r
<1>8. Sum(f, r) \in Int /\ Sum(g, r) \in Nat
  BY <1>7, SumInt, SumNat
<1>9. f[c] \in Int /\ g[c] \in Nat /\ -g[c] <= f[c] /\ f[c] <= g[c]
  BY <1>3, <1>5
<1> HIDE DEF c
<1> QED
  BY <1>3, <1>5, <1>6, <1>8, <1>9

(***************************************************************************)
(* A sum does not change when its summands are given other names.          *)
(***************************************************************************)
LEMMA SumRenamed ==
    ASSUME NEW f, NEW S, IsFiniteSet(S), NEW g, NEW R, IsFiniteSet(R), NEW name,
           \A x \in S : name[x] \in R /\ f[x] = g[name[x]],
           \A y \in R : g[y] \in Int /\ \E x \in S : name[x] = y,
           \A x, y \in S : name[x] = name[y] => x = y
    PROVE  Sum(f, S) = Sum(g, R)
PROOF
<1> DEFINE Names(s) == {name[x] : x \in s}
           T == {s \in SUBSET S : Sum(f, s) # Sum(g, Names(s))}
<1>1. Names(S) = R
  OBVIOUS
<1>2. SUFFICES ASSUME T # {}
               PROVE  FALSE
  <2>1. S \in SUBSET S
    OBVIOUS
  <2> HIDE DEF Names
  <2> QED
    BY <1>1, <1>2, <2>1
<1>3. PICK x \in T : \A y \in T : y \subseteq x => y = x
  <2>1. T \in SUBSET SUBSET S
    OBVIOUS
  <2> HIDE DEF T
  <2> QED
    BY <1>2, <2>1, Minimal
<1>4. x \subseteq S /\ IsFiniteSet(x) /\ Sum(f, x) # Sum(g, Names(x))
  BY FS_Subset
<1>5. x # {}
  <2>1. Names({}) = {}
    OBVIOUS
  <2> HIDE DEF Names
  <2>2. Sum(f, {}) = 0 /\ Sum(g, {}) = 0
    BY FS_EmptySet, SumStep
  <2> QED
    BY <1>4, <2>1, <2>2
<1> DEFINE c == First(x)
           r == x \ {c}
<1>6. c \in x /\ Sum(f, x) = f[c] + Sum(f, r)
  BY <1>4, <1>5, SumStep
<1>7. Sum(f, r) = Sum(g, Names(r))
  <2>1. r \in SUBSET S /\ r \subseteq x /\ r # x
    BY <1>4, <1>6
  <2> HIDE DEF r, Names
  <2> QED
    BY <1>3, <2>1
<1>8. Names(x) \ {name[c]} = Names(r) /\ name[c] \in Names(x) /\ Names(x) \subseteq R
  BY <1>4, <1>6
<1>9. f[c] = g[name[c]]
  BY <1>4, <1>6
<1>10. IsFiniteSet(Names(x)) /\ \A y \in Names(x) : g[y] \in Int
  <2> HIDE DEF Names
  <2> QED
    BY <1>8, FS_Subset
<1> HIDE DEF Names, c, r
<1>11. Sum(g, Names(x)) = g[name[c]] + Sum(g, Names(x) \ {name[c]})
  BY <1>8, <1>10, SumRemove
<1> QED
  BY <1>4, <1>6, <1>7, <1>8, <1>9, <1>11

(***************************************************************************)
(* The sum of one number more.                                             *)
(***************************************************************************)
LEMMA SumOneMore ==
    ASSUME NEW f, NEW n \in Nat, \A k \in 1 .. n + 1 : f[k] \in Int
    PROVE  Sum(f, 1 .. n + 1) = Sum(f, 1 .. n) + f[n + 1] /\ Sum(f, 1 .. n) \in Int
PROOF
<1>1. IsFiniteSet(1 .. n + 1) /\ IsFiniteSet(1 .. n)
  <2>1. n + 1 \in Int /\ n \in Int /\ 1 \in Int
    OBVIOUS
  <2> QED
    BY <2>1, FS_Interval
<1>2. (1 .. n + 1) \ {n + 1} = 1 .. n /\ n + 1 \in 1 .. n + 1
  OBVIOUS
<1>3. Sum(f, 1 .. n + 1) = f[n + 1] + Sum(f, (1 .. n + 1) \ {n + 1})
  BY <1>1, <1>2, SumRemove
<1>4. Sum(f, 1 .. n) \in Int
  BY <1>1, SumInt
<1>5. f[n + 1] \in Int
  BY <1>2
<1>6. Sum(f, 1 .. n + 1) = f[n + 1] + Sum(f, 1 .. n)
  BY <1>2, <1>3
<1> QED
  BY <1>4, <1>5, <1>6

-----------------------------------------------------------------------------
(* The same of the sum of all values of a function. *)

Summable(f) == IsFiniteSet(DOMAIN f) /\ \A x \in DOMAIN f : f[x] \in Nat

LEMMA SumFunctionNat ==
    ASSUME NEW f, Summable(f)
    PROVE  SumFunction(f) \in Nat
PROOF
<1> DEFINE S == DOMAIN f
<1>1. IsFiniteSet(S) /\ \A x \in S : f[x] \in Nat
  BY DEF Summable
<1>2. Sum(f, S) \in Nat
  <2> HIDE DEF S
  <2> QED
    BY <1>1, SumNat
<1> QED
  BY <1>2 DEF Sum, SumFunction

(***************************************************************************)
(* A function with part of the summands has no larger a sum.               *)
(***************************************************************************)
LEMMA SumFunctionPart ==
    ASSUME NEW f, Summable(f), NEW g,
           DOMAIN g \subseteq DOMAIN f, \A x \in DOMAIN g : g[x] = f[x]
    PROVE  /\ Summable(g) /\ SumFunction(g) \in Nat
           /\ SumFunction(g) <= SumFunction(f)
PROOF
<1> DEFINE S == DOMAIN f
           R == DOMAIN g
<1>1. IsFiniteSet(S) /\ (\A x \in S : f[x] \in Nat) /\ R \subseteq S /\ \A x \in R : g[x] = f[x]
  BY DEF Summable
<1>2. IsFiniteSet(R)
  <2> HIDE DEF S, R
  <2> QED
    BY <1>1, FS_Subset
<1>3. Summable(g)
  BY <1>1, <1>2 DEF Summable
<1>4. Sum(g, R) = Sum(f, R) /\ Sum(f, R) <= Sum(f, S)
  <2> HIDE DEF S, R
  <2>1. Sum(g, R) = Sum(f, R)
    BY <1>1, <1>2, SumSame
  <2>2. Sum(f, R) <= Sum(f, S)
    BY <1>1, SumMonotone
  <2> QED
    BY <2>1, <2>2
<1> QED
  BY <1>3, <1>4, SumFunctionNat DEF Sum, SumFunction

(***************************************************************************)
(* One summand more adds its value.                                        *)
(***************************************************************************)
LEMMA SumFunctionAdd ==
    ASSUME NEW f, Summable(f), NEW z \in DOMAIN f, NEW g,
           DOMAIN g = DOMAIN f \ {z}, \A x \in DOMAIN g : g[x] = f[x]
    PROVE  SumFunction(f) = SumFunction(g) + f[z]
PROOF
<1> DEFINE S == DOMAIN f
           R == DOMAIN g
<1>1. IsFiniteSet(S) /\ (\A x \in S : f[x] \in Nat) /\ R = S \ {z} /\ z \in S /\ \A x \in R : g[x] = f[x]
  BY DEF Summable
<1>2. IsFiniteSet(R)
  <2> HIDE DEF S, R
  <2> QED
    BY <1>1, FS_Subset
<1>3. Sum(f, S) = f[z] + Sum(f, R)
  <2> HIDE DEF S, R
  <2> QED
    BY <1>1, SumRemove
<1>4. Sum(g, R) = Sum(f, R)
  <2> HIDE DEF S, R
  <2> QED
    BY <1>1, <1>2, SumSame
<1>5. SumFunction(g) \in Nat
  BY SumFunctionPart
<1> QED
  BY <1>1, <1>3, <1>4, <1>5 DEF Sum, SumFunction

LEMMA SumFunctionPointwise ==
    ASSUME NEW f, Summable(f), NEW g, Summable(g), DOMAIN f = DOMAIN g,
           \A x \in DOMAIN f : f[x] <= g[x]
    PROVE  SumFunction(f) <= SumFunction(g)
PROOF
<1> DEFINE S == DOMAIN f
<1>1. IsFiniteSet(S) /\ \A x \in S : f[x] \in Nat /\ g[x] \in Nat /\ f[x] <= g[x]
  BY DEF Summable
<1>2. Sum(f, S) <= Sum(g, S)
  <2> HIDE DEF S
  <2> QED
    BY <1>1, SumPointwise
<1> QED
  BY <1>2 DEF Sum, SumFunction

LEMMA SumFunctionEmpty ==
    ASSUME NEW f, DOMAIN f = {}
    PROVE  SumFunction(f) = 0
PROOF
<1>1. IsFiniteSet({})
  BY FS_EmptySet
<1> QED
  BY <1>1, SumStep DEF Sum, SumFunction

=============================================================================
