----------------------------- MODULE BatchProofs -----------------------------
(***************************************************************************)
(* The run search of the reference solution finds the batch of section 4   *)
(* of docs/matching_rules.md, for every set of open invoices, payment,     *)
(* tolerance, window and length of a run.                                  *)
(***************************************************************************)
EXTENDS BatchRunSearch, SumProofs

(* Older is a strict total order of invoices. *)
LEMMA OlderOrders ==
    ASSUME NEW x \in InvoiceIds, NEW y \in InvoiceIds, NEW z \in InvoiceIds
    PROVE  /\ x # y => Older(x, y) \/ Older(y, x)
           /\ ~(Older(x, y) /\ Older(y, x))
           /\ Older(x, y) /\ Older(y, z) => Older(x, z)
PROOF
<1>1. x \in Nat /\ y \in Nat /\ z \in Nat
  BY InvoiceIdsAssumption
<1>2. Invoice[x].due \in Int /\ Invoice[y].due \in Int /\ Invoice[z].due \in Int
  BY InvoiceAssumption
<1> QED
  BY <1>1, <1>2 DEF Older

-----------------------------------------------------------------------------
(* The oldest-first order: Rank numbers the open invoices from 0 to N - 1. *)

Before(x) == {y \in open : Older(y, x)}

LEMMA OpenFinite ==
    ASSUME open \subseteq InvoiceIds
    PROVE  /\ IsFiniteSet(open) /\ N \in Nat
           /\ \A S \in SUBSET open : IsFiniteSet(S) /\ Cardinality(S) \in Nat
PROOF
  BY InvoiceIdsAssumption, FS_Subset, FS_CardinalityType DEF N

LEMMA RankNat ==
    ASSUME open \subseteq InvoiceIds, NEW x \in open
    PROVE  Rank(x) \in 0..N - 1
PROOF
<1>1. x \notin Before(x)
  BY OlderOrders DEF Before
<1>2. IsFiniteSet(open \ {x}) /\ Cardinality(open \ {x}) = N - 1
  BY OpenFinite, FS_RemoveElement DEF N
<1>3. Before(x) \in SUBSET (open \ {x})
  BY <1>1 DEF Before
<1>4. Cardinality(Before(x)) <= Cardinality(open \ {x})
  BY <1>2, <1>3, FS_Subset
<1>5. Before(x) \in SUBSET open
  BY DEF Before
<1> QED
  BY <1>2, <1>4, <1>5, OpenFinite DEF Rank, Before

LEMMA OlderRanksLower ==
    ASSUME open \subseteq InvoiceIds, NEW x \in open, NEW y \in open, Older(x, y)
    PROVE  Rank(x) < Rank(y)
PROOF
<1>1. x \notin Before(x)
  BY OlderOrders DEF Before
<1>2. Before(x) \cup {x} \in SUBSET Before(y)
  BY OlderOrders DEF Before
<1>3. IsFiniteSet(Before(x)) /\ IsFiniteSet(Before(y))
  BY OpenFinite DEF Before
<1>4. Cardinality(Before(x) \cup {x}) = Cardinality(Before(x)) + 1
  BY <1>1, <1>3, FS_AddElement
<1>5. Cardinality(Before(x) \cup {x}) <= Cardinality(Before(y))
  BY <1>2, <1>3, FS_Subset
<1>6. Rank(x) = Cardinality(Before(x)) /\ Rank(y) = Cardinality(Before(y))
  BY DEF Rank, Before
<1> QED
  BY <1>4, <1>5, <1>6, RankNat

(***************************************************************************)
(* An invoice is older than another if and only if its rank is lower, and  *)
(* no two have one rank.                                                   *)
(***************************************************************************)
LEMMA RankOrders ==
    ASSUME open \subseteq InvoiceIds, NEW x \in open, NEW y \in open
    PROVE  /\ Older(x, y) <=> Rank(x) < Rank(y)
           /\ Rank(x) = Rank(y) => x = y
PROOF
<1>1. x # y => Older(x, y) \/ Older(y, x)
  BY OlderOrders
<1>2. Rank(x) \in Nat /\ Rank(y) \in Nat
  BY RankNat
<1> QED
  BY <1>1, <1>2, OlderRanksLower

LEMMA AtRank ==
    ASSUME open \subseteq InvoiceIds
    PROVE  /\ \A k \in 0..N - 1 : At(k) \in open /\ Rank(At(k)) = k
           /\ \A x \in open : At(Rank(x)) = x
PROOF
<1> DEFINE f == [x \in open |-> Rank(x)]
           T == 0..N - 1
<1>1. IsFiniteSet(T) /\ Cardinality(T) = N
  <2>1. N \in Nat
    BY OpenFinite
  <2>2. IsFiniteSet(T) /\ Cardinality(T) = IF 0 > N - 1 THEN 0 ELSE N - 1 - 0 + 1
    BY <2>1, FS_Interval
  <2> QED
    BY <2>1, <2>2
<1>2. f \in Injection(open, T)
  <2>1. f \in [open -> T]
    BY RankNat
  <2>2. \A x, y \in open : f[x] = f[y] => x = y
    BY RankOrders
  <2> QED
    BY <2>1, <2>2 DEF Injection, IsInjective
<1>3. f \in Surjection(open, T)
  <2> HIDE DEF f, T
  <2> QED
    BY <1>1, <1>2, FS_Injection DEF N
<1>4. ASSUME NEW k \in T
      PROVE  \E x \in open : Rank(x) = k
  BY <1>3 DEF Surjection
<1>5. \A k \in 0..N - 1 : At(k) \in open /\ Rank(At(k)) = k
  BY <1>4 DEF At
<1>6. ASSUME NEW x \in open
      PROVE  At(Rank(x)) = x
  BY <1>5, RankNat, RankOrders
<1> QED
  BY <1>5, <1>6

-----------------------------------------------------------------------------
(* What the search computes of a run from index a to index b. *)

LEMMA SliceCard ==
    ASSUME open \subseteq InvoiceIds, NEW a \in 0..N - 1, NEW b \in a..N - 1
    PROVE  Cardinality(Slice(a, b)) = b - a + 1
PROOF
<1> DEFINE S == Slice(a, b)
           T == a..b
           f == [k \in T |-> At(k)]
<1>1. N \in Nat
  BY OpenFinite
<1>2. \A k \in T : At(k) \in S /\ Rank(At(k)) = k
  BY <1>1, AtRank DEF Slice
<1>3. \A x \in S : Rank(x) \in T /\ At(Rank(x)) = x
  BY AtRank DEF Slice
<1>4. f \in Bijection(T, S)
  BY <1>2, <1>3 DEF Bijection, Injection, Surjection, IsInjective
<1>5. IsFiniteSet(T) /\ Cardinality(T) = b - a + 1
  BY <1>1, FS_Interval
<1> HIDE DEF S, T, f
<1>6. Cardinality(S) = Cardinality(T)
  BY <1>4, <1>5, FS_Bijection DEF ExistsBijection
<1> QED
  BY <1>5, <1>6 DEF S

LEMMA SliceEnds ==
    ASSUME open \subseteq InvoiceIds, NEW a \in 0..N - 1, NEW b \in a..N - 1
    PROVE  /\ At(a) \in Slice(a, b) /\ At(b) \in Slice(a, b)
           /\ \A x \in Slice(a, b) : ~Older(x, At(a)) /\ ~Older(At(b), x)
PROOF
<1>1. N \in Nat
  BY OpenFinite
<1>2. At(a) \in open /\ Rank(At(a)) = a /\ At(b) \in open /\ Rank(At(b)) = b
  BY <1>1, AtRank
<1>3. \A x \in Slice(a, b) : x \in open /\ Rank(x) \in a..b
  BY DEF Slice
<1> QED
  BY <1>1, <1>2, <1>3, RankOrders DEF Slice

LEMMA SliceOldest ==
    ASSUME open \subseteq InvoiceIds, NEW a \in 0..N - 1, NEW b \in a..N - 1
    PROVE  Oldest(Slice(a, b)) = At(a)
PROOF
<1> DEFINE S == Slice(a, b)
<1>1. S \subseteq InvoiceIds
  BY DEF Slice
<1>2. At(a) \in S /\ \A x \in S : ~Older(x, At(a))
  BY SliceEnds
<1>3. IsOldest(At(a), S)
  BY <1>1, <1>2, OlderOrders DEF IsOldest
<1>4. \A x : IsOldest(x, S) => x = At(a)
  BY <1>1, <1>2, <1>3, OlderOrders DEF IsOldest
<1> QED
  BY <1>3, <1>4 DEF Oldest

(* The invoices of a run span its first and its last due date. *)
LEMMA SliceSpan ==
    ASSUME open \subseteq InvoiceIds, NEW a \in 0..N - 1, NEW b \in a..N - 1
    PROVE  Span(Slice(a, b)) = RunSpan(a, b)
PROOF
<1> DEFINE S == Slice(a, b)
           dues == {Invoice[x].due : x \in S}
<1>1. S \subseteq InvoiceIds
  BY DEF Slice
<1>2. \A x \in S : Invoice[x].due \in Int
  BY <1>1, InvoiceAssumption
<1>3. At(a) \in S /\ At(b) \in S
  BY SliceEnds
<1>4. \A x \in S : Invoice[At(a)].due <= Invoice[x].due /\ Invoice[x].due <= Invoice[At(b)].due
  <2> SUFFICES ASSUME NEW x \in S
               PROVE  Invoice[At(a)].due <= Invoice[x].due /\ Invoice[x].due <= Invoice[At(b)].due
    OBVIOUS
  <2>1. ~Older(x, At(a)) /\ ~Older(At(b), x)
    BY SliceEnds
  <2> QED
    BY <1>2, <1>3, <2>1 DEF Older
<1>5. Min(dues) = Invoice[At(a)].due
  BY <1>2, <1>3, <1>4 DEF Min
<1>6. Max(dues) = Invoice[At(b)].due
  BY <1>2, <1>3, <1>4 DEF Max
<1> QED
  BY <1>5, <1>6 DEF Span, RunSpan

LEMMA SpanGrows ==
    ASSUME open \subseteq InvoiceIds, NEW a \in 0..N - 1, NEW b \in a..N - 1, NEW c \in b..N - 1
    PROVE  RunSpan(a, b) \in Int /\ RunSpan(a, c) \in Int /\ RunSpan(a, b) <= RunSpan(a, c)
PROOF
<1>1. N \in Nat
  BY OpenFinite
<1>2. /\ At(a) \in open /\ At(b) \in open /\ At(c) \in open
      /\ Rank(At(b)) = b /\ Rank(At(c)) = c
  BY <1>1, AtRank
<1>3. /\ Invoice[At(a)].due \in Int /\ Invoice[At(b)].due \in Int /\ Invoice[At(c)].due \in Int
  BY <1>2, InvoiceAssumption
<1>4. ~Older(At(c), At(b))
  BY <1>1, <1>2, RankOrders
<1>5. Invoice[At(b)].due <= Invoice[At(c)].due
  BY <1>3, <1>4 DEF Older
<1> QED
  BY <1>3, <1>5 DEF RunSpan

(* A set with more invoices has no smaller total, as amounts are positive. *)
LEMMA TotalGrows ==
    ASSUME NEW D \in SUBSET InvoiceIds, NEW C \in SUBSET D
    PROVE  BatchTotal(C) \in Int /\ BatchTotal(D) \in Int /\ BatchTotal(C) <= BatchTotal(D)
PROOF
<1> DEFINE f == [x \in D |-> Invoice[x].amount]
           g == [x \in C |-> Invoice[x].amount]
<1>1. IsFiniteSet(D)
  BY InvoiceIdsAssumption, FS_Subset
<1>2. \A x \in D : Invoice[x].amount \in Nat
  BY InvoiceAssumption, AmountsArePositive
<1>3. Summable(f)
  BY <1>1, <1>2 DEF Summable
<1>4. DOMAIN g \subseteq DOMAIN f /\ \A x \in DOMAIN g : g[x] = f[x]
  OBVIOUS
<1>5. /\ SumFunction(f) \in Nat /\ SumFunction(g) \in Nat
      /\ SumFunction(g) <= SumFunction(f)
  <2> HIDE DEF f, g
  <2> QED
    BY <1>3, <1>4, SumFunctionNat, SumFunctionPart
<1> QED
  BY <1>5 DEF BatchTotal

(***************************************************************************)
(* The runs the rule speaks of are the slices of the search: what is not   *)
(* empty among them is the invoices from some index to a later one.        *)
(***************************************************************************)
LEMMA SlicesAreRuns ==
    ASSUME open \subseteq InvoiceIds
    PROVE  /\ \A a \in 0..N - 1, b \in 0..N - 1 : Slice(a, b) \in Slices(open)
           /\ \A C \in Slices(open) :
                C # {} => \E a \in 0..N - 1 : \E b \in a..N - 1 : C = Slice(a, b)
PROOF
<1>1. ASSUME NEW p \in open, NEW q \in open
      PROVE  {x \in open : ~Older(x, p) /\ ~Older(q, x)} = Slice(Rank(p), Rank(q))
  <2>1. \A x \in open : Rank(x) \in Nat
    BY RankNat, OpenFinite
  <2> QED
    BY <2>1, RankOrders DEF Slice
<1>2. ASSUME NEW a \in 0..N - 1, NEW b \in 0..N - 1
      PROVE  Slice(a, b) \in Slices(open)
  <2>1. At(a) \in open /\ At(b) \in open /\ Rank(At(a)) = a /\ Rank(At(b)) = b
    BY AtRank
  <2>2. Slice(a, b) = {x \in open : ~Older(x, At(a)) /\ ~Older(At(b), x)}
    BY <1>1, <2>1
  <2> QED
    BY <2>1, <2>2 DEF Slices
<1>3. ASSUME NEW C \in Slices(open), C # {}
      PROVE  \E a \in 0..N - 1 : \E b \in a..N - 1 : C = Slice(a, b)
  <2>1. PICK p \in open, q \in open : C = {x \in open : ~Older(x, p) /\ ~Older(q, x)}
    BY DEF Slices
  <2>2. C = Slice(Rank(p), Rank(q))
    BY <1>1, <2>1
  <2>3. Rank(p) \in 0..N - 1 /\ Rank(q) \in 0..N - 1 /\ N \in Nat
    BY RankNat, OpenFinite
  <2>4. PICK x \in C : TRUE
    BY <1>3
  <2>5. Rank(x) \in Rank(p)..Rank(q)
    BY <2>2, <2>4 DEF Slice
  <2>6. Rank(q) \in Rank(p)..N - 1
    BY <2>3, <2>5
  <2> QED
    BY <2>2, <2>3, <2>6
<1> QED
  BY <1>2, <1>3

-----------------------------------------------------------------------------
(* The search itself. *)

(* The pairs of indices the two loops have been through. *)
Passed(a, b) == a < i \/ (a = i /\ b < j)

(***************************************************************************)
(* What the search has passed, whether it looked at it or an exit cut it   *)
(* off, pays for nothing; what it returned does, in its bounds.            *)
(***************************************************************************)
PassedPayNothing ==
    \A a \in 0..N - 1 : \A b \in a..N - 1 :
        Passed(a, b) => ~PaysFor(Slice(a, b), amount)

ReturnedPays ==
    /\ pc = "exhausted" => i > LastStart
    /\ pc = "found" => /\ i \in 0..N - 1 /\ j \in i..N - 1
                       /\ answer = Slice(i, j)
                       /\ PaysFor(answer, amount)

(* Where the two loop variables are. *)
IndicesInRange ==
    /\ open \subseteq InvoiceIds /\ amount \in Payments
    /\ i \in Nat /\ j \in Int /\ i + BatchMinRun - 1 <= j
    /\ i <= LastStart + 1 \/ i = 0
    /\ j <= N \/ j = i + BatchMinRun - 1
    /\ pc \in {"search", "found", "exhausted"}
    /\ answer \subseteq open

SearchInv == IndicesInRange /\ PassedPayNothing /\ ReturnedPays

LEMMA MinOfTwo ==
    ASSUME NEW m \in Int, NEW n \in Int
    PROVE  Min({m, n}) = IF m <= n THEN m ELSE n
PROOF
  BY DEF Min

LEMMA MaxOfTwo ==
    ASSUME NEW m \in Int, NEW n \in Int
    PROVE  Max({m, n}) = IF m >= n THEN m ELSE n
PROOF
  BY DEF Max

LEMMA LastEndIs ==
    ASSUME open \subseteq InvoiceIds, NEW a \in Nat
    PROVE  LastEnd(a) = IF N <= a + BatchMaxRun THEN N - 1 ELSE a + BatchMaxRun - 1
PROOF
<1>1. PICK m \in Nat : m = a + BatchMaxRun
  BY BatchAssumption
<1>2. Min({N, m}) = IF N <= m THEN N ELSE m
  BY OpenFinite, MinOfTwo
<1>3. LastEnd(a) = Min({N, m}) - 1
  BY <1>1 DEF LastEnd
<1> QED
  BY <1>1, <1>2, <1>3, OpenFinite, BatchAssumption

(* The length of a run decides before its amounts do. *)
LEMMA WrongLength ==
    ASSUME open \subseteq InvoiceIds, NEW a \in 0..N - 1, NEW b \in a..N - 1,
           b - a + 1 \notin BatchMinRun..BatchMaxRun
    PROVE  ~PaysFor(Slice(a, b), amount)
PROOF
  BY SliceCard DEF PaysFor

(***************************************************************************)
(* The two exits: a run too long in days or too dear is of no use, nor is  *)
(* any that extends it.                                                    *)
(***************************************************************************)
LEMMA LongerStaysLong ==
    ASSUME open \subseteq InvoiceIds, NEW a \in 0..N - 1, NEW b \in a..N - 1, NEW c \in b..N - 1,
           RunSpan(a, b) > BatchWindow
    PROVE  ~PaysFor(Slice(a, c), amount)
PROOF
<1>1. N \in Nat /\ c \in a..N - 1 /\ BatchWindow \in Int
  BY OpenFinite, SearchAssumption
<1>2. Span(Slice(a, c)) = RunSpan(a, c)
  BY <1>1, SliceSpan
<1>3. RunSpan(a, b) \in Int /\ RunSpan(a, c) \in Int /\ RunSpan(a, b) <= RunSpan(a, c)
  BY SpanGrows
<1> QED
  BY <1>1, <1>2, <1>3 DEF PaysFor

LEMMA DearerStaysDear ==
    ASSUME open \subseteq InvoiceIds, amount \in Payments,
           NEW a \in 0..N - 1, NEW b \in a..N - 1, NEW c \in b..N - 1,
           RunTotal(a, b) > amount + Tolerance
    PROVE  ~PaysFor(Slice(a, c), amount)
PROOF
<1>1. amount \in Int /\ Tolerance \in Int
  BY SearchAssumption
<1>2. Slice(a, b) \subseteq Slice(a, c) /\ Slice(a, c) \subseteq InvoiceIds
  <2>1. \A x \in open : Rank(x) \in Nat
    BY RankNat, OpenFinite
  <2> QED
    BY <2>1, OpenFinite DEF Slice
<1>3. /\ BatchTotal(Slice(a, b)) \in Int /\ BatchTotal(Slice(a, c)) \in Int
      /\ BatchTotal(Slice(a, b)) <= BatchTotal(Slice(a, c))
  BY <1>2, TotalGrows
<1> QED
  BY <1>1, <1>3 DEF PaysFor, RunTotal, Abs

-----------------------------------------------------------------------------
(* Each step keeps SearchInv.  The customer and the payment do not change. *)

LEMMA SameRuns ==
    ASSUME open' = open, amount' = amount
    PROVE  /\ N' = N /\ LastStart' = LastStart
           /\ \A a, b : Slice(a, b)' = Slice(a, b)
PROOF
  BY DEF N, LastStart, Slice, Rank

(* The next start: everything from j on was of no use. *)
LEMMA NextStartKeeps ==
    ASSUME SearchInv, InLoop, NextStart,
           \A c \in j..N - 1 : i <= N - 1 => ~PaysFor(Slice(i, c), amount)
    PROVE  SearchInv'
PROOF
<1>1. /\ N' = N /\ LastStart' = LastStart /\ open' = open /\ amount' = amount
      /\ \A a, b : Slice(a, b)' = Slice(a, b)
  BY SameRuns DEF NextStart
<1>2. /\ open \subseteq InvoiceIds /\ N \in Nat /\ i \in Nat /\ j \in Int
      /\ i + BatchMinRun - 1 <= j /\ i <= LastStart /\ LastStart = N - BatchMinRun
      /\ BatchMinRun \in Nat \ {0}
  BY OpenFinite, BatchAssumption DEF SearchInv, IndicesInRange, InLoop, LastStart
<1>3. i' = i + 1 /\ j' = i + BatchMinRun /\ pc' = "search" /\ pc = "search" /\ answer' = answer
  BY DEF NextStart, InLoop
<1>4. IndicesInRange'
  BY <1>1, <1>2, <1>3 DEF SearchInv, IndicesInRange
<1>5. ReturnedPays'
  BY <1>3 DEF ReturnedPays
<1>6. ASSUME NEW a \in 0..N - 1, NEW b \in a..N - 1, a < i + 1 \/ (a = i + 1 /\ b < i + BatchMinRun)
      PROVE  ~PaysFor(Slice(a, b), amount)
  <2>1. CASE a < i \/ (a = i /\ b < j)
    BY <2>1 DEF SearchInv, PassedPayNothing, Passed
  <2>2. CASE a = i /\ b >= j
    BY <1>2, <2>2
  <2>3. CASE a = i + 1 /\ b < i + BatchMinRun
    <3>1. b - a + 1 \notin BatchMinRun..BatchMaxRun
      BY <1>2, <2>3
    <3> QED
      BY <1>2, <3>1, WrongLength
  <2> QED
    BY <1>2, <1>6, <2>1, <2>2, <2>3
<1>7. PassedPayNothing'
  BY <1>1, <1>3, <1>6 DEF PassedPayNothing, Passed
<1> QED
  BY <1>4, <1>5, <1>7 DEF SearchInv

(* A run within range at which neither exit is taken. *)
LEMMA RunInHand ==
    ASSUME SearchInv, InLoop, j <= LastEnd(i)
    PROVE  /\ i \in 0..N - 1 /\ j \in i..N - 1
           /\ j - i + 1 \in BatchMinRun..BatchMaxRun
PROOF
<1>1. /\ open \subseteq InvoiceIds /\ N \in Nat /\ i \in Nat /\ j \in Int
      /\ i + BatchMinRun - 1 <= j /\ BatchMinRun \in Nat \ {0} /\ BatchMaxRun \in Nat
  BY OpenFinite, BatchAssumption DEF SearchInv, IndicesInRange
<1>2. LastEnd(i) = IF N <= i + BatchMaxRun THEN N - 1 ELSE i + BatchMaxRun - 1
  BY <1>1, LastEndIs
<1> QED
  BY <1>1, <1>2

LEMMA SearchStep ==
    SearchInv /\ [Next]_vars => SearchInv'
PROOF
<1> SUFFICES ASSUME SearchInv, [Next]_vars
             PROVE  SearchInv'
  OBVIOUS
<1>0. /\ open \subseteq InvoiceIds /\ amount \in Payments /\ N \in Nat /\ i \in Nat /\ j \in Int
      /\ i + BatchMinRun - 1 <= j /\ BatchMinRun \in Nat \ {0} /\ BatchMaxRun \in Nat
  BY OpenFinite, BatchAssumption DEF SearchInv, IndicesInRange
<1>1. CASE Exhausted
  <2>1. /\ N' = N /\ LastStart' = LastStart
        /\ \A a, b : Slice(a, b)' = Slice(a, b)
    BY <1>1, SameRuns DEF Exhausted
  <2>2. IndicesInRange'
    BY <1>1, <2>1 DEF SearchInv, IndicesInRange, Exhausted
  <2>3. PassedPayNothing'
    BY <1>1, <2>1 DEF SearchInv, PassedPayNothing, Passed, Exhausted
  <2>4. ReturnedPays'
    BY <1>1, <2>1 DEF ReturnedPays, Exhausted
  <2> QED
    BY <2>2, <2>3, <2>4 DEF SearchInv
<1>2. CASE RangeEnds
  <2>1. InLoop /\ NextStart /\ j > LastEnd(i)
    BY <1>2 DEF RangeEnds
  <2>2. LastEnd(i) = IF N <= i + BatchMaxRun THEN N - 1 ELSE i + BatchMaxRun - 1
    BY <1>0, LastEndIs
  <2>3. ASSUME NEW c \in j..N - 1, i <= N - 1
        PROVE  ~PaysFor(Slice(i, c), amount)
    <3>1. i \in 0..N - 1 /\ c \in i..N - 1 /\ c - i + 1 \notin BatchMinRun..BatchMaxRun
      BY <1>0, <2>1, <2>2, <2>3
    <3> QED
      BY <1>0, <3>1, WrongLength
  <2> QED
    BY <2>1, <2>3, NextStartKeeps
<1>3. CASE BreakOnSpan
  <2>1. InLoop /\ NextStart /\ j <= LastEnd(i) /\ RunSpan(i, j) > BatchWindow
    BY <1>3 DEF BreakOnSpan, TooLong
  <2>2. i \in 0..N - 1 /\ j \in i..N - 1
    BY <2>1, RunInHand
  <2>3. \A c \in j..N - 1 : ~PaysFor(Slice(i, c), amount)
    BY <1>0, <2>1, <2>2, LongerStaysLong
  <2> QED
    BY <2>1, <2>3, NextStartKeeps
<1>4. CASE BreakOnTotal
  <2>1. InLoop /\ NextStart /\ j <= LastEnd(i) /\ RunTotal(i, j) > amount + Tolerance
    BY <1>4 DEF BreakOnTotal, TooDear
  <2>2. i \in 0..N - 1 /\ j \in i..N - 1
    BY <2>1, RunInHand
  <2>3. \A c \in j..N - 1 : ~PaysFor(Slice(i, c), amount)
    BY <1>0, <2>1, <2>2, DearerStaysDear
  <2> QED
    BY <2>1, <2>3, NextStartKeeps
<1>5. CASE Found
  <2>1. /\ InLoop /\ j <= LastEnd(i) /\ ~(RunSpan(i, j) > BatchWindow)
        /\ Abs(RunTotal(i, j) - amount) <= Tolerance
        /\ pc' = "found" /\ answer' = Slice(i, j)
        /\ open' = open /\ amount' = amount /\ i' = i /\ j' = j
    BY <1>5 DEF Found, TooLong
  <2>2. /\ i \in 0..N - 1 /\ j \in i..N - 1
        /\ j - i + 1 \in BatchMinRun..BatchMaxRun
    BY <2>1, RunInHand
  <2>3. /\ N' = N /\ LastStart' = LastStart
        /\ \A a, b : Slice(a, b)' = Slice(a, b)
    BY <2>1, SameRuns
  <2>4. PaysFor(Slice(i, j), amount)
    <3>1. Cardinality(Slice(i, j)) = j - i + 1
      BY <1>0, <2>2, SliceCard
    <3>2. Span(Slice(i, j)) = RunSpan(i, j) /\ RunSpan(i, j) \in Int
      BY <1>0, <2>2, SliceSpan, SpanGrows
    <3> QED
      BY <2>1, <2>2, <3>1, <3>2, SearchAssumption DEF PaysFor, RunTotal
  <2>5. IndicesInRange'
    BY <2>1, <2>3 DEF SearchInv, IndicesInRange, Slice
  <2>6. PassedPayNothing'
    BY <2>1, <2>3 DEF SearchInv, PassedPayNothing, Passed
  <2>7. ReturnedPays'
    BY <2>1, <2>2, <2>3, <2>4 DEF ReturnedPays
  <2> QED
    BY <2>5, <2>6, <2>7 DEF SearchInv
<1>6. CASE Extend
  <2>1. /\ InLoop /\ j <= LastEnd(i)
        /\ Abs(RunTotal(i, j) - amount) > Tolerance
        /\ j' = j + 1
        /\ open' = open /\ amount' = amount /\ i' = i /\ pc' = pc /\ answer' = answer
    BY <1>6 DEF Extend
  <2>2. i \in 0..N - 1 /\ j \in i..N - 1
    BY <2>1, RunInHand
  <2>3. /\ N' = N /\ LastStart' = LastStart
        /\ \A a, b : Slice(a, b)' = Slice(a, b)
    BY <2>1, SameRuns
  <2>4. ~PaysFor(Slice(i, j), amount)
    <3>1. BatchTotal(Slice(i, j)) \in Int
      <4>1. Slice(i, j) \in SUBSET InvoiceIds
        BY <1>0 DEF Slice
      <4> QED
        BY <4>1, TotalGrows
    <3>2. amount \in Int /\ Tolerance \in Int
      BY <1>0, SearchAssumption
    <3> QED
      BY <2>1, <3>1, <3>2 DEF PaysFor, RunTotal, Abs
  <2>5. IndicesInRange'
    BY <1>0, <2>1, <2>2, <2>3 DEF SearchInv, IndicesInRange
  <2>6. ASSUME NEW a \in 0..N - 1, NEW b \in a..N - 1, a < i \/ (a = i /\ b < j + 1)
        PROVE  ~PaysFor(Slice(a, b), amount)
    <3>1. CASE a < i \/ (a = i /\ b < j)
      BY <3>1 DEF SearchInv, PassedPayNothing, Passed
    <3>2. CASE a = i /\ b = j
      BY <2>4, <3>2
    <3> QED
      BY <1>0, <2>6, <3>1, <3>2
  <2>7. PassedPayNothing'
    BY <2>1, <2>3, <2>6 DEF PassedPayNothing, Passed
  <2>8. ReturnedPays'
    BY <2>1 DEF ReturnedPays, InLoop
  <2> QED
    BY <2>5, <2>7, <2>8 DEF SearchInv
<1>7. CASE UNCHANGED vars
  <2>1. /\ open' = open /\ amount' = amount /\ i' = i /\ j' = j /\ pc' = pc /\ answer' = answer
    BY <1>7 DEF vars
  <2>2. /\ N' = N /\ LastStart' = LastStart
        /\ \A a, b : Slice(a, b)' = Slice(a, b)
    BY <2>1, SameRuns
  <2> QED
    BY <2>1, <2>2 DEF SearchInv, IndicesInRange, PassedPayNothing, Passed, ReturnedPays
<1> QED
  BY <1>1, <1>2, <1>3, <1>4, <1>5, <1>6, <1>7 DEF Next

LEMMA InitSearch == Init => SearchInv
PROOF
<1> SUFFICES ASSUME Init
             PROVE  SearchInv
  OBVIOUS
<1>1. open \subseteq InvoiceIds /\ BatchMinRun \in Nat \ {0} /\ BatchMaxRun \in Nat
  BY BatchAssumption DEF Init
<1>2. N \in Nat
  BY <1>1, OpenFinite
<1>3. IndicesInRange
  BY <1>1 DEF Init, IndicesInRange
<1>4. PassedPayNothing
  <2> SUFFICES ASSUME NEW a \in 0..N - 1, NEW b \in a..N - 1, Passed(a, b)
               PROVE  ~PaysFor(Slice(a, b), amount)
    BY DEF PassedPayNothing
  <2>1. b - a + 1 \notin BatchMinRun..BatchMaxRun
    BY <1>1, <1>2 DEF Init, Passed
  <2> QED
    BY <1>1, <2>1, WrongLength
<1>5. ReturnedPays
  BY DEF Init, ReturnedPays
<1> QED
  BY <1>3, <1>4, <1>5 DEF SearchInv

LEMMA SearchAlways == Spec => []SearchInv
PROOF
  BY InitSearch, SearchStep, PTL DEF Spec

(***************************************************************************)
(* The loop variables and the answer are well typed, for every customer    *)
(* and payment (find_batch).                                               *)
(***************************************************************************)
THEOREM SearchTypes == Spec => []TypeOK
PROOF
<1>1. SearchInv => TypeOK
  <2> SUFFICES ASSUME SearchInv
               PROVE  TypeOK
    OBVIOUS
  <2>1. /\ open \subseteq InvoiceIds /\ N \in Nat /\ i \in Nat /\ j \in Int
        /\ BatchMinRun \in Nat \ {0} /\ LastStart = N - BatchMinRun
    BY OpenFinite, BatchAssumption DEF SearchInv, IndicesInRange, LastStart
  <2>2. Max({0, LastStart + 1}) = IF 0 >= LastStart + 1 THEN 0 ELSE LastStart + 1
    BY <2>1, MaxOfTwo
  <2> DEFINE least == i + BatchMinRun - 1
  <2>3. least \in Int
    BY <2>1
  <2>4. Max({N, least}) = IF N >= least THEN N ELSE least
    <3> HIDE DEF least
    <3> QED
      BY <2>1, <2>3, MaxOfTwo
  <2>5. i \in 0..Max({0, LastStart + 1})
    BY <2>1, <2>2 DEF SearchInv, IndicesInRange
  <2>6. j \in least..Max({N, least})
    BY <2>1, <2>4 DEF SearchInv, IndicesInRange
  <2> QED
    BY <2>5, <2>6 DEF SearchInv, IndicesInRange, TypeOK
<1> QED
  BY <1>1, SearchAlways, PTL

(* Of two runs the rule prefers the one the loops come to first. *)
LEMMA PrefersFirst ==
    ASSUME open \subseteq InvoiceIds,
           NEW a \in 0..N - 1, NEW b \in a..N - 1, NEW c \in 0..N - 1, NEW d \in c..N - 1
    PROVE  Section4Prefers(Slice(a, b), Slice(c, d)) <=> a < c \/ (a = c /\ b < d)
PROOF
<1>1. N \in Nat
  BY OpenFinite
<1>2. /\ Oldest(Slice(a, b)) = At(a) /\ Oldest(Slice(c, d)) = At(c)
      /\ Cardinality(Slice(a, b)) = b - a + 1 /\ Cardinality(Slice(c, d)) = d - c + 1
  BY <1>1, SliceOldest, SliceCard
<1>3. At(a) \in open /\ Rank(At(a)) = a /\ At(c) \in open /\ Rank(At(c)) = c
  BY <1>1, AtRank
<1>4. Older(At(a), At(c)) <=> a < c
  BY <1>3, RankOrders
<1> QED
  BY <1>1, <1>2, <1>3, <1>4 DEF Section4Prefers

(***************************************************************************)
(* The search returns the batch section 4 selects, and None when there is  *)
(* none, for every customer, payment, tolerance, window and run length:    *)
(* neither exit of the inner loop, nor the range of either loop, cuts off  *)
(* the winning run (find_batch).                                           *)
(***************************************************************************)
THEOREM SearchFindsTheBatch == Spec => []AnswerIsSection4
PROOF
<1> DEFINE runs == {C \in Slices(open) : PaysFor(C, amount)}
<1>1. ASSUME SearchInv, NEW C \in runs
      PROVE  \E a \in 0..N - 1 : \E b \in a..N - 1 : C = Slice(a, b) /\ ~Passed(a, b)
  <2>1. C \in Slices(open) /\ PaysFor(C, amount) /\ open \subseteq InvoiceIds
    BY <1>1 DEF SearchInv, IndicesInRange
  <2>2. C # {}
    BY <2>1, FS_EmptySet, BatchAssumption DEF PaysFor
  <2>3. \E a \in 0..N - 1 : \E b \in a..N - 1 : C = Slice(a, b)
    BY <2>1, <2>2, SlicesAreRuns
  <2> QED
    BY <1>1, <2>1, <2>3 DEF SearchInv, PassedPayNothing
<1>2. Section4Batch(open, amount) = {C \in runs : \A D \in runs \ {C} : Section4Prefers(C, D)}
  BY DEF Section4Batch
<1>3. ASSUME SearchInv, pc = "exhausted"
      PROVE  Section4Batch(open, amount) = {}
  <2>1. /\ N \in Nat /\ open \subseteq InvoiceIds /\ BatchMinRun \in Nat \ {0} /\ i \in Nat
        /\ i > N - BatchMinRun
    BY <1>3, OpenFinite, BatchAssumption DEF SearchInv, IndicesInRange, ReturnedPays, LastStart
  <2>2. ASSUME NEW C \in runs
        PROVE  FALSE
    <3>1. PICK a \in 0..N - 1 : \E b \in a..N - 1 : C = Slice(a, b) /\ ~Passed(a, b)
      BY <1>1, <1>3, <2>2
    <3>2. PICK b \in a..N - 1 : C = Slice(a, b) /\ ~Passed(a, b)
      BY <3>1
    <3>3. b - a + 1 \notin BatchMinRun..BatchMaxRun
      BY <2>1, <3>2 DEF Passed
    <3> QED
      BY <2>1, <2>2, <3>2, <3>3, WrongLength
  <2> QED
    BY <1>2, <2>2
<1>4. ASSUME SearchInv, pc = "found"
      PROVE  Section4Batch(open, amount) = {answer}
  <2>1. /\ N \in Nat /\ open \subseteq InvoiceIds /\ i \in 0..N - 1 /\ j \in i..N - 1
        /\ answer = Slice(i, j) /\ PaysFor(answer, amount)
    BY <1>4, OpenFinite DEF SearchInv, IndicesInRange, ReturnedPays
  <2>2. answer \in runs
    BY <2>1, SlicesAreRuns
  <2>3. ASSUME NEW D \in runs, D # answer
        PROVE  Section4Prefers(answer, D) /\ ~Section4Prefers(D, answer)
    <3>1. PICK a \in 0..N - 1 : \E b \in a..N - 1 : D = Slice(a, b) /\ ~Passed(a, b)
      BY <1>1, <1>4, <2>3
    <3>2. PICK b \in a..N - 1 : D = Slice(a, b) /\ ~Passed(a, b)
      BY <3>1
    <3>3. i < a \/ (i = a /\ j < b)
      BY <2>1, <2>3, <3>2 DEF Passed
    <3>4. /\ Section4Prefers(Slice(i, j), Slice(a, b))
          /\ ~Section4Prefers(Slice(a, b), Slice(i, j))
      BY <2>1, <3>3, PrefersFirst
    <3> QED
      BY <2>1, <3>2, <3>4
  <2> HIDE DEF runs
  <2> QED
    BY <1>2, <2>2, <2>3
<1>5. SearchInv => AnswerIsSection4
  BY <1>3, <1>4 DEF AnswerIsSection4
<1> QED
  BY <1>5, SearchAlways, PTL

=============================================================================
