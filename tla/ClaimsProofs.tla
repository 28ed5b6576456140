---------------------------- MODULE ClaimsProofs ----------------------------
(***************************************************************************)
(* Proofs about batch adjudication: its types and the terms of a policy    *)
(* for any history, and, when no record of the history is of a batch that  *)
(* is run, that a rerun writes the records that are there already.         *)
(***************************************************************************)
EXTENDS ClaimsProperties, SumProofs

-----------------------------------------------------------------------------
(* The inductive invariants. *)

Records(rows) == IsFiniteSet(rows) /\ \A p \in rows : IsRecord(p)

Keyed(rows) == \A p, q \in rows : p.claim = q.claim /\ p.batch = q.batch => p = q

(* Where jobs stand: the one between clear_batch and commit has the lock. *)
JobsOK ==
    /\ pc \in [Jobs -> Ended \cup {"begin", "claims", "open", "close"}]
    /\ batch \in [Jobs -> RunBatches] /\ asOf \in [Jobs -> Int]
    /\ todo \in [Jobs -> SUBSET ClaimIds]
    /\ runs \in 0..MaxRuns /\ alone \in Jobs \cup {NoJob}
    /\ DOMAIN results = Jobs /\ DOMAIN export = Batches
    /\ writer \in Jobs \cup {NoJob}
    /\ \A j \in Jobs :
        /\ writer = j <=> pc[j] = "claims"
        /\ todo[j] \subseteq ClaimsOf(batch[j])
        /\ pc[j] # "claims" => todo[j] = {}
        /\ pc[j] \in Ended \cup {"begin"} => results[j] = {}

ResultsOK ==
    /\ \A j \in Jobs : \A res \in results[j] :
           /\ res.claim \in ClaimsOf(batch[j])
           /\ res.status \in Statuses
           /\ res.daysLate \in Nat
           /\ \A p \in res.record : IsRecord(p)
           /\ \A q \in res.charge : IsCharge(q)
    /\ \A b \in Batches : export[b].state \in {"absent", "truncated", "written", "mixed"}

ChargesOK == \A q \in charges \cup newCharges : IsCharge(q)

SharedOK == shared \in [Jobs -> BOOLEAN]

TypeInv == JobsOK /\ ResultsOK /\ Records(payments) /\ Records(draft) /\ ChargesOK /\ SharedOK

TermsInv ==
    /\ \A p \in payments \cup draft : Covered(p.claim)
    /\ TermsKept(payments) /\ TermsKept(draft)

(* The records a claim's adjudication in a batch builds on. *)
Earlier(rows, c, b) == {q \in rows : q.batch # b \/ Before(q.claim, c)}

RowFor(c, b, rows) ==
    PaymentFor(c, b, VersionFor(c), Prior(rows, c), Attributed(c, VersionFor(c), Prior(rows, c)))

Rightful(p, rows) == p = RowFor(p.claim, p.batch, Earlier(rows, p.claim, p.batch))

(* Adjudicating the claim of any record once more gives that record. *)
Sound(rows) ==
    \A p \in rows : p.batch \in RunBatches =>
        /\ p.claim \in ClaimsOf(p.batch)
        /\ Covered(p.claim)
        /\ Rightful(p, rows)

OfBatch(rows, b) == {p \in rows : p.batch = b}
OfOthers(rows, b) == {p \in rows : p.batch # b}

(* Each of these claims that is covered has its record of the batch. *)
Recorded(rows, b, claims) ==
    \A c \in claims : Covered(c) => \E p \in rows : p.claim = c /\ p.batch = b

Whole(rows, b) == Recorded(rows, b, ClaimsOf(b))

Processed(j) == ClaimsOf(batch[j]) \ todo[j]

InProgress(j) ==
    LET b == batch[j]
    IN  /\ \A c \in Processed(j), d \in todo[j] : Before(c, d)
        /\ OfOthers(draft, b) = OfOthers(payments, b)
        /\ \A p \in OfBatch(draft, b) : p.claim \in Processed(j)
        /\ Recorded(draft, b, Processed(j))
        /\ OfBatch(payments, b) # {} => draft \subseteq payments
        /\ OfBatch(payments, b) = {} => Sound(draft) /\ DeductibleKept(draft)

LedgerInv ==
    /\ Keyed(payments) /\ Keyed(draft)
    /\ Sound(payments) /\ DeductibleKept(payments)
    /\ \A p \in payments : p.batch \notin RunBatches => p \in History
    /\ \A b \in RunBatches : OfBatch(payments, b) # {} => Whole(payments, b)
    /\ \A j \in Jobs : pc[j] = "claims" => InProgress(j)

(* The results of a run, or the rows of an export, show a batch's records. *)
Shows(rows, claims, records) ==
    /\ {res.claim : res \in rows} = claims
    /\ UNION {res.record : res \in rows} = records

ResultsInv ==
    /\ \A j \in Jobs :
        /\ pc[j] = "claims" => Shows(results[j], Processed(j), OfBatch(draft, batch[j]))
        /\ pc[j] \in {"open", "close"} =>
               /\ Shows(results[j], ClaimsOf(batch[j]), OfBatch(payments, batch[j]))
               /\ Whole(payments, batch[j])
    /\ \A b \in Batches : export[b].state = "written" =>
        /\ b \in RunBatches /\ Whole(payments, b)
        /\ Shows(export[b].rows, ClaimsOf(b), OfBatch(payments, b))

AllAsOf(rows, b, date) == \A res \in rows : IsAsOf(res, b, date)

(* The rows of a run, and of an export, are as of one date. *)
DatesInv ==
    /\ \A j \in Jobs :
        /\ Running(j) => asOf[j] \in AsOfs[batch[j]]
        /\ AllAsOf(results[j], batch[j], asOf[j])
    /\ \A b \in Batches : export[b].state = "written" =>
           \E date \in AsOfs[b] : AllAsOf(export[b].rows, b, date)

ChargesIn(rows) == UNION {res.charge : res \in rows}

(* A job that nobody runs beside: its rows show the charges of the table,  *)
(* and nobody else writes its file.                                        *)
AloneInv ==
    \A j \in Jobs :
        /\ pc[j] = "claims" => ChargesIn(results[j]) = OfBatch(newCharges, batch[j])
        /\ alone = j =>
            /\ \A k \in Jobs \ {j} : ~Running(k)
            /\ pc[j] \in {"open", "close"} => ChargesIn(results[j]) = OfBatch(charges, batch[j])
            /\ pc[j] = "close" => ~shared[j]
            /\ pc[j] = "done" =>
                /\ export[batch[j]].state = "written"
                /\ ChargesIn(export[batch[j]].rows) = OfBatch(charges, batch[j])

-----------------------------------------------------------------------------
(* Numbers. *)

LEMMA MinOfTwo ==
    ASSUME NEW a \in Int, NEW b \in Int
    PROVE  Min({a, b}) = IF a <= b THEN a ELSE b
PROOF
<1>1. \E x \in {a, b} : \A y \in {a, b} : x =< y
  <2>1. CASE a <= b
    BY <2>1
  <2>2. CASE b <= a
    BY <2>2
  <2> QED
    BY <2>1, <2>2
<1>2. Min({a, b}) \in {a, b} /\ \A y \in {a, b} : Min({a, b}) =< y
  BY <1>1 DEF Min
<1> QED
  BY <1>2

LEMMA NonNegativeIs ==
    ASSUME NEW n \in Int
    PROVE  NonNegative(n) \in Nat /\ NonNegative(n) = IF n <= 0 THEN 0 ELSE n
PROOF
<1>1. \E x \in {0, n} : \A y \in {0, n} : x >= y
  <2>1. CASE n <= 0
    BY <2>1
  <2>2. CASE n >= 0
    BY <2>2
  <2> QED
    BY <2>1, <2>2
<1>2. Max({0, n}) \in {0, n} /\ \A y \in {0, n} : Max({0, n}) >= y
  BY <1>1 DEF Max
<1> QED
  BY <1>2 DEF NonNegative

LEMMA MaxIsElement ==
    ASSUME NEW S, IsFiniteSet(S), \A e \in S : e \in Int, S # {}
    PROVE  Max(S) \in S /\ \A y \in S : Max(S) >= y
PROOF
<1> DEFINE T == {{y \in S : y >= m} : m \in S}
<1>1. PICK x \in T : \A y \in T : y \subseteq x => y = x
  <2>1. T \in SUBSET SUBSET S
    OBVIOUS
  <2>2. T # {}
    OBVIOUS
  <2> HIDE DEF T
  <2> QED
    BY <2>1, <2>2, Minimal
<1>2. PICK m \in S : x = {y \in S : y >= m}
  OBVIOUS
<1>3. ASSUME NEW n \in S
      PROVE  m >= n
  <2>1. SUFFICES ASSUME ~(m >= n)
                 PROVE  FALSE
    OBVIOUS
  <2> DEFINE above == {y \in S : y >= n}
  <2>2. m \in Int /\ n \in Int /\ \A y \in S : y \in Int
    OBVIOUS
  <2>3. above \subseteq x
    <3>1. ASSUME NEW y \in S, y >= n
          PROVE  y >= m
      <4>1. y \in Int
        BY <2>2
      <4> QED
        BY <2>1, <2>2, <3>1, <4>1
    <3> QED
      BY <1>2, <3>1
  <2>4. above \in T
    OBVIOUS
  <2>5. above = x
    BY <1>1, <2>3, <2>4
  <2>6. m \in x /\ m \notin above
    BY <1>2, <2>1, <2>2
  <2> QED
    BY <2>5, <2>6
<1> QED
  BY <1>2, <1>3 DEF Max

(* What is left of a term (a deductible, a limit, a sublimit), and what of *)
(* an amount it covers.                                                    *)
Left(term, used) == NonNegative(term - used)
Taken(val, term, used) == Min({val, Left(term, used)})

LEMMA TakenIs ==
    ASSUME NEW term \in Nat, NEW val \in Nat, NEW used \in Nat
    PROVE  /\ Left(term, used) \in Nat
           /\ Left(term, used) = IF term <= used THEN 0 ELSE term - used
           /\ Taken(val, term, used) \in Nat
           /\ Taken(val, term, used) = IF val <= Left(term, used) THEN val ELSE Left(term, used)
PROOF
<1> DEFINE rest == term - used
<1>1. rest \in Int
  OBVIOUS
<1>2. NonNegative(rest) \in Nat /\ NonNegative(rest) = IF rest <= 0 THEN 0 ELSE rest
  <2> HIDE DEF rest
  <2> QED
    BY <1>1, NonNegativeIs
<1>3. Left(term, used) = NonNegative(rest)
  BY DEF Left
<1> DEFINE left == Left(term, used)
<1>4. left \in Nat /\ left = IF term <= used THEN 0 ELSE term - used
  BY <1>2, <1>3
<1>5. Min({val, left}) = IF val <= left THEN val ELSE left
  <2> HIDE DEF left
  <2> QED
    BY <1>4, MinOfTwo
<1> QED
  BY <1>4, <1>5 DEF Taken

(***************************************************************************)
(* What another claim takes of what is left after all that was used, does  *)
(* not change what an earlier one took of what was then left.              *)
(***************************************************************************)
LEMMA TakenStays ==
    ASSUME NEW term \in Nat, NEW val \in Nat, NEW before \in Nat, NEW all \in Nat, NEW after \in Nat,
           before + Taken(val, term, before) <= all,
           before <= after, after <= before + Left(term, all)
    PROVE  Taken(val, term, after) = Taken(val, term, before)
PROOF
<1>1. /\ Left(term, before) = IF term <= before THEN 0 ELSE term - before
      /\ Taken(val, term, before) = IF val <= Left(term, before) THEN val ELSE Left(term, before)
  BY TakenIs
<1>2. /\ Left(term, after) = IF term <= after THEN 0 ELSE term - after
      /\ Taken(val, term, after) = IF val <= Left(term, after) THEN val ELSE Left(term, after)
  BY TakenIs
<1>3. Left(term, all) = IF term <= all THEN 0 ELSE term - all
  BY TakenIs
<1> QED
  BY <1>1, <1>2, <1>3

-----------------------------------------------------------------------------
(* The version in force, and what is the same for all claims of an         *)
(* occurrence.                                                             *)

LEMMA VersionIsOne ==
    ASSUME NEW c \in ClaimIds, Covered(c)
    PROVE  \E k \in DOMAIN Versions[Claim[c].policy] :
               VersionFor(c) = Versions[Claim[c].policy][k]
PROOF
<1> DEFINE versions == Versions[Claim[c].policy]
           inForce == {k \in DOMAIN versions : InForce(versions[k], Claim[c].loss)}
<1>1. IsFiniteSet(DOMAIN versions) /\ DOMAIN versions \subseteq Int
  BY VersionsAssumption
<1>2. inForce # {}
  BY DEF Covered, VersionsInForce
<1>3. IsFiniteSet(inForce) /\ \A k \in inForce : k \in Int
  <2>1. inForce \subseteq DOMAIN versions
    OBVIOUS
  <2> HIDE DEF inForce, versions
  <2> QED
    BY <1>1, <2>1, FS_Subset
<1>4. Max(inForce) \in inForce
  <2> HIDE DEF inForce, versions
  <2> QED
    BY <1>2, <1>3, MaxIsElement
<1>5. VersionFor(c) = versions[Max(inForce)]
  BY DEF VersionFor
<1> QED
  BY <1>4, <1>5

LEMMA TermsTyped ==
    ASSUME NEW c \in ClaimIds, Covered(c)
    PROVE  /\ VersionFor(c).limit \in Nat
           /\ OccurrenceDeductible(VersionFor(c), c) \in Nat
           /\ \A cat \in DOMAIN VersionFor(c).sublimits : VersionFor(c).sublimits[cat] \in Nat
PROOF
<1>1. PICK k \in DOMAIN Versions[Claim[c].policy] : VersionFor(c) = Versions[Claim[c].policy][k]
  BY VersionIsOne
<1> QED
  BY <1>1, VersionsAssumption DEF OccurrenceDeductible

LEMMA SameOccurrence ==
    ASSUME NEW c \in ClaimIds, NEW d \in ClaimIds, Claim[c].occurrence = Claim[d].occurrence
    PROVE  /\ VersionFor(c) = VersionFor(d)
           /\ Covered(c) <=> Covered(d)
           /\ OccurrenceDeductible(VersionFor(c), c) = OccurrenceDeductible(VersionFor(d), d)
           /\ \A rows : Prior(rows, c) = Prior(rows, d)
PROOF
<1>1. /\ Claim[c].policy = Claim[d].policy
      /\ Claim[c].peril = Claim[d].peril
      /\ Claim[c].loss = Claim[d].loss
  BY OccurrenceAssumption
<1>2. VersionFor(c) = VersionFor(d)
  BY <1>1 DEF VersionFor
<1> QED
  BY <1>1, <1>2 DEF Covered, VersionsInForce, OccurrenceDeductible, Prior

(* The terms of an occurrence are those of any of its claims. *)
LEMMA OccurrenceTerms ==
    ASSUME NEW c \in ClaimIds
    PROVE  /\ OccurrenceVersion(Claim[c].occurrence) = VersionFor(c)
           /\ OccurrenceTerm(Claim[c].occurrence) = OccurrenceDeductible(VersionFor(c), c)
PROOF
<1> DEFINE d == CHOOSE e \in ClaimIds : Claim[e].occurrence = Claim[c].occurrence
<1>1. d \in ClaimIds /\ Claim[d].occurrence = Claim[c].occurrence
  OBVIOUS
<1>2. /\ OccurrenceVersion(Claim[c].occurrence) = VersionFor(d)
      /\ OccurrenceTerm(Claim[c].occurrence) = OccurrenceDeductible(VersionFor(d), d)
  BY DEF OccurrenceVersion, OccurrenceTerm
<1> HIDE DEF d
<1> QED
  BY <1>1, <1>2, SameOccurrence

-----------------------------------------------------------------------------
(* Sums over records. *)

LEMMA CategoriesFinite ==
    ASSUME NEW c \in ClaimIds
    PROVE  IsFiniteSet(Categories(c))
PROOF
<1> DEFINE D == DOMAIN Claim[c].items
           f == [k \in D |-> Claim[c].items[k].category]
<1>1. IsFiniteSet(D)
  BY ClaimAssumption
<1>2. f \in Surjection(D, Categories(c))
  BY DEF Categories, Surjection
<1> QED
  BY <1>1, <1>2, FS_Surjection

LEMMA CategoryValueNat ==
    ASSUME NEW c \in ClaimIds, NEW cat
    PROVE  CategoryValue(c, cat) \in Nat
PROOF
<1> DEFINE f == [k \in ItemsOf(c, cat) |-> Claim[c].items[k].acv]
<1>1. IsFiniteSet(ItemsOf(c, cat))
  <2>1. ItemsOf(c, cat) \subseteq DOMAIN Claim[c].items
    BY DEF ItemsOf
  <2> QED
    BY <2>1, ClaimAssumption, FS_Subset
<1>2. \A k \in ItemsOf(c, cat) : Claim[c].items[k].acv \in Nat
  BY ClaimAssumption DEF ItemsOf
<1>3. Summable(f)
  BY <1>1, <1>2 DEF Summable
<1>4. SumFunction(f) \in Nat
  <2> HIDE DEF f
  <2> QED
    BY <1>3, SumFunctionNat
<1> QED
  BY <1>4 DEF CategoryValue

LEMMA TotalNat ==
    ASSUME NEW p, IsRecord(p)
    PROVE  TotalOf(p.attributed) \in Nat
PROOF
<1>1. IsFiniteSet(DOMAIN p.attributed)
  <2>1. IsFiniteSet(Categories(p.claim))
    BY CategoriesFinite DEF IsRecord
  <2> QED
    BY <2>1, FS_Subset DEF IsRecord
<1>2. Summable(p.attributed)
  BY <1>1 DEF Summable, IsRecord
<1> QED
  BY <1>2, SumFunctionNat DEF TotalOf

(* What the sums add up, record by record. *)
PaidIn(rows) == [p \in rows |-> p.indemnity]
AbsorbedIn(rows) == [p \in rows |-> p.deductible]
AllIn(rows) == [p \in rows |-> TotalOf(p.attributed)]
CategoryIn(rows, cat) == [p \in rows |-> AttributedIn(p, cat)]

LEMMA RecordsSummable ==
    ASSUME NEW rows, Records(rows)
    PROVE  /\ Summable(PaidIn(rows)) /\ DOMAIN PaidIn(rows) = rows
           /\ Summable(AbsorbedIn(rows)) /\ DOMAIN AbsorbedIn(rows) = rows
           /\ Summable(AllIn(rows)) /\ DOMAIN AllIn(rows) = rows
           /\ \A cat : Summable(CategoryIn(rows, cat)) /\ DOMAIN CategoryIn(rows, cat) = rows
PROOF
<1>1. ASSUME NEW p \in rows
      PROVE  /\ p.indemnity \in Nat /\ p.deductible \in Nat /\ TotalOf(p.attributed) \in Nat
             /\ \A cat : AttributedIn(p, cat) \in Nat
  <2>1. IsRecord(p)
    BY DEF Records
  <2>2. TotalOf(p.attributed) \in Nat
    BY <2>1, TotalNat
  <2> QED
    BY <2>1, <2>2 DEF IsRecord, AttributedIn
<1>2. IsFiniteSet(rows)
  BY DEF Records
<1>3. Summable(PaidIn(rows)) /\ DOMAIN PaidIn(rows) = rows
  BY <1>1, <1>2 DEF Summable, PaidIn
<1>4. Summable(AbsorbedIn(rows)) /\ DOMAIN AbsorbedIn(rows) = rows
  BY <1>1, <1>2 DEF Summable, AbsorbedIn
<1>5. Summable(AllIn(rows)) /\ DOMAIN AllIn(rows) = rows
  BY <1>1, <1>2 DEF Summable, AllIn
<1>6. \A cat : Summable(CategoryIn(rows, cat)) /\ DOMAIN CategoryIn(rows, cat) = rows
  BY <1>1, <1>2 DEF Summable, CategoryIn
<1> QED
  BY <1>3, <1>4, <1>5, <1>6

LEMMA SumsNat ==
    ASSUME NEW rows, Records(rows)
    PROVE  /\ IndemnityPaid(rows) \in Nat
           /\ DeductibleAbsorbed(rows) \in Nat
           /\ AllAttributed(rows) \in Nat
           /\ \A cat : CategoryAttributed(rows, cat) \in Nat
PROOF
<1>1. /\ SumFunction(PaidIn(rows)) \in Nat /\ SumFunction(AbsorbedIn(rows)) \in Nat
      /\ SumFunction(AllIn(rows)) \in Nat /\ \A cat : SumFunction(CategoryIn(rows, cat)) \in Nat
  BY RecordsSummable, SumFunctionNat
<1> QED
  BY <1>1 DEF IndemnityPaid, DeductibleAbsorbed, AllAttributed, CategoryAttributed,
              PaidIn, AbsorbedIn, AllIn, CategoryIn

(* Fewer records, no larger sums. *)
LEMMA SumsOfPart ==
    ASSUME NEW rows, Records(rows), NEW part, part \subseteq rows
    PROVE  /\ Records(part)
           /\ IndemnityPaid(part) <= IndemnityPaid(rows)
           /\ DeductibleAbsorbed(part) <= DeductibleAbsorbed(rows)
           /\ \A cat : CategoryAttributed(part, cat) <= CategoryAttributed(rows, cat)
PROOF
<1>1. Records(part)
  BY FS_Subset DEF Records
<1>2. SumFunction(PaidIn(part)) <= SumFunction(PaidIn(rows))
  <2>1. \A p \in part : PaidIn(part)[p] = PaidIn(rows)[p]
    BY DEF PaidIn
  <2> QED
    BY <1>1, <2>1, RecordsSummable, SumFunctionPart
<1>3. SumFunction(AbsorbedIn(part)) <= SumFunction(AbsorbedIn(rows))
  <2>1. \A p \in part : AbsorbedIn(part)[p] = AbsorbedIn(rows)[p]
    BY DEF AbsorbedIn
  <2> QED
    BY <1>1, <2>1, RecordsSummable, SumFunctionPart
<1>4. ASSUME NEW cat
      PROVE  SumFunction(CategoryIn(part, cat)) <= SumFunction(CategoryIn(rows, cat))
  <2>1. \A p \in part : CategoryIn(part, cat)[p] = CategoryIn(rows, cat)[p]
    BY DEF CategoryIn
  <2> QED
    BY <1>1, <2>1, RecordsSummable, SumFunctionPart
<1> QED
  BY <1>1, <1>2, <1>3, <1>4 DEF IndemnityPaid, DeductibleAbsorbed, CategoryAttributed,
                                PaidIn, AbsorbedIn, CategoryIn

(* One record more adds its amounts. *)
LEMMA SumsWithOneMore ==
    ASSUME NEW rows, NEW row, row \notin rows, Records(rows \cup {row})
    PROVE  /\ IndemnityPaid(rows \cup {row}) = IndemnityPaid(rows) + row.indemnity
           /\ DeductibleAbsorbed(rows \cup {row}) = DeductibleAbsorbed(rows) + row.deductible
           /\ AllAttributed(rows \cup {row}) = AllAttributed(rows) + TotalOf(row.attributed)
           /\ \A cat : CategoryAttributed(rows \cup {row}, cat)
                           = CategoryAttributed(rows, cat) + AttributedIn(row, cat)
PROOF
<1> DEFINE more == rows \cup {row}
<1>1. Records(rows) /\ row \in more /\ rows = more \ {row}
  BY SumsOfPart
<1> HIDE DEF more
<1>2. SumFunction(PaidIn(more)) = SumFunction(PaidIn(rows)) + row.indemnity
  <2>1. PaidIn(more)[row] = row.indemnity /\ \A p \in rows : PaidIn(rows)[p] = PaidIn(more)[p]
    BY <1>1 DEF PaidIn
  <2> QED
    BY <1>1, <2>1, RecordsSummable, SumFunctionAdd DEF more
<1>3. SumFunction(AbsorbedIn(more)) = SumFunction(AbsorbedIn(rows)) + row.deductible
  <2>1. AbsorbedIn(more)[row] = row.deductible /\ \A p \in rows : AbsorbedIn(rows)[p] = AbsorbedIn(more)[p]
    BY <1>1 DEF AbsorbedIn
  <2> QED
    BY <1>1, <2>1, RecordsSummable, SumFunctionAdd DEF more
<1>4. SumFunction(AllIn(more)) = SumFunction(AllIn(rows)) + TotalOf(row.attributed)
  <2>1. AllIn(more)[row] = TotalOf(row.attributed) /\ \A p \in rows : AllIn(rows)[p] = AllIn(more)[p]
    BY <1>1 DEF AllIn
  <2> QED
    BY <1>1, <2>1, RecordsSummable, SumFunctionAdd DEF more
<1>5. ASSUME NEW cat
      PROVE  SumFunction(CategoryIn(more, cat)) = SumFunction(CategoryIn(rows, cat)) + AttributedIn(row, cat)
  <2>1. CategoryIn(more, cat)[row] = AttributedIn(row, cat)
        /\ \A p \in rows : CategoryIn(rows, cat)[p] = CategoryIn(more, cat)[p]
    BY <1>1 DEF CategoryIn
  <2> QED
    BY <1>1, <2>1, RecordsSummable, SumFunctionAdd DEF more
<1> QED
  BY <1>2, <1>3, <1>4, <1>5 DEF IndemnityPaid, DeductibleAbsorbed, AllAttributed, CategoryAttributed,
                                PaidIn, AbsorbedIn, AllIn, CategoryIn, more

LEMMA SumsOfNone ==
    /\ IndemnityPaid({}) = 0 /\ DeductibleAbsorbed({}) = 0 /\ AllAttributed({}) = 0
    /\ \A cat : CategoryAttributed({}, cat) = 0
PROOF
<1>1. /\ SumFunction(PaidIn({})) = 0 /\ SumFunction(AbsorbedIn({})) = 0 /\ SumFunction(AllIn({})) = 0
      /\ \A cat : SumFunction(CategoryIn({}, cat)) = 0
  BY SumFunctionEmpty DEF PaidIn, AbsorbedIn, AllIn, CategoryIn
<1> QED
  BY <1>1 DEF IndemnityPaid, DeductibleAbsorbed, AllAttributed, CategoryAttributed,
              PaidIn, AbsorbedIn, AllIn, CategoryIn

-----------------------------------------------------------------------------
(* The record of one claim. *)

LEMMA AttributedIs ==
    ASSUME NEW c \in ClaimIds, Covered(c), NEW prior, Records(prior)
    PROVE  LET v == VersionFor(c)
               attributed == Attributed(c, v, prior)
           IN  /\ DOMAIN attributed = Categories(c)
               /\ \A cat \in Categories(c) :
                   /\ cat \in DOMAIN v.sublimits =>
                        attributed[cat] = Min({CategoryValue(c, cat),
                            NonNegative(v.sublimits[cat] - CategoryAttributed(prior, cat))})
                   /\ cat \notin DOMAIN v.sublimits => attributed[cat] = CategoryValue(c, cat)
                   /\ attributed[cat] \in Nat
               /\ \A cat \in DOMAIN v.sublimits : cat \in Categories(c) =>
                    attributed[cat] <= NonNegative(v.sublimits[cat] - CategoryAttributed(prior, cat))
               /\ TotalOf(attributed) \in Nat
PROOF
<1> DEFINE v == VersionFor(c)
           attributed == Attributed(c, v, prior)
           left(cat) == NonNegative(v.sublimits[cat] - CategoryAttributed(prior, cat))
<1>1. DOMAIN attributed = Categories(c)
  BY DEF Attributed
<1>2. ASSUME NEW cat \in Categories(c)
      PROVE  /\ cat \in DOMAIN v.sublimits => attributed[cat] = Min({CategoryValue(c, cat), left(cat)})
             /\ cat \notin DOMAIN v.sublimits => attributed[cat] = CategoryValue(c, cat)
  BY DEF Attributed
<1>3. ASSUME NEW cat \in Categories(c)
      PROVE  /\ attributed[cat] \in Nat
             /\ cat \in DOMAIN v.sublimits => attributed[cat] <= left(cat)
  <2>1. CategoryValue(c, cat) \in Nat
    BY CategoryValueNat
  <2>2. CASE cat \in DOMAIN v.sublimits
    <3>1. v.sublimits[cat] - CategoryAttributed(prior, cat) \in Int
      BY <2>2, TermsTyped, SumsNat
    <3>2. left(cat) \in Nat
      BY <3>1, NonNegativeIs
    <3>3. attributed[cat] = IF CategoryValue(c, cat) <= left(cat) THEN CategoryValue(c, cat) ELSE left(cat)
      <4> HIDE DEF left, attributed, v
      <4>1. CategoryValue(c, cat) \in Int /\ left(cat) \in Int
        BY <2>1, <3>2
      <4> QED
        BY <1>2, <2>2, <4>1, MinOfTwo
    <3> HIDE DEF left, attributed, v
    <3> QED
      BY <2>1, <3>2, <3>3
  <2>3. CASE cat \notin DOMAIN v.sublimits
    BY <1>2, <2>1, <2>3
  <2> QED
    BY <2>2, <2>3
<1>4. TotalOf(attributed) \in Nat
  <2>1. IsFiniteSet(Categories(c))
    BY CategoriesFinite
  <2> HIDE DEF attributed
  <2>2. Summable(attributed)
    BY <1>1, <1>3, <2>1 DEF Summable
  <2> QED
    BY <2>2, SumFunctionNat DEF TotalOf
<1> QED
  BY <1>1, <1>2, <1>3, <1>4

(* The prior of a claim. *)
LEMMA PriorIs ==
    ASSUME NEW rows, Records(rows), NEW c
    PROVE  Records(Prior(rows, c)) /\ Prior(rows, c) \subseteq rows
PROOF
<1>1. Prior(rows, c) \subseteq rows
  BY DEF Prior, OnOccurrence
<1> QED
  BY <1>1, SumsOfPart

(* What is left of an occurrence's deductible and of its limit. *)
DeductibleLeft(c, prior) ==
    NonNegative(OccurrenceDeductible(VersionFor(c), c) - DeductibleAbsorbed(prior))

Headroom(c, prior) == NonNegative(VersionFor(c).limit - IndemnityPaid(prior))

IsRowOf(row, c, b, prior) ==
    /\ row = Payment(c, b, VersionFor(c).id, row.indemnity, row.deductible, row.attributed)
    /\ row.claim = c /\ row.batch = b
    /\ row.attributed = Attributed(c, VersionFor(c), prior)
    /\ TotalOf(row.attributed) \in Nat
    /\ row.deductible = Min({TotalOf(row.attributed), DeductibleLeft(c, prior)})
    /\ row.deductible \in Nat /\ row.deductible <= DeductibleLeft(c, prior)
    /\ TotalOf(row.attributed) - row.deductible \in Nat
    /\ row.indemnity = Min({TotalOf(row.attributed) - row.deductible, Headroom(c, prior)})
    /\ row.indemnity \in Nat /\ row.indemnity <= Headroom(c, prior)
    /\ b \in Batches => IsRecord(row)

LEMMA RowIs ==
    ASSUME NEW c \in ClaimIds, Covered(c), NEW b, NEW rows, Records(rows)
    PROVE  IsRowOf(RowFor(c, b, rows), c, b, Prior(rows, c))
PROOF
<1> DEFINE v == VersionFor(c)
           prior == Prior(rows, c)
           attributed == Attributed(c, v, prior)
           row == RowFor(c, b, rows)
           total == TotalOf(attributed)
           left == NonNegative(OccurrenceDeductible(v, c) - DeductibleAbsorbed(prior))
           deductible == DeductibleApplied(c, v, prior, total)
           headroom == NonNegative(v.limit - IndemnityPaid(prior))
           indemnity == Min({total - deductible, headroom})
<1>1. row = Payment(c, b, v.id, indemnity, deductible, attributed)
  BY DEF RowFor, PaymentFor, LimitHeadroom
<1>2. /\ row.claim = c /\ row.batch = b /\ row.attributed = attributed
      /\ row.deductible = deductible /\ row.indemnity = indemnity
  <2> HIDE DEF attributed, deductible, indemnity, row
  <2> QED
    BY <1>1 DEF Payment
<1>3. Records(prior)
  BY PriorIs
<1>4. total \in Nat /\ DOMAIN attributed = Categories(c) /\ \A cat \in Categories(c) : attributed[cat] \in Nat
  <2> HIDE DEF prior
  <2> QED
    BY <1>3, AttributedIs
<1>5. left \in Nat /\ headroom \in Nat
  <2>1. /\ OccurrenceDeductible(v, c) - DeductibleAbsorbed(prior) \in Int
        /\ v.limit - IndemnityPaid(prior) \in Int
    <3> HIDE DEF prior
    <3> QED
      BY <1>3, TermsTyped, SumsNat
  <2> QED
    BY <2>1, NonNegativeIs
<1>6. deductible = Min({total, left})
  <2>1. deductible = Min({left, total})
    BY DEF DeductibleApplied, DeductibleRemaining
  <2>2. {left, total} = {total, left}
    OBVIOUS
  <2> QED
    BY <2>1, <2>2
<1> HIDE DEF attributed, total, left, headroom, prior, row, v
<1>7. deductible \in Nat /\ deductible <= left /\ total - deductible \in Nat
  <2> HIDE DEF deductible
  <2>1. total \in Int /\ left \in Int
    BY <1>4, <1>5
  <2>2. deductible = IF total <= left THEN total ELSE left
    BY <1>6, <2>1, MinOfTwo
  <2> QED
    BY <1>4, <1>5, <2>2
<1> HIDE DEF deductible
<1>8. indemnity \in Nat /\ indemnity <= headroom
  <2> HIDE DEF indemnity
  <2>1. total - deductible \in Int /\ headroom \in Int
    BY <1>5, <1>7
  <2>2. indemnity = IF total - deductible <= headroom THEN total - deductible ELSE headroom
    BY <2>1, MinOfTwo DEF indemnity
  <2> QED
    BY <1>5, <1>7, <2>2
<1> HIDE DEF indemnity
<1>9. b \in Batches => IsRecord(row)
  BY <1>2, <1>4, <1>7, <1>8 DEF IsRecord
<1> QED
  BY <1>1, <1>2, <1>4, <1>6, <1>7, <1>8, <1>9
     DEF indemnity, total, left, headroom, attributed, prior, v, row, IsRowOf, DeductibleLeft, Headroom

-----------------------------------------------------------------------------
(* The terms of a policy. *)

(* What an occurrence was paid, against the version in force. *)
PaidWithin(paid, v) ==
    /\ IndemnityPaid(paid) <= v.limit
    /\ \A cat \in DOMAIN v.sublimits : CategoryAttributed(paid, cat) <= v.sublimits[cat]

LEMMA TermsKeptIs ==
    ASSUME NEW rows, Records(rows)
    PROVE  TermsKept(rows) <=>
               \A p \in rows : PaidWithin(Prior(rows, p.claim), VersionFor(p.claim))
PROOF
<1>1. ASSUME NEW p \in rows
      PROVE  /\ OccurrenceVersion(Claim[p.claim].occurrence) = VersionFor(p.claim)
             /\ OnOccurrence(rows, Claim[p.claim].occurrence) = Prior(rows, p.claim)
  <2>1. p.claim \in ClaimIds
    BY DEF Records, IsRecord
  <2> QED
    BY <2>1, OccurrenceTerms DEF Prior
<1>2. TermsKept(rows) <=>
          \A p \in rows : PaidWithin(OnOccurrence(rows, Claim[p.claim].occurrence),
                                     OccurrenceVersion(Claim[p.claim].occurrence))
  BY DEF TermsKept, PaidOccurrences, PaidWithin
<1> QED
  BY <1>1, <1>2

LEMMA TermsOfPart ==
    ASSUME NEW rows, Records(rows), \A p \in rows : Covered(p.claim), TermsKept(rows),
           NEW part, part \subseteq rows
    PROVE  TermsKept(part)
PROOF
<1>1. Records(part)
  BY SumsOfPart
<1>2. ASSUME NEW p \in part
      PROVE  PaidWithin(Prior(part, p.claim), VersionFor(p.claim))
  <2> DEFINE v == VersionFor(p.claim)
             paid == Prior(rows, p.claim)
             less == Prior(part, p.claim)
  <2>1. p.claim \in ClaimIds /\ Covered(p.claim) /\ PaidWithin(paid, v)
    BY TermsKeptIs DEF Records, IsRecord
  <2>2. Records(paid) /\ less \subseteq paid
    <3>1. less \subseteq paid
      BY DEF Prior, OnOccurrence
    <3> QED
      BY <3>1, PriorIs
  <2>3. v.limit \in Nat /\ \A cat \in DOMAIN v.sublimits : v.sublimits[cat] \in Nat
    BY <2>1, TermsTyped
  <2> HIDE DEF v, paid, less
  <2>4. /\ Records(less) /\ IndemnityPaid(less) <= IndemnityPaid(paid)
        /\ \A cat : CategoryAttributed(less, cat) <= CategoryAttributed(paid, cat)
    BY <2>2, SumsOfPart
  <2>5. /\ IndemnityPaid(paid) \in Nat /\ IndemnityPaid(less) \in Nat
        /\ \A cat : CategoryAttributed(less, cat) \in Nat /\ CategoryAttributed(paid, cat) \in Nat
    BY <2>2, <2>4, SumsNat
  <2>6. IndemnityPaid(less) <= v.limit
    BY <2>1, <2>3, <2>4, <2>5 DEF PaidWithin
  <2>7. ASSUME NEW cat \in DOMAIN v.sublimits
        PROVE  CategoryAttributed(less, cat) <= v.sublimits[cat]
    <3>1. CategoryAttributed(paid, cat) <= v.sublimits[cat]
      BY <2>1 DEF PaidWithin
    <3>2. CategoryAttributed(less, cat) <= CategoryAttributed(paid, cat)
      BY <2>4
    <3>3. /\ CategoryAttributed(less, cat) \in Nat /\ CategoryAttributed(paid, cat) \in Nat
          /\ v.sublimits[cat] \in Nat
      BY <2>3, <2>5
    <3> QED
      BY <3>1, <3>2, <3>3
  <2> QED
    BY <2>6, <2>7 DEF PaidWithin, v, less
<1> QED
  BY <1>1, <1>2, TermsKeptIs

(***************************************************************************)
(* A claim's record never takes its occurrence over the terms.             *)
(***************************************************************************)
LEMMA TermsWithRow ==
    ASSUME NEW rows, Records(rows), \A p \in rows : Covered(p.claim), TermsKept(rows),
           NEW c \in ClaimIds, Covered(c), NEW b \in Batches
    PROVE  TermsKept(rows \cup {RowFor(c, b, rows)})
PROOF
<1> DEFINE row == RowFor(c, b, rows)
           more == rows \cup {row}
<1>1. SUFFICES ASSUME row \notin rows
               PROVE  TermsKept(more)
  <2>1. row \in rows => more = rows
    OBVIOUS
  <2> QED
    BY <2>1
<1>0. IsRowOf(row, c, b, Prior(rows, c))
  BY RowIs
<1>2. row.claim = c /\ IsRecord(row)
  BY <1>0 DEF IsRowOf
<1>3. Records(more)
  <2> HIDE DEF row
  <2> QED
    BY <1>2, FS_AddElement DEF Records
<1> DEFINE v == VersionFor(c)
           prior == Prior(rows, c)
<1>4. v.limit \in Nat /\ \A cat \in DOMAIN v.sublimits : v.sublimits[cat] \in Nat
  BY TermsTyped
<1>5. Records(prior) /\ row \notin prior
  BY <1>1, PriorIs
<1>6. /\ IndemnityPaid(prior) \in Nat /\ \A cat : CategoryAttributed(prior, cat) \in Nat
  BY <1>5, SumsNat
<1>7. PaidWithin(prior, v)
  <2>1. CASE prior = {}
    BY <1>4, <2>1, SumsOfNone DEF PaidWithin
  <2>2. CASE prior # {}
    <3>1. PICK p \in rows : Claim[p.claim].occurrence = Claim[c].occurrence
      BY <2>2 DEF Prior, OnOccurrence
    <3>2. p.claim \in ClaimIds /\ PaidWithin(Prior(rows, p.claim), VersionFor(p.claim))
      BY TermsKeptIs DEF Records, IsRecord
    <3> QED
      BY <3>1, <3>2, SameOccurrence
  <2> QED
    BY <2>1, <2>2
<1>8. Records(prior \cup {row})
  <2>1. prior \cup {row} \subseteq more
    BY PriorIs
  <2> HIDE DEF prior, more
  <2> QED
    BY <1>3, <2>1, SumsOfPart
<1>9. /\ IndemnityPaid(prior \cup {row}) = IndemnityPaid(prior) + row.indemnity
      /\ \A cat : CategoryAttributed(prior \cup {row}, cat) = CategoryAttributed(prior, cat) + AttributedIn(row, cat)
  <2> HIDE DEF prior, row
  <2> QED
    BY <1>5, <1>8, SumsWithOneMore
<1>10. PaidWithin(prior \cup {row}, v)
  <2>1. IndemnityPaid(prior \cup {row}) <= v.limit
    <3>1. row.indemnity \in Nat /\ row.indemnity <= NonNegative(v.limit - IndemnityPaid(prior))
      <4> HIDE DEF row
      <4> QED
        BY <1>0 DEF IsRowOf, Headroom
    <3>2. v.limit - IndemnityPaid(prior) \in Int
      BY <1>4, <1>6
    <3> HIDE DEF v, prior, row
    <3>3. NonNegative(v.limit - IndemnityPaid(prior)) = IF v.limit - IndemnityPaid(prior) <= 0 THEN 0 ELSE v.limit - IndemnityPaid(prior)
      BY <3>2, NonNegativeIs
    <3> QED
      BY <1>4, <1>6, <1>7, <1>9, <3>1, <3>3 DEF PaidWithin
  <2>2. ASSUME NEW cat \in DOMAIN v.sublimits
        PROVE  CategoryAttributed(prior \cup {row}, cat) <= v.sublimits[cat]
    <3>1. row.attributed = Attributed(c, v, prior)
      <4> HIDE DEF row
      <4> QED
        BY <1>0 DEF IsRowOf
    <3>2. /\ DOMAIN row.attributed = Categories(c)
          /\ cat \in Categories(c) =>
                /\ row.attributed[cat] \in Nat
                /\ row.attributed[cat] <= NonNegative(v.sublimits[cat] - CategoryAttributed(prior, cat))
      <4> HIDE DEF prior, row
      <4> QED
        BY <1>5, <3>1, AttributedIs DEF v
    <3> DEFINE sub == v.sublimits[cat]
               used == CategoryAttributed(prior, cat)
               own == AttributedIn(row, cat)
    <3>3. sub \in Nat /\ used \in Nat /\ used <= sub
      BY <1>4, <1>6, <1>7 DEF PaidWithin
    <3> HIDE DEF v, prior, row
    <3>4. sub - used \in Int
      <4> HIDE DEF sub, used
      <4> QED
        BY <3>3
    <3>5. NonNegative(sub - used) = IF sub - used <= 0 THEN 0 ELSE sub - used
      <4> HIDE DEF sub, used
      <4> QED
        BY <3>4, NonNegativeIs
    <3>6. own \in Nat /\ (own = 0 \/ own <= NonNegative(sub - used))
      BY <3>2 DEF AttributedIn
    <3>7. CategoryAttributed(prior \cup {row}, cat) = used + own
      BY <1>9
    <3> HIDE DEF sub, used, own
    <3>8. used + own <= sub
      BY <3>3, <3>5, <3>6
    <3> QED
      BY <3>7, <3>8 DEF sub
  <2> QED
    BY <2>1, <2>2 DEF PaidWithin
<1>11. ASSUME NEW p \in more
       PROVE  PaidWithin(Prior(more, p.claim), VersionFor(p.claim))
  <2>1. p.claim \in ClaimIds
    BY <1>3 DEF Records, IsRecord
  <2>2. CASE Claim[p.claim].occurrence = Claim[c].occurrence
    <3>1. Prior(more, p.claim) = prior \cup {row}
      BY <1>2, <2>2 DEF Prior, OnOccurrence
    <3>2. VersionFor(p.claim) = v
      BY <2>1, <2>2, SameOccurrence
    <3> QED
      BY <1>10, <3>1, <3>2
  <2>3. CASE Claim[p.claim].occurrence # Claim[c].occurrence
    <3>1. p \in rows
      BY <1>2, <2>3
    <3>2. Prior(more, p.claim) = Prior(rows, p.claim)
      BY <1>2, <2>3 DEF Prior, OnOccurrence
    <3> QED
      BY <3>1, <3>2, TermsKeptIs
  <2> QED
    BY <2>2, <2>3
<1> QED
  <2> HIDE DEF more
  <2> QED
    BY <1>3, <1>11, TermsKeptIs

-----------------------------------------------------------------------------
(* Types. *)

LEMMA RecordsWithRow ==
    ASSUME NEW rows, Records(rows), NEW row, IsRecord(row)
    PROVE  /\ Records(rows \cup {row})
           /\ Record(rows, row) \subseteq rows \cup {row}
           /\ Records(Record(rows, row))
PROOF
<1>1. Records(rows \cup {row})
  BY FS_AddElement DEF Records
<1>2. Record(rows, row) \subseteq rows \cup {row}
  BY DEF Record
<1> QED
  BY <1>1, <1>2, SumsOfPart

LEMMA NoRecords == Records({})
PROOF
  BY FS_EmptySet DEF Records

(* Prompt pay. *)

LEMMA DaysLateNat ==
    ASSUME NEW c \in ClaimIds, NEW date \in Int
    PROVE  DaysLate(c, date) \in Nat
PROOF
<1>1. CASE Claim[c].deadline = NoDate
  BY <1>1 DEF DaysLate
<1>2. CASE Claim[c].deadline # NoDate
  <2> DEFINE late == date - Claim[c].deadline
  <2>1. late \in Int
    BY <1>2, ClaimAssumption
  <2>2. NonNegative(late) \in Nat
    <3> HIDE DEF late
    <3> QED
      BY <2>1, NonNegativeIs
  <2> QED
    BY <1>2, <2>2 DEF DaysLate
<1> QED
  BY <1>1, <1>2

LEMMA ProductNat ==
    ASSUME NEW m \in Nat, NEW n \in Nat
    PROVE  m * n \in Nat
PROOF
  OBVIOUS

LEMMA RoundCentsNat ==
    ASSUME NEW n \in Nat
    PROVE  RoundCents(n, 100 * 365) \in Nat
PROOF
  BY DEF RoundCents

LEMMA ChargeIs ==
    ASSUME NEW c \in ClaimIds, NEW b \in Batches, NEW date \in Int, NEW indemnity \in Nat
    PROVE  LET charge == ChargeFor(c, b, date, indemnity)
           IN  charge.claim = c /\ charge.batch = b /\ charge.date = date /\ IsCharge(charge)
PROOF
<1>1. DaysLate(c, date) \in Nat /\ Claim[c].rate \in Nat
  BY DaysLateNat, ClaimAssumption
<1>2. indemnity * Claim[c].rate * DaysLate(c, date) \in Nat
  BY <1>1, ProductNat
<1>3. InterestAmount(c, indemnity, DaysLate(c, date)) \in Nat
  BY <1>2, RoundCentsNat DEF InterestAmount
<1> QED
  BY <1>3 DEF ChargeFor, Charge, IsCharge

(* The charge of a record in a job's run. *)
RunCharge(j, row) == ChargeFor(row.claim, batch[j], asOf[j], row.indemnity)

(* What adjudicating a covered claim does, with the record named. *)
LEMMA AdjudicateCoveredIs ==
    ASSUME NEW j \in Jobs, AdjudicateCovered(j)
    PROVE  \E c \in todo[j] :
               /\ NextClaim(j, c)
               /\ Covered(c) /\ c \notin Defective
               /\ draft' = Record(draft, RowFor(c, batch[j], draft))
               /\ newCharges' = Record(newCharges, RunCharge(j, RowFor(c, batch[j], draft)))
               /\ results' = [results EXCEPT ![j] = @ \cup
                      {Adjudicated(c, RowFor(c, batch[j], draft), RunCharge(j, RowFor(c, batch[j], draft)))}]
               /\ UNCHANGED <<payments, charges, writer, pc, batch, asOf, export, shared, runs, alone>>
PROOF
<1>1. PICK c \in todo[j] :
          /\ NextClaim(j, c)
          /\ Covered(c) /\ c \notin Defective
          /\ \E row, charge :
                 /\ row = RowFor(c, batch[j], draft)
                 /\ charge = ChargeFor(c, batch[j], asOf[j], row.indemnity)
                 /\ draft' = Record(draft, row)
                 /\ newCharges' = Record(newCharges, charge)
                 /\ results' = [results EXCEPT ![j] = @ \cup {Adjudicated(c, row, charge)}]
          /\ UNCHANGED <<payments, charges, writer, pc, batch, asOf, export, shared, runs, alone>>
  BY DEF AdjudicateCovered, RowFor, database, arguments, counts
<1> DEFINE row == RowFor(c, batch[j], draft)
<1>2. row.claim = c
  BY DEF RowFor, PaymentFor, Payment
<1>3. RunCharge(j, row) = ChargeFor(c, batch[j], asOf[j], row.indemnity)
  BY <1>2 DEF RunCharge
<1> QED
  BY <1>1, <1>3

LEMMA TypeInit == Init => TypeInv
PROOF
<1> SUFFICES ASSUME Init
             PROVE  TypeInv
  OBVIOUS
<1>1. (CHOOSE b \in RunBatches : TRUE) \in RunBatches
  BY RunsAssumption
<1>2. JobsOK
  BY <1>1, RunsAssumption DEF Init, JobsOK, Ended
<1>3. ResultsOK
  BY DEF Init, ResultsOK, Absent
<1>4. Records(payments) /\ Records(draft)
  BY NoRecords, HistoryAssumption DEF Init, Records
<1>5. ChargesOK /\ SharedOK
  BY HistoryChargesAssumption DEF Init, ChargesOK, SharedOK
<1> QED
  BY <1>2, <1>3, <1>4, <1>5 DEF TypeInv

(* A job that ends without a commit. *)
LEMMA TypeAbandon ==
    ASSUME TypeInv, NEW j \in Jobs, NEW end \in Ended, Abandon(j, end)
    PROVE  TypeInv'
PROOF
<1>1. JobsOK'
  BY RunsAssumption DEF TypeInv, JobsOK, Abandon, Ended, arguments, counts
<1>2. ResultsOK'
  BY DEF TypeInv, JobsOK, ResultsOK, Abandon, arguments
<1>3. Records(payments')
  BY DEF TypeInv, Abandon, database
<1>4. Records(draft')
  BY NoRecords DEF TypeInv, Abandon
<1>5. ChargesOK' /\ SharedOK'
  BY DEF TypeInv, ChargesOK, SharedOK, Abandon, database
<1> QED
  BY <1>1, <1>2, <1>3, <1>4, <1>5 DEF TypeInv, Records, IsRecord

LEMMA TypeStep ==
    ASSUME TypeInv, NEW j \in Jobs, JobStep(j)
    PROVE  TypeInv'
PROOF
<1>1. CASE ClearBatch(j)
  <2>1. JobsOK'
    BY <1>1, RunsAssumption DEF TypeInv, JobsOK, ClearBatch, Ended, ClaimsOf, arguments, counts
  <2>2. ResultsOK'
    BY <1>1 DEF TypeInv, ResultsOK, ClearBatch, arguments
  <2>3. Records(payments) /\ payments' = payments
    BY <1>1 DEF TypeInv, ClearBatch, database
  <2>4. Records(draft')
    <3>1. draft' \subseteq payments
      BY <1>1 DEF ClearBatch
    <3> QED
      BY <2>3, <3>1, SumsOfPart
  <2>5. ChargesOK' /\ SharedOK'
    BY <1>1 DEF TypeInv, ChargesOK, SharedOK, ClearBatch, database
  <2> QED
    BY <2>1, <2>2, <2>3, <2>4, <2>5 DEF TypeInv, Records
<1>2. CASE LockTimeout(j)
  BY <1>2, TypeAbandon DEF LockTimeout, Ended
<1>3. CASE AdjudicateUncovered(j)
  <2>1. PICK c \in todo[j] : NextClaim(j, c) /\ results' = [results EXCEPT ![j] = @ \cup {Uncovered(c)}]
    BY <1>3 DEF AdjudicateUncovered
  <2>2. UNCHANGED <<payments, charges, writer, draft, newCharges, pc, batch, asOf, export, shared, runs, alone>>
    BY <1>3 DEF AdjudicateUncovered, database, transaction, arguments, counts
  <2>3. JobsOK'
    BY <2>1, <2>2 DEF TypeInv, JobsOK, NextClaim, Ended
  <2>4. ResultsOK'
    BY <2>1, <2>2 DEF TypeInv, JobsOK, ResultsOK, Uncovered, Statuses
  <2>5. ChargesOK' /\ SharedOK'
    BY <2>2 DEF TypeInv, ChargesOK, SharedOK
  <2> QED
    BY <2>2, <2>3, <2>4, <2>5 DEF TypeInv, Records
<1>4. CASE AdjudicateCovered(j)
  <2>1. PICK c \in todo[j] :
            /\ NextClaim(j, c)
            /\ Covered(c) /\ c \notin Defective
            /\ draft' = Record(draft, RowFor(c, batch[j], draft))
            /\ newCharges' = Record(newCharges, RunCharge(j, RowFor(c, batch[j], draft)))
            /\ results' = [results EXCEPT ![j] = @ \cup
                   {Adjudicated(c, RowFor(c, batch[j], draft), RunCharge(j, RowFor(c, batch[j], draft)))}]
            /\ UNCHANGED <<payments, charges, writer, pc, batch, asOf, export, shared, runs, alone>>
    BY <1>4, AdjudicateCoveredIs
  <2> DEFINE row == RowFor(c, batch[j], draft)
             charge == RunCharge(j, row)
  <2>2. c \in ClaimIds /\ c \in ClaimsOf(batch[j]) /\ batch[j] \in Batches
    BY RunsAssumption DEF TypeInv, JobsOK
  <2>3. IsRecord(row) /\ row.claim = c
    <3>1. IsRowOf(row, c, batch[j], Prior(draft, c))
      BY <2>1, <2>2, RowIs DEF TypeInv
    <3> QED
      BY <2>2, <3>1 DEF IsRowOf
  <2>7. asOf[j] \in Int /\ charge.date = asOf[j] /\ IsCharge(charge)
    <3> HIDE DEF row
    <3>1. asOf[j] \in Int /\ row.indemnity \in Nat
      BY <2>3 DEF TypeInv, JobsOK, IsRecord
    <3> QED
      BY <2>2, <2>3, <3>1, ChargeIs DEF RunCharge
  <2> HIDE DEF row, charge
  <2>4. JobsOK'
    BY <2>1 DEF TypeInv, JobsOK, NextClaim, Ended
  <2>5. ResultsOK'
    <3> DEFINE res == Adjudicated(c, row, charge)
    <3>1. /\ res.claim = c /\ res.status \in Statuses
          /\ \A p \in res.record : IsRecord(p)
          /\ \A q \in res.charge : IsCharge(q)
      BY <2>3, <2>7 DEF Adjudicated, Statuses
    <3>3. res.daysLate \in Nat
      BY <2>2, <2>7, DaysLateNat DEF Adjudicated
    <3>2. results' = [results EXCEPT ![j] = @ \cup {res}]
      BY <2>1 DEF row, charge
    <3> HIDE DEF res
    <3> QED
      BY <2>1, <2>2, <3>1, <3>2, <3>3 DEF TypeInv, JobsOK, ResultsOK
  <2>6. Records(draft')
    BY <2>1, <2>3, RecordsWithRow DEF TypeInv, row
  <2>8. newCharges' = Record(newCharges, charge)
    BY <2>1 DEF row, charge
  <2>9. ChargesOK' /\ SharedOK'
    BY <2>1, <2>7, <2>8 DEF TypeInv, ChargesOK, SharedOK, Record
  <2> QED
    BY <2>1, <2>4, <2>5, <2>6, <2>9 DEF TypeInv, Records
<1>5. CASE AdjudicateRaises(j)
  BY <1>5, TypeAbandon DEF AdjudicateRaises, Ended
<1>6. CASE Commit(j)
  <2>1. JobsOK'
    BY <1>6, RunsAssumption DEF TypeInv, JobsOK, Commit, Ended, arguments, counts
  <2>2. ResultsOK'
    BY <1>6 DEF TypeInv, ResultsOK, Commit, arguments
  <2>3. Records(payments') /\ Records(draft')
    BY <1>6, NoRecords DEF TypeInv, Commit
  <2>4. ChargesOK' /\ SharedOK'
    BY <1>6 DEF TypeInv, ChargesOK, SharedOK, Commit
  <2> QED
    BY <2>1, <2>2, <2>3, <2>4 DEF TypeInv, Records
<1>7. CASE OpenExport(j)
  <2>1. JobsOK'
    BY <1>7 DEF TypeInv, JobsOK, OpenExport, Ended, transaction, arguments, counts
  <2>2. ResultsOK'
    BY <1>7 DEF TypeInv, JobsOK, ResultsOK, OpenExport, Truncated, arguments
  <2>3. ChargesOK'
    BY <1>7 DEF TypeInv, ChargesOK, OpenExport, database, transaction
  <2>4. SharedOK'
    <3> DEFINE others == {k \in Jobs \ {j} : Writing(k, batch[j])}
    <3>1. shared' = [k \in Jobs |-> CASE k = j -> others # {} [] k # j -> shared[k] \/ k \in others]
      BY <1>7 DEF OpenExport
    <3>2. ASSUME NEW k \in Jobs
          PROVE  (CASE k = j -> others # {} [] k # j -> shared[k] \/ k \in others) \in BOOLEAN
      <4>1. CASE k = j
        BY <4>1, Zenon
      <4>2. CASE k # j
        BY <4>2, Zenon
      <4> QED
        BY <4>1, <4>2
    <3> HIDE DEF others
    <3> QED
      BY <3>1, <3>2, Zenon DEF SharedOK
  <2> QED
    BY <1>7, <2>1, <2>2, <2>3, <2>4 DEF TypeInv, Records, OpenExport, database, transaction
<1>8. CASE CloseExport(j)
  <2>1. JobsOK'
    BY <1>8 DEF TypeInv, JobsOK, CloseExport, Ended, transaction, arguments, counts
  <2>2. ResultsOK'
    BY <1>8 DEF TypeInv, JobsOK, ResultsOK, CloseExport, Written, Mixed, arguments
  <2>3. ChargesOK' /\ SharedOK'
    BY <1>8 DEF TypeInv, ChargesOK, SharedOK, CloseExport, database, transaction
  <2> QED
    BY <1>8, <2>1, <2>2, <2>3 DEF TypeInv, Records, CloseExport, database, transaction
<1>9. CASE FlushExport(j)
  <2>1. JobsOK'
    BY <1>9 DEF TypeInv, JobsOK, FlushExport, job, transaction, arguments, counts
  <2>2. ResultsOK'
    BY <1>9 DEF TypeInv, JobsOK, ResultsOK, FlushExport, Mixed, job, arguments
  <2>3. ChargesOK' /\ SharedOK'
    BY <1>9 DEF TypeInv, ChargesOK, SharedOK, FlushExport, database, transaction
  <2> QED
    BY <1>9, <2>1, <2>2, <2>3 DEF TypeInv, Records, FlushExport, database, transaction
<1> QED
  BY <1>1, <1>2, <1>3, <1>4, <1>5, <1>6, <1>7, <1>8, <1>9 DEF JobStep

LEMMA TypeNext == TypeInv /\ [Next]_vars => TypeInv'
PROOF
<1> SUFFICES ASSUME TypeInv, [Next]_vars
             PROVE  TypeInv'
  OBVIOUS
<1>1. ASSUME NEW j \in Jobs, NEW b \in RunBatches, Start(j, b)
      PROVE  TypeInv'
  <2>1. pc[j] # "claims" /\ todo[j] = {} /\ results[j] = {}
    BY <1>1 DEF Start, Running, Ended, TypeInv, JobsOK
  <2>2. JobsOK'
    <3>1. PICK date \in AsOfs[b] : asOf' = [asOf EXCEPT ![j] = date]
      BY <1>1 DEF Start
    <3>2. asOf' \in [Jobs -> Int]
      BY <3>1, RunsAssumption DEF TypeInv, JobsOK
    <3>3. runs' \in 0..MaxRuns /\ alone' \in Jobs \cup {NoJob}
      <4>1. runs \in 0..MaxRuns /\ runs < MaxRuns /\ runs' = runs + 1
        BY <1>1 DEF Start, TypeInv, JobsOK
      <4>2. alone' \in Jobs \cup {NoJob}
        BY <1>1 DEF Start
      <4> QED
        BY <4>1, <4>2, RunsAssumption
    <3> QED
      BY <1>1, <2>1, <3>2, <3>3, RunsAssumption DEF TypeInv, JobsOK, Start, Ended, transaction
  <2>3. ResultsOK'
    BY <1>1, <2>1 DEF TypeInv, JobsOK, ResultsOK, Start
  <2>4. ChargesOK' /\ SharedOK'
    BY <1>1 DEF TypeInv, ChargesOK, SharedOK, Start, database, transaction
  <2> QED
    BY <1>1, <2>2, <2>3, <2>4 DEF TypeInv, Records, Start, database, transaction
<1>2. ASSUME NEW j \in Jobs, Kill(j)
      PROVE  TypeInv'
  BY <1>2, TypeAbandon DEF Kill, Ended
<1>3. CASE UNCHANGED vars
  BY <1>3 DEF vars, database, transaction, arguments, counts, job,
              TypeInv, JobsOK, ResultsOK, Records, ChargesOK, SharedOK
<1> QED
  BY <1>1, <1>2, <1>3, TypeStep DEF Next

LEMMA TypeInvIsTypeOK == TypeInv => TypeOK
PROOF
  BY DEF TypeInv, TypeOK, JobsOK, ResultsOK, Records, ChargesOK, SharedOK

(***************************************************************************)
(* The types of the database, the files and the jobs' memory hold for any  *)
(* claims, policies, history and number of jobs: no payment, deductible or *)
(* attributed amount that run_batch records is negative.                   *)
(***************************************************************************)
THEOREM TypeCorrect == Spec => []TypeOK
PROOF
<1>1. Spec => []TypeInv
  BY TypeInit, TypeNext, PTL DEF Spec
<1> QED
  BY <1>1, TypeInvIsTypeOK, PTL

-----------------------------------------------------------------------------
(* Within the terms. *)

LEMMA TermsOfNone == TermsKept({})
PROOF
  BY NoRecords, TermsKeptIs

LEMMA TermsAbandon ==
    ASSUME TermsInv, NEW j \in Jobs, NEW end, Abandon(j, end)
    PROVE  TermsInv'
PROOF
<1>1. payments' = payments /\ (draft' = draft \/ draft' = {})
  BY DEF Abandon, database
<1> QED
  BY <1>1, TermsOfNone DEF TermsInv

LEMMA TermsNext ==
    ASSUME HistoryWithinTerms, TypeInv, TermsInv, [Next]_vars
    PROVE  TermsInv'
PROOF
<1>1. CASE UNCHANGED <<payments, draft>>
  BY <1>1 DEF TermsInv
<1>2. ASSUME NEW j \in Jobs, ClearBatch(j)
      PROVE  TermsInv'
  <2>1. payments' = payments /\ draft' \subseteq payments
    BY <1>2 DEF ClearBatch, database
  <2>2. TermsKept(draft')
    BY <2>1, TermsOfPart DEF TypeInv, TermsInv
  <2> QED
    BY <2>1, <2>2 DEF TermsInv
<1>3. ASSUME NEW j \in Jobs, AdjudicateCovered(j)
      PROVE  TermsInv'
  <2>1. PICK c \in todo[j] :
            /\ Covered(c)
            /\ draft' = Record(draft, RowFor(c, batch[j], draft))
            /\ payments' = payments
    BY <1>3, AdjudicateCoveredIs
  <2> DEFINE row == RowFor(c, batch[j], draft)
  <2>2. c \in ClaimIds /\ batch[j] \in Batches /\ Records(draft)
    BY RunsAssumption DEF TypeInv, JobsOK
  <2>3. IsRecord(row) /\ row.claim = c
    <3>1. IsRowOf(row, c, batch[j], Prior(draft, c))
      BY <2>1, <2>2, RowIs
    <3> QED
      BY <2>2, <3>1 DEF IsRowOf
  <2>4. TermsKept(draft \cup {row})
    BY <2>1, <2>2, TermsWithRow DEF TermsInv
  <2> HIDE DEF row
  <2>5. Records(draft \cup {row}) /\ draft' \subseteq draft \cup {row}
    BY <2>1, <2>2, <2>3, RecordsWithRow DEF row
  <2>6. \A p \in draft \cup {row} : Covered(p.claim)
    BY <2>1, <2>3 DEF TermsInv
  <2>7. TermsKept(draft')
    BY <2>4, <2>5, <2>6, TermsOfPart
  <2> QED
    BY <2>1, <2>5, <2>6, <2>7 DEF TermsInv
<1>4. ASSUME NEW j \in Jobs, Commit(j)
      PROVE  TermsInv'
  BY <1>4, TermsOfNone DEF Commit, TermsInv
<1>5. ASSUME NEW j \in Jobs, JobStep(j)
      PROVE  TermsInv'
  <2>1. CASE LockTimeout(j) \/ AdjudicateRaises(j)
    BY <2>1, TermsAbandon DEF LockTimeout, AdjudicateRaises
  <2>2. CASE AdjudicateUncovered(j) \/ OpenExport(j) \/ FlushExport(j) \/ CloseExport(j)
    BY <1>1, <2>2 DEF AdjudicateUncovered, OpenExport, FlushExport, CloseExport, database, transaction
  <2> QED
    BY <1>2, <1>3, <1>4, <1>5, <2>1, <2>2 DEF JobStep
<1>6. ASSUME NEW j \in Jobs, NEW b \in RunBatches, Start(j, b)
      PROVE  TermsInv'
  BY <1>1, <1>6 DEF Start, database, transaction
<1>7. ASSUME NEW j \in Jobs, Kill(j)
      PROVE  TermsInv'
  BY <1>7, TermsAbandon DEF Kill
<1>8. CASE UNCHANGED vars
  BY <1>1, <1>8 DEF vars, database, transaction
<1> QED
  BY <1>5, <1>6, <1>7, <1>8 DEF Next

(***************************************************************************)
(* When the history was paid within the terms of versions in force, no     *)
(* occurrence is ever paid more than its limit, nor attributed more than a *)
(* sublimit, whatever batches are run in whatever order, months of the     *)
(* history included, however often and by however many jobs.               *)
(***************************************************************************)
THEOREM NeverBeyondTerms ==
    ASSUME HistoryWithinTerms
    PROVE  Spec => []WithinTerms
PROOF
<1>1. Init => TypeInv /\ TermsInv
  <2> SUFFICES ASSUME Init
               PROVE  TermsInv
    BY TypeInit
  <2>1. payments = History /\ draft = {}
    BY DEF Init
  <2> QED
    BY <2>1, TermsOfNone DEF TermsInv, HistoryWithinTerms
<1>2. (TypeInv /\ TermsInv) /\ [Next]_vars => (TypeInv /\ TermsInv)'
  BY TypeNext, TermsNext
<1>3. TypeInv /\ TermsInv => WithinTerms
  BY DEF TermsInv, WithinTerms
<1> QED
  BY <1>1, <1>2, <1>3, PTL DEF Spec

-----------------------------------------------------------------------------
(* Adjudicating once more. *)

LEMMA BeforeIsOrder ==
    ASSUME NEW c \in ClaimIds, NEW d \in ClaimIds, NEW e \in ClaimIds
    PROVE  /\ ~Before(c, c)
           /\ Before(c, d) => ~Before(d, c)
           /\ Before(c, d) /\ Before(d, e) => Before(c, e)
PROOF
<1>1. /\ Claim[c].loss \in Int /\ Claim[c].received \in Int
      /\ Claim[d].loss \in Int /\ Claim[d].received \in Int
      /\ Claim[e].loss \in Int /\ Claim[e].received \in Int
      /\ c \in Int /\ d \in Int /\ e \in Int
  BY ClaimAssumption, ClaimIdsAssumption
<1> QED
  BY <1>1 DEF Before

(***************************************************************************)
(* A record that was built on part of the records stays what it would be   *)
(* when a claim adjudicated on all of them joins that part: what the later *)
(* one took was left when the earlier one had its share.                   *)
(***************************************************************************)
LEMMA RowStays ==
    ASSUME NEW rows, Records(rows), NEW part, part \subseteq rows,
           NEW c \in ClaimIds, Covered(c), NEW b, NEW p \in rows, p \notin part, p = RowFor(c, b, part),
           NEW d \in ClaimIds, Covered(d), NEW e \in Batches,
           NEW new, new = RowFor(d, e, rows), new \notin rows
    PROVE  RowFor(c, b, part \cup {new}) = p
PROOF
<1> DEFINE own == Prior(part, c)
           all == Prior(rows, d)
           q == RowFor(c, b, part \cup {new})
<1>1. IsRowOf(new, d, e, all)
  BY RowIs
<1>2. IsRecord(new) /\ new.claim = d
  BY <1>1 DEF IsRowOf
<1>3. CASE Claim[c].occurrence # Claim[d].occurrence
  <2>1. Prior(part \cup {new}, c) = Prior(part, c)
    BY <1>2, <1>3 DEF Prior, OnOccurrence
  <2> QED
    BY <2>1 DEF RowFor
<1>4. CASE Claim[c].occurrence = Claim[d].occurrence
  <2>1. /\ all = Prior(rows, c) /\ VersionFor(d) = VersionFor(c)
        /\ OccurrenceDeductible(VersionFor(d), d) = OccurrenceDeductible(VersionFor(c), c)
    BY <1>4, SameOccurrence
  <2>2. Prior(part \cup {new}, c) = own \cup {new}
    BY <1>2, <1>4 DEF Prior, OnOccurrence
  <2>3. Records(part) /\ Records(part \cup {new})
    <3>1. Records(part)
      BY SumsOfPart
    <3> QED
      BY <1>2, <3>1, RecordsWithRow
  <2>4. IsRowOf(p, c, b, own)
    BY <2>3, RowIs
  <2>5. IsRowOf(q, c, b, own \cup {new})
    BY <2>2, <2>3, RowIs
  <2>6. p.claim = c
    BY <2>4 DEF IsRowOf
  <2>7. own \cup {p} \subseteq all /\ p \notin own /\ new \notin own
    BY <2>1, <2>6 DEF Prior, OnOccurrence
  <2>8. Records(all) /\ Records(own \cup {new}) /\ Records(own)
    BY <2>2, <2>3, PriorIs
  <2> HIDE DEF own, all, q
  <2>9. /\ Records(own \cup {p})
        /\ DeductibleAbsorbed(own \cup {p}) <= DeductibleAbsorbed(all)
        /\ IndemnityPaid(own \cup {p}) <= IndemnityPaid(all)
        /\ \A cat : CategoryAttributed(own \cup {p}, cat) <= CategoryAttributed(all, cat)
    BY <2>7, <2>8, SumsOfPart
  <2>10. /\ DeductibleAbsorbed(own \cup {p}) = DeductibleAbsorbed(own) + p.deductible
         /\ IndemnityPaid(own \cup {p}) = IndemnityPaid(own) + p.indemnity
         /\ \A cat : CategoryAttributed(own \cup {p}, cat) = CategoryAttributed(own, cat) + AttributedIn(p, cat)
    BY <2>7, <2>9, SumsWithOneMore
  <2>11. /\ DeductibleAbsorbed(own \cup {new}) = DeductibleAbsorbed(own) + new.deductible
         /\ IndemnityPaid(own \cup {new}) = IndemnityPaid(own) + new.indemnity
         /\ \A cat : CategoryAttributed(own \cup {new}, cat) = CategoryAttributed(own, cat) + AttributedIn(new, cat)
    BY <2>7, <2>8, SumsWithOneMore
  <2>12. /\ DeductibleAbsorbed(own) \in Nat /\ DeductibleAbsorbed(all) \in Nat
         /\ IndemnityPaid(own) \in Nat /\ IndemnityPaid(all) \in Nat
         /\ \A cat : CategoryAttributed(own, cat) \in Nat /\ CategoryAttributed(all, cat) \in Nat
    BY <2>8, SumsNat
  <2>13. /\ VersionFor(c).limit \in Nat /\ OccurrenceDeductible(VersionFor(c), c) \in Nat
         /\ \A cat \in DOMAIN VersionFor(c).sublimits : VersionFor(c).sublimits[cat] \in Nat
    BY TermsTyped
  <2>14. q.attributed = p.attributed
    <3> DEFINE v == VersionFor(c)
    <3>1. p.attributed = Attributed(c, v, own) /\ q.attributed = Attributed(c, v, own \cup {new})
      BY <2>4, <2>5 DEF IsRowOf
    <3>2. DOMAIN p.attributed = Categories(c) /\ DOMAIN q.attributed = Categories(c)
      BY <3>1 DEF Attributed
    <3>3. ASSUME NEW cat \in Categories(c)
          PROVE  q.attributed[cat] = p.attributed[cat]
      <4>1. CASE cat \notin DOMAIN v.sublimits
        BY <3>1, <4>1 DEF Attributed
      <4>2. CASE cat \in DOMAIN v.sublimits
        <5> DEFINE sub == v.sublimits[cat]
                   val == CategoryValue(c, cat)
                   before == CategoryAttributed(own, cat)
                   total == CategoryAttributed(all, cat)
                   more == AttributedIn(new, cat)
                   after == CategoryAttributed(own \cup {new}, cat)
        <5>1. p.attributed[cat] = Taken(val, sub, before)
          BY <2>8, <3>1, <4>2, AttributedIs DEF Taken, Left
        <5>2. q.attributed[cat] = Taken(val, sub, after)
          <6> DEFINE joined == own \cup {new}
          <6>1. Records(joined) /\ q.attributed = Attributed(c, v, joined)
            BY <2>8, <3>1
          <6> HIDE DEF joined
          <6>2. q.attributed[cat] = Min({val, NonNegative(sub - CategoryAttributed(joined, cat))})
            BY <4>2, <6>1, AttributedIs
          <6> QED
            BY <6>2 DEF joined, Taken, Left
        <5>3. before + Taken(val, sub, before) <= total /\ after = before + more
          <6>1. AttributedIn(p, cat) = p.attributed[cat]
            BY <3>2 DEF AttributedIn
          <6> QED
            BY <2>9, <2>10, <2>11, <5>1, <6>1
        <5>4. more \in Nat /\ more <= Left(sub, total)
          <6>1. new.attributed = Attributed(d, v, all)
            BY <1>1, <2>1 DEF IsRowOf
          <6>2. /\ DOMAIN new.attributed = Categories(d)
                /\ cat \in Categories(d) =>
                       /\ new.attributed[cat] \in Nat
                       /\ new.attributed[cat] <= NonNegative(sub - total)
            BY <2>1, <2>8, <4>2, <6>1, AttributedIs
          <6>3. NonNegative(sub - total) \in Nat
            BY <2>12, <2>13, <4>2, NonNegativeIs
          <6> HIDE DEF sub, total
          <6> QED
            BY <6>2, <6>3 DEF AttributedIn, Left
        <5>5. val \in Nat
          BY CategoryValueNat
        <5>6. sub \in Nat /\ before \in Nat /\ total \in Nat
          BY <2>12, <2>13, <4>2
        <5>7. Taken(val, sub, after) = Taken(val, sub, before)
          <6> HIDE DEF sub, val, before, total, more, after
          <6>1. after \in Nat /\ before <= after /\ after <= before + Left(sub, total)
            <7>1. Left(sub, total) \in Nat
              BY <5>5, <5>6, TakenIs
            <7> QED
              BY <5>3, <5>4, <5>6, <7>1
          <6> QED
            BY <5>3, <5>5, <5>6, <6>1, TakenStays
        <5> QED
          BY <5>1, <5>2, <5>7
      <4> QED
        BY <4>1, <4>2
    <3>4. /\ p.attributed = [cat \in Categories(c) |-> p.attributed[cat]]
          /\ q.attributed = [cat \in Categories(c) |-> q.attributed[cat]]
      BY <3>1 DEF Attributed
    <3> QED
      BY <3>3, <3>4
  <2> DEFINE val == TotalOf(p.attributed)
  <2>15. q.deductible = p.deductible
    <3> DEFINE term == OccurrenceDeductible(VersionFor(c), c)
               before == DeductibleAbsorbed(own)
               total == DeductibleAbsorbed(all)
               more == new.deductible
               after == DeductibleAbsorbed(own \cup {new})
    <3>1. p.deductible = Taken(val, term, before) /\ val \in Nat
      BY <2>4 DEF IsRowOf, DeductibleLeft, Taken, Left
    <3>2. q.deductible = Taken(val, term, after)
      BY <2>5, <2>14 DEF IsRowOf, DeductibleLeft, Taken, Left
    <3>3. more \in Nat /\ more <= Left(term, total)
      BY <1>1, <2>1 DEF IsRowOf, DeductibleLeft, Left
    <3>4. /\ before + Taken(val, term, before) <= total /\ after = before + more
          /\ before \in Nat /\ total \in Nat /\ term \in Nat
      BY <2>9, <2>10, <2>11, <2>12, <2>13, <3>1
    <3>5. Taken(val, term, after) = Taken(val, term, before)
      <4> HIDE DEF term, val, before, total, more, after
      <4>1. after \in Nat /\ before <= after /\ after <= before + Left(term, total)
        <5>1. Left(term, total) \in Nat
          BY <3>1, <3>4, TakenIs
        <5> QED
          BY <3>3, <3>4, <5>1
      <4> QED
        BY <3>1, <3>4, <4>1, TakenStays
    <3> QED
      BY <3>1, <3>2, <3>5
  <2>16. q.indemnity = p.indemnity
    <3> DEFINE term == VersionFor(c).limit
               due == val - p.deductible
               before == IndemnityPaid(own)
               total == IndemnityPaid(all)
               more == new.indemnity
               after == IndemnityPaid(own \cup {new})
    <3>1. p.indemnity = Taken(due, term, before) /\ due \in Nat
      BY <2>4 DEF IsRowOf, Headroom, Taken, Left
    <3>2. q.indemnity = Taken(due, term, after)
      BY <2>5, <2>14, <2>15 DEF IsRowOf, Headroom, Taken, Left
    <3>3. more \in Nat /\ more <= Left(term, total)
      BY <1>1, <2>1 DEF IsRowOf, Headroom, Left
    <3>4. /\ before + Taken(due, term, before) <= total /\ after = before + more
          /\ before \in Nat /\ total \in Nat /\ term \in Nat
      BY <2>9, <2>10, <2>11, <2>12, <2>13, <3>1
    <3>5. Taken(due, term, after) = Taken(due, term, before)
      <4> HIDE DEF term, due, before, total, more, after
      <4>1. after \in Nat /\ before <= after /\ after <= before + Left(term, total)
        <5>1. Left(term, total) \in Nat
          BY <3>1, <3>4, TakenIs
        <5> QED
          BY <3>3, <3>4, <5>1
      <4> QED
        BY <3>1, <3>4, <4>1, TakenStays
    <3> QED
      BY <3>1, <3>2, <3>5
  <2> QED
    BY <2>4, <2>5, <2>14, <2>15, <2>16 DEF IsRowOf, q
<1> QED
  BY <1>3, <1>4

(***************************************************************************)
(* A claim that follows all of its batch that is recorded gets a record    *)
(* that leaves the others what they are.                                   *)
(***************************************************************************)
LEMMA SoundWithRow ==
    ASSUME NEW rows, Records(rows), Sound(rows),
           NEW b \in RunBatches, NEW c \in ClaimsOf(b), Covered(c),
           \A p \in OfBatch(rows, b) : Before(p.claim, c),
           NEW new, new = RowFor(c, b, rows)
    PROVE  Sound(rows \cup {new})
PROOF
<1>1. c \in ClaimIds /\ b \in Batches
  BY RunsAssumption DEF ClaimsOf
<1>2. new.claim = c /\ new.batch = b
  <2>1. IsRowOf(new, c, b, Prior(rows, c))
    BY <1>1, RowIs
  <2> QED
    BY <2>1 DEF IsRowOf
<1>3. \A p \in rows : p.claim \in ClaimIds
  BY DEF Records, IsRecord
<1>4. new \notin rows
  BY <1>1, <1>2, BeforeIsOrder DEF OfBatch
<1>5. ASSUME NEW p \in rows, p.batch \in RunBatches
      PROVE  p.claim \in ClaimsOf(p.batch) /\ Covered(p.claim) /\ Rightful(p, rows \cup {new})
  <2> DEFINE part == Earlier(rows, p.claim, p.batch)
  <2>1. /\ p.claim \in ClaimsOf(p.batch) /\ Covered(p.claim)
        /\ p = RowFor(p.claim, p.batch, part)
    BY <1>5 DEF Sound, Rightful
  <2>2. CASE p.batch = b
    <3>1. ~Before(c, p.claim)
      BY <1>1, <1>3, <2>2, BeforeIsOrder DEF OfBatch
    <3>2. Earlier(rows \cup {new}, p.claim, p.batch) = part
      BY <1>2, <2>2, <3>1 DEF Earlier
    <3> QED
      BY <2>1, <3>2 DEF Rightful
  <2>3. CASE p.batch # b
    <3>1. Earlier(rows \cup {new}, p.claim, p.batch) = part \cup {new}
      BY <1>2, <2>3 DEF Earlier
    <3>2. part \subseteq rows /\ p \notin part
      BY <1>3, BeforeIsOrder DEF Earlier
    <3> HIDE DEF part
    <3>3. RowFor(p.claim, p.batch, part \cup {new}) = p
      BY <1>1, <1>3, <1>4, <2>1, <3>2, RowStays
    <3> QED
      BY <2>1, <3>1, <3>3 DEF Rightful
  <2> QED
    BY <2>2, <2>3
<1>6. Rightful(new, rows \cup {new})
  <2>1. Earlier(rows \cup {new}, c, b) = rows
    BY <1>1, <1>2, BeforeIsOrder DEF Earlier, OfBatch
  <2> QED
    BY <1>2, <2>1 DEF Rightful
<1> QED
  BY <1>2, <1>5, <1>6 DEF Sound

-----------------------------------------------------------------------------
(* The deductible. *)

(* An occurrence has absorbed the smaller of its deductible and its losses. *)
Absorbs(paid, c) ==
    DeductibleAbsorbed(paid) = Min({OccurrenceDeductible(VersionFor(c), c), AllAttributed(paid)})

LEMMA DeductibleKeptIs ==
    ASSUME NEW rows, Records(rows)
    PROVE  DeductibleKept(rows) <=> \A p \in rows : Absorbs(Prior(rows, p.claim), p.claim)
PROOF
<1>1. ASSUME NEW p \in rows
      PROVE  /\ OccurrenceTerm(Claim[p.claim].occurrence) = OccurrenceDeductible(VersionFor(p.claim), p.claim)
             /\ OnOccurrence(rows, Claim[p.claim].occurrence) = Prior(rows, p.claim)
  <2>1. p.claim \in ClaimIds
    BY DEF Records, IsRecord
  <2> QED
    BY <2>1, OccurrenceTerms DEF Prior
<1>2. DeductibleKept(rows) <=>
          \A p \in rows :
              LET paid == OnOccurrence(rows, Claim[p.claim].occurrence)
              IN  DeductibleAbsorbed(paid)
                      = Min({OccurrenceTerm(Claim[p.claim].occurrence), AllAttributed(paid)})
  BY DEF DeductibleKept, PaidOccurrences
<1> QED
  BY <1>1, <1>2 DEF Absorbs

LEMMA DeductibleWithRow ==
    ASSUME NEW rows, Records(rows), DeductibleKept(rows),
           NEW c \in ClaimIds, Covered(c), NEW b \in Batches,
           NEW new, new = RowFor(c, b, rows), new \notin rows
    PROVE  DeductibleKept(rows \cup {new})
PROOF
<1> DEFINE more == rows \cup {new}
           prior == Prior(rows, c)
           term == OccurrenceDeductible(VersionFor(c), c)
<1>1. IsRowOf(new, c, b, prior)
  BY RowIs
<1>2. new.claim = c /\ IsRecord(new)
  BY <1>1 DEF IsRowOf
<1>3. Records(more)
  BY <1>2, RecordsWithRow
<1>4. term \in Nat
  BY TermsTyped
<1>5. Records(prior) /\ new \notin prior
  BY PriorIs
<1>6. DeductibleAbsorbed(prior) \in Nat /\ AllAttributed(prior) \in Nat
  BY <1>5, SumsNat
<1>7. Absorbs(prior, c)
  <2>1. CASE prior = {}
    <3>1. Min({term, 0}) = 0
      <4> HIDE DEF term
      <4>1. term \in Int /\ 0 \in Int
        BY <1>4
      <4> QED
        BY <1>4, <4>1, MinOfTwo
    <3> QED
      BY <2>1, <3>1, SumsOfNone DEF Absorbs
  <2>2. CASE prior # {}
    <3>1. PICK p \in rows : Claim[p.claim].occurrence = Claim[c].occurrence
      BY <2>2 DEF Prior, OnOccurrence
    <3>2. p.claim \in ClaimIds /\ Absorbs(Prior(rows, p.claim), p.claim)
      BY DeductibleKeptIs DEF Records, IsRecord
    <3>3. Prior(rows, p.claim) = prior /\ OccurrenceDeductible(VersionFor(p.claim), p.claim) = term
      BY <3>1, <3>2, SameOccurrence
    <3> QED
      BY <3>2, <3>3 DEF Absorbs
  <2> QED
    BY <2>1, <2>2
<1>8. Records(prior \cup {new})
  BY <1>2, <1>5, RecordsWithRow
<1>9. /\ DeductibleAbsorbed(prior \cup {new}) = DeductibleAbsorbed(prior) + new.deductible
      /\ AllAttributed(prior \cup {new}) = AllAttributed(prior) + TotalOf(new.attributed)
  <2> HIDE DEF prior
  <2> QED
    BY <1>5, <1>8, SumsWithOneMore
<1>10. Absorbs(prior \cup {new}, c)
  <2> DEFINE used == DeductibleAbsorbed(prior)
             lost == AllAttributed(prior)
             total == TotalOf(new.attributed)
             sum == lost + total
  <2>1. total \in Nat /\ new.deductible = Taken(total, term, used)
    <3> HIDE DEF prior
    <3> QED
      BY <1>1 DEF IsRowOf, DeductibleLeft, Taken, Left
  <2>2. used = Min({term, lost}) /\ used \in Nat /\ lost \in Nat
    BY <1>6, <1>7 DEF Absorbs
  <2> HIDE DEF prior, term, used, lost, total
  <2>3. /\ Left(term, used) = IF term <= used THEN 0 ELSE term - used
        /\ Taken(total, term, used) = IF total <= Left(term, used) THEN total ELSE Left(term, used)
    BY <1>4, <2>1, <2>2, TakenIs
  <2>4. Min({term, lost}) = IF term <= lost THEN term ELSE lost
    <3>1. term \in Int /\ lost \in Int
      BY <1>4, <2>2
    <3> QED
      BY <3>1, MinOfTwo
  <2>5. sum \in Nat /\ sum = lost + total
    BY <2>1, <2>2
  <2>6. Min({term, sum}) = IF term <= sum THEN term ELSE sum
    <3>1. term \in Int /\ sum \in Int
      BY <1>4, <2>5
    <3> HIDE DEF sum
    <3> QED
      BY <3>1, MinOfTwo
  <2>7. used + new.deductible = Min({term, sum})
    <3> HIDE DEF sum
    <3> QED
      BY <1>4, <2>1, <2>2, <2>3, <2>4, <2>5, <2>6
  <2> QED
    BY <1>9, <2>7 DEF Absorbs, term, used, lost, total
<1>11. ASSUME NEW p \in more
       PROVE  Absorbs(Prior(more, p.claim), p.claim)
  <2>1. p.claim \in ClaimIds
    BY <1>3 DEF Records, IsRecord
  <2>2. CASE Claim[p.claim].occurrence = Claim[c].occurrence
    <3>1. Prior(more, p.claim) = prior \cup {new}
      BY <1>2, <2>2 DEF Prior, OnOccurrence
    <3>2. OccurrenceDeductible(VersionFor(p.claim), p.claim) = term
      BY <2>1, <2>2, SameOccurrence
    <3> QED
      BY <1>10, <3>1, <3>2 DEF Absorbs
  <2>3. CASE Claim[p.claim].occurrence # Claim[c].occurrence
    <3>1. p \in rows
      BY <1>2, <2>3
    <3>2. Prior(more, p.claim) = Prior(rows, p.claim)
      BY <1>2, <2>3 DEF Prior, OnOccurrence
    <3> QED
      BY <3>1, <3>2, DeductibleKeptIs
  <2> QED
    BY <2>2, <2>3
<1> QED
  <2> HIDE DEF more
  <2> QED
    BY <1>3, <1>11, DeductibleKeptIs DEF more

(***************************************************************************)
(* Of two claims of an occurrence in one batch the later one bears none of *)
(* the deductible while the earlier one has loss left to bear it.          *)
(***************************************************************************)
LEMMA SoundEarlierBears ==
    ASSUME NEW rows, Records(rows), Sound(rows),
           NEW p \in rows, NEW q \in rows, p.batch \in RunBatches, p.batch = q.batch,
           Claim[p.claim].occurrence = Claim[q.claim].occurrence,
           Claim[p.claim].received < Claim[q.claim].received,
           q.deductible > 0
    PROVE  p.deductible = TotalOf(p.attributed)
PROOF
<1> DEFINE c == p.claim
           d == q.claim
           b == p.batch
           early == Prior(Earlier(rows, c, b), c)
           late == Prior(Earlier(rows, d, b), d)
           term == OccurrenceDeductible(VersionFor(c), c)
           total == TotalOf(p.attributed)
<1>1. c \in ClaimIds /\ d \in ClaimIds /\ Covered(c) /\ Covered(d)
  BY DEF Sound, Records, IsRecord
<1>2. /\ Records(Earlier(rows, c, b)) /\ Records(Earlier(rows, d, b))
      /\ Earlier(rows, c, b) \subseteq rows /\ Earlier(rows, d, b) \subseteq rows
  <2>1. Earlier(rows, c, b) \subseteq rows /\ Earlier(rows, d, b) \subseteq rows
    BY DEF Earlier
  <2> QED
    BY <2>1, SumsOfPart
<1>3. IsRowOf(p, c, b, early) /\ IsRowOf(q, d, b, late)
  <2>1. p = RowFor(c, b, Earlier(rows, c, b)) /\ q = RowFor(d, b, Earlier(rows, d, b))
    BY DEF Sound, Rightful
  <2> QED
    BY <1>1, <1>2, <2>1, RowIs
<1>4. Before(c, d)
  <2>1. Claim[c].loss = Claim[d].loss
    BY <1>1, OccurrenceAssumption
  <2> QED
    BY <2>1 DEF Before
<1>5. p \notin early /\ early \cup {p} \subseteq late
  <2>1. \A e \in rows : e.claim \in ClaimIds /\ (Before(e.claim, c) => Before(e.claim, d))
    BY <1>1, <1>4, BeforeIsOrder DEF Records, IsRecord
  <2>2. ~Before(c, c)
    BY <1>1, BeforeIsOrder
  <2> QED
    BY <1>4, <2>1, <2>2 DEF Earlier, Prior, OnOccurrence
<1>6. Records(late) /\ Records(early)
  BY <1>2, PriorIs
<1>7. /\ Records(early \cup {p})
      /\ DeductibleAbsorbed(early \cup {p}) <= DeductibleAbsorbed(late)
  <2> HIDE DEF early, late
  <2> QED
    BY <1>5, <1>6, SumsOfPart
<1>8. DeductibleAbsorbed(early \cup {p}) = DeductibleAbsorbed(early) + p.deductible
  <2> HIDE DEF early
  <2> QED
    BY <1>5, <1>7, SumsWithOneMore
<1>9. /\ DeductibleAbsorbed(early) \in Nat /\ DeductibleAbsorbed(late) \in Nat /\ term \in Nat
  <2> HIDE DEF early, late
  <2> QED
    BY <1>1, <1>6, SumsNat, TermsTyped
<1>10. term = OccurrenceDeductible(VersionFor(d), d)
  BY <1>1, SameOccurrence
<1> DEFINE before == DeductibleAbsorbed(early)
           after == DeductibleAbsorbed(late)
<1>11. p.deductible = Taken(total, term, before) /\ total \in Nat
  BY <1>3 DEF IsRowOf, DeductibleLeft, Taken, Left
<1>12. q.deductible <= Left(term, after) /\ q.deductible \in Nat
  BY <1>3, <1>10 DEF IsRowOf, DeductibleLeft, Left
<1>13. before + p.deductible <= after /\ before \in Nat /\ after \in Nat /\ term \in Nat
  BY <1>7, <1>8, <1>9
<1> HIDE DEF early, late, term, total, before, after
<1>14. /\ Left(term, before) = IF term <= before THEN 0 ELSE term - before
       /\ Taken(total, term, before) = IF total <= Left(term, before) THEN total ELSE Left(term, before)
  BY <1>11, <1>13, TakenIs
<1>15. Left(term, after) = IF term <= after THEN 0 ELSE term - after
  BY <1>11, <1>13, TakenIs
<1>16. p.deductible = total
  BY <1>11, <1>12, <1>13, <1>14, <1>15
<1> QED
  BY <1>16 DEF total

-----------------------------------------------------------------------------
(* The ledger: a batch settles once, and a rerun repeats it. *)

LEMMA LedgerInit ==
    ASSUME HistoryIsPast, HistorySettled, Init
    PROVE  LedgerInv
PROOF
<1>1. payments = History /\ draft = {} /\ \A j \in Jobs : pc[j] # "claims"
  BY DEF Init
<1>2. Keyed(payments) /\ Keyed(draft)
  BY <1>1, HistoryAssumption DEF Keyed
<1>3. Sound(payments) /\ \A b \in RunBatches : OfBatch(payments, b) = {}
  BY <1>1 DEF HistoryIsPast, Sound, OfBatch
<1> QED
  BY <1>1, <1>2, <1>3 DEF LedgerInv, HistorySettled

(* What a job relies on is not disturbed by the other jobs. *)
LEMMA UndisturbedProgress ==
    ASSUME NEW j \in Jobs, InProgress(j), payments' = payments, draft' = draft,
           batch'[j] = batch[j], todo'[j] = todo[j]
    PROVE  InProgress(j)'
PROOF
  BY DEF InProgress, Processed

(* A step that leaves the tables alone, and the claims of the writer. *)
LEMMA LedgerUntouched ==
    ASSUME LedgerInv, payments' = payments, draft' = draft,
           \A j \in Jobs : pc'[j] = "claims" =>
               pc[j] = "claims" /\ batch'[j] = batch[j] /\ todo'[j] = todo[j]
    PROVE  LedgerInv'
PROOF
<1>1. ASSUME NEW j \in Jobs, pc'[j] = "claims"
      PROVE  InProgress(j)'
  BY <1>1, UndisturbedProgress DEF LedgerInv
<1> QED
  BY <1>1 DEF LedgerInv

LEMMA LedgerAbandon ==
    ASSUME TypeInv, LedgerInv, NEW j \in Jobs, NEW end \in Ended, Abandon(j, end)
    PROVE  LedgerInv'
PROOF
<1>1. payments' = payments /\ batch' = batch
  BY DEF Abandon, database, arguments
<1>2. ASSUME NEW k \in Jobs, pc'[k] = "claims"
      PROVE  k # j /\ pc[k] = "claims" /\ writer = k /\ todo'[k] = todo[k] /\ draft' = draft
  BY <1>2 DEF Abandon, TypeInv, JobsOK, Ended
<1>3. ASSUME NEW k \in Jobs, pc'[k] = "claims"
      PROVE  InProgress(k)'
  BY <1>1, <1>2, <1>3, UndisturbedProgress DEF LedgerInv
<1>4. Keyed(draft')
  BY DEF Abandon, LedgerInv, Keyed
<1> QED
  BY <1>1, <1>3, <1>4 DEF LedgerInv

LEMMA LedgerClear ==
    ASSUME TypeInv, LedgerInv, NEW j \in Jobs, ClearBatch(j)
    PROVE  LedgerInv'
PROOF
<1> DEFINE b == batch[j]
<1>1. /\ payments' = payments /\ batch' = batch
      /\ draft' = {p \in payments : p.batch # b}
      /\ todo'[j] = ClaimsOf(b)
  BY DEF ClearBatch, TypeInv, JobsOK, database, arguments
<1>2. \A k \in Jobs : pc'[k] = "claims" => k = j
  BY RunsAssumption DEF ClearBatch, TypeInv, JobsOK
<1>3. InProgress(j)'
  <2>1. Processed(j)' = {}
    BY <1>1 DEF Processed
  <2>2. OfOthers(draft', b) = OfOthers(payments, b) /\ OfBatch(draft', b) = {} /\ draft' \subseteq payments
    BY <1>1 DEF OfOthers, OfBatch
  <2>3. OfBatch(payments, b) = {} => draft' = payments
    BY <1>1 DEF OfBatch
  <2> QED
    BY <1>1, <2>1, <2>2, <2>3 DEF InProgress, Recorded, LedgerInv
<1>4. Keyed(draft')
  BY <1>1 DEF LedgerInv, Keyed
<1> QED
  BY <1>1, <1>2, <1>3, <1>4 DEF LedgerInv

(* The next claim of a batch comes after those adjudicated. *)
LEMMA NextClaimIs ==
    ASSUME TypeInv, NEW j \in Jobs, InProgress(j), NEW c \in todo[j], NextClaim(j, c), batch' = batch
    PROVE  /\ c \in ClaimIds /\ c \in ClaimsOf(batch[j])
           /\ Processed(j)' = Processed(j) \cup {c}
           /\ \A d \in Processed(j) : Before(d, c)
           /\ \A d \in todo[j] : ~Before(d, c)
           /\ \A d \in Processed(j)', e \in todo'[j] : Before(d, e)
           /\ pc[j] = "claims"
PROOF
<1>1. todo[j] \subseteq ClaimsOf(batch[j]) /\ ClaimsOf(batch[j]) \subseteq ClaimIds
  BY DEF TypeInv, JobsOK, ClaimsOf
<1>2. todo'[j] = todo[j] \ {c} /\ (\A d \in todo[j] \ {c} : Before(c, d)) /\ pc[j] = "claims"
  BY DEF NextClaim, TypeInv, JobsOK
<1>3. Processed(j)' = Processed(j) \cup {c}
  BY <1>1, <1>2 DEF Processed
<1>4. \A d \in Processed(j), e \in todo[j] : Before(d, e)
  BY DEF InProgress
<1>5. \A d \in todo[j] : ~Before(d, c)
  BY <1>1, <1>2, BeforeIsOrder
<1> QED
  BY <1>1, <1>2, <1>3, <1>4, <1>5

(* Nobody else is at work on a batch. *)
LEMMA OneWriter ==
    ASSUME TypeInv, NEW j \in Jobs, NEW k \in Jobs, pc[j] = "claims", pc[k] = "claims"
    PROVE  k = j
PROOF
  BY DEF TypeInv, JobsOK

LEMMA LedgerUncovered ==
    ASSUME TypeInv, LedgerInv, NEW j \in Jobs, AdjudicateUncovered(j)
    PROVE  LedgerInv'
PROOF
<1>1. PICK c \in todo[j] : NextClaim(j, c) /\ ~Covered(c)
  BY DEF AdjudicateUncovered
<1>2. UNCHANGED <<payments, writer, draft, pc, batch>>
  BY DEF AdjudicateUncovered, database, transaction, arguments
<1>3. InProgress(j)
  BY <1>1 DEF LedgerInv, NextClaim
<1>4. /\ Processed(j)' = Processed(j) \cup {c} /\ pc[j] = "claims"
      /\ \A d \in Processed(j)', e \in todo'[j] : Before(d, e)
  BY <1>1, <1>2, <1>3, NextClaimIs
<1>5. InProgress(j)'
  BY <1>1, <1>2, <1>3, <1>4 DEF InProgress, Recorded
<1>6. \A k \in Jobs : pc'[k] = "claims" => k = j
  BY <1>2, <1>4, OneWriter
<1> QED
  BY <1>2, <1>5, <1>6 DEF LedgerInv

(***************************************************************************)
(* The record a rerun writes for a claim is the one the table has.         *)
(***************************************************************************)
LEMMA RerunRepeats ==
    ASSUME TypeInv, LedgerInv, NEW j \in Jobs, InProgress(j),
           OfBatch(payments, batch[j]) # {},
           NEW c \in todo[j], Covered(c), NextClaim(j, c), batch' = batch
    PROVE  RowFor(c, batch[j], draft) \in payments
PROOF
<1> DEFINE b == batch[j]
<1>1. b \in RunBatches
  BY DEF TypeInv, JobsOK
<1>2. /\ c \in ClaimIds /\ c \in ClaimsOf(b)
      /\ \A d \in Processed(j) : Before(d, c)
      /\ \A d \in todo[j] : ~Before(d, c)
  BY NextClaimIs
<1>3. PICK p \in payments : p.claim = c /\ p.batch = b
  BY <1>1, <1>2 DEF LedgerInv, Whole, Recorded
<1>4. p = RowFor(c, b, Earlier(payments, c, b))
  BY <1>1, <1>3 DEF LedgerInv, Sound, Rightful
<1>5. ASSUME NEW q \in Earlier(payments, c, b)
      PROVE  q \in draft
  <2>1. CASE q.batch # b
    BY <1>5, <2>1 DEF Earlier, InProgress, OfOthers
  <2>2. CASE q.batch = b
    <3>1. q \in payments /\ q.claim \in ClaimsOf(b) /\ Covered(q.claim) /\ Before(q.claim, c)
      BY <1>1, <1>5, <2>2 DEF Earlier, LedgerInv, Sound
    <3>2. q.claim \in Processed(j)
      BY <1>2, <3>1 DEF Processed
    <3>3. PICK r \in draft : r.claim = q.claim /\ r.batch = b
      BY <3>1, <3>2 DEF InProgress, Recorded
    <3>4. r \in payments
      BY <3>3 DEF InProgress
    <3> QED
      BY <2>2, <3>1, <3>3, <3>4 DEF LedgerInv, Keyed
  <2> QED
    BY <2>1, <2>2
<1>6. ASSUME NEW q \in draft
      PROVE  q \in Earlier(payments, c, b)
  <2>1. q \in payments
    BY DEF InProgress
  <2>2. q.batch = b => q.claim \in Processed(j)
    BY DEF InProgress, OfBatch
  <2> QED
    BY <1>2, <2>1, <2>2 DEF Earlier
<1>7. Earlier(payments, c, b) = draft
  BY <1>5, <1>6
<1> QED
  BY <1>3, <1>4, <1>7

(* The table in the job's transaction gets one record more. *)
LEMMA CoveredAdds ==
    ASSUME TypeInv, NEW j \in Jobs, InProgress(j), AdjudicateCovered(j)
    PROVE  \E c, row :
               /\ c \in todo[j] /\ NextClaim(j, c) /\ Covered(c)
               /\ row = RowFor(c, batch[j], draft)
               /\ row.claim = c /\ row.batch = batch[j] /\ row \notin draft
               /\ draft' = draft \cup {row}
               /\ newCharges' = Record(newCharges, RunCharge(j, row))
               /\ results' = [results EXCEPT ![j] = @ \cup {Adjudicated(c, row, RunCharge(j, row))}]
               /\ UNCHANGED <<payments, charges, writer, pc, batch, asOf, export, shared, runs, alone>>
PROOF
<1> DEFINE b == batch[j]
<1>1. PICK c \in todo[j] :
          /\ NextClaim(j, c)
          /\ Covered(c) /\ c \notin Defective
          /\ draft' = Record(draft, RowFor(c, batch[j], draft))
          /\ newCharges' = Record(newCharges, RunCharge(j, RowFor(c, batch[j], draft)))
          /\ results' = [results EXCEPT ![j] = @ \cup
                 {Adjudicated(c, RowFor(c, batch[j], draft), RunCharge(j, RowFor(c, batch[j], draft)))}]
          /\ UNCHANGED <<payments, charges, writer, pc, batch, asOf, export, shared, runs, alone>>
  BY AdjudicateCoveredIs
<1>2. PICK row : row = RowFor(c, b, draft)
  OBVIOUS
<1>3. row.claim = c /\ row.batch = b
  <2>1. c \in ClaimIds
    BY <1>1, NextClaimIs
  <2>2. IsRowOf(row, c, b, Prior(draft, c))
    BY <1>1, <1>2, <2>1, RowIs DEF TypeInv
  <2> QED
    BY <2>2 DEF IsRowOf
<1>4. \A p \in OfBatch(draft, b) : p.claim # c
  BY DEF InProgress, Processed
<1>5. draft' = draft \cup {row} /\ row \notin draft
  <2>1. draft' = Record(draft, row)
    BY <1>1, <1>2
  <2>2. \A p \in draft : p.claim # row.claim \/ p.batch # row.batch
    BY <1>3, <1>4 DEF OfBatch
  <2> QED
    BY <2>1, <2>2 DEF Record
<1> QED
  BY <1>1, <1>2, <1>3, <1>5

LEMMA LedgerCovered ==
    ASSUME TypeInv, LedgerInv, NEW j \in Jobs, AdjudicateCovered(j)
    PROVE  LedgerInv'
PROOF
<1> DEFINE b == batch[j]
<1>1. InProgress(j) /\ b \in RunBatches /\ b \in Batches
  BY AdjudicateCoveredIs, RunsAssumption DEF LedgerInv, NextClaim, TypeInv, JobsOK
<1>2. PICK c, row :
          /\ c \in todo[j] /\ NextClaim(j, c) /\ Covered(c)
          /\ row = RowFor(c, b, draft)
          /\ row.claim = c /\ row.batch = b /\ row \notin draft
          /\ draft' = draft \cup {row}
          /\ UNCHANGED <<payments, charges, writer, pc, batch, asOf, export, shared, runs, alone>>
  BY <1>1, CoveredAdds
<1>3. /\ c \in ClaimIds /\ c \in ClaimsOf(b) /\ pc[j] = "claims"
      /\ Processed(j)' = Processed(j) \cup {c}
      /\ \A d \in Processed(j) : Before(d, c)
      /\ \A d \in Processed(j)', e \in todo'[j] : Before(d, e)
  BY <1>1, <1>2, NextClaimIs
<1>4. \A p \in OfBatch(draft, b) : p.claim \in Processed(j) /\ p.claim # c
  BY <1>1, <1>2 DEF InProgress, Processed
<1>5. Keyed(draft')
  BY <1>2, <1>4 DEF LedgerInv, Keyed, OfBatch
<1>6. OfBatch(payments, b) # {} => row \in payments
  BY <1>1, <1>2, RerunRepeats
<1>7. ASSUME OfBatch(payments, b) = {}
      PROVE  Sound(draft \cup {row}) /\ DeductibleKept(draft \cup {row})
  <2>1. Sound(draft) /\ DeductibleKept(draft) /\ Records(draft)
    BY <1>1, <1>7 DEF InProgress, TypeInv
  <2>2. \A p \in OfBatch(draft, b) : Before(p.claim, c)
    BY <1>3, <1>4
  <2>3. Sound(draft \cup {row})
    BY <1>1, <1>2, <1>3, <2>1, <2>2, SoundWithRow
  <2>4. DeductibleKept(draft \cup {row})
    BY <1>1, <1>2, <1>3, <2>1, DeductibleWithRow
  <2> QED
    BY <2>3, <2>4
<1>8. InProgress(j)'
  <2>1. OfOthers(draft', b) = OfOthers(payments, b)
    BY <1>1, <1>2 DEF InProgress, OfOthers
  <2>2. \A p \in OfBatch(draft', b) : p.claim \in Processed(j)'
    BY <1>2, <1>3, <1>4 DEF OfBatch
  <2>3. Recorded(draft', b, Processed(j)')
    BY <1>1, <1>2, <1>3 DEF InProgress, Recorded
  <2>4. OfBatch(payments, b) # {} => draft' \subseteq payments
    BY <1>1, <1>2, <1>6 DEF InProgress
  <2>5. OfBatch(payments, b) = {} => Sound(draft') /\ DeductibleKept(draft')
    BY <1>2, <1>7
  <2> QED
    BY <1>2, <1>3, <2>1, <2>2, <2>3, <2>4, <2>5 DEF InProgress
<1>9. \A k \in Jobs : pc'[k] = "claims" => k = j
  BY <1>2, <1>3, OneWriter
<1> QED
  BY <1>2, <1>5, <1>8, <1>9 DEF LedgerInv

(***************************************************************************)
(* What a commit does to the table: nothing, or all of its batch at once.  *)
(***************************************************************************)
LEMMA CommitIs ==
    ASSUME TypeInv, LedgerInv, NEW j \in Jobs, Commit(j)
    PROVE  /\ InProgress(j) /\ Processed(j) = ClaimsOf(batch[j]) /\ batch[j] \in RunBatches
           /\ payments' = draft /\ draft' = {}
           /\ OfBatch(payments, batch[j]) # {} => payments' = payments
           /\ \A p \in payments' : p.batch # batch[j] => p \in payments
           /\ payments \subseteq payments'
           /\ Whole(payments', batch[j])
PROOF
<1> DEFINE b == batch[j]
<1>1. InProgress(j) /\ todo[j] = {} /\ payments' = draft /\ draft' = {} /\ b \in RunBatches
  BY DEF Commit, LedgerInv, TypeInv, JobsOK
<1>2. Processed(j) = ClaimsOf(b)
  BY <1>1 DEF Processed
<1>3. OfOthers(draft, b) = OfOthers(payments, b) /\ Recorded(draft, b, ClaimsOf(b))
  BY <1>1, <1>2 DEF InProgress
<1>4. ASSUME OfBatch(payments, b) # {}
      PROVE  draft = payments
  <2>1. draft \subseteq payments
    BY <1>1, <1>4 DEF InProgress
  <2>2. ASSUME NEW p \in payments, p.batch = b
        PROVE  p \in draft
    <3>1. p.claim \in ClaimsOf(b) /\ Covered(p.claim)
      BY <1>1, <2>2 DEF LedgerInv, Sound
    <3>2. PICK r \in draft : r.claim = p.claim /\ r.batch = b
      BY <1>3, <3>1 DEF Recorded
    <3> QED
      BY <2>1, <2>2, <3>2 DEF LedgerInv, Keyed
  <2>3. ASSUME NEW p \in payments, p.batch # b
        PROVE  p \in draft
    BY <1>3, <2>3 DEF OfOthers
  <2> QED
    BY <2>1, <2>2, <2>3
<1>5. payments \subseteq draft
  <2>1. CASE OfBatch(payments, b) # {}
    BY <1>4, <2>1
  <2>2. CASE OfBatch(payments, b) = {}
    BY <1>3, <2>2 DEF OfBatch, OfOthers
  <2> QED
    BY <2>1, <2>2
<1>6. \A p \in draft : p.batch # b => p \in payments
  BY <1>3 DEF OfOthers
<1> QED
  BY <1>1, <1>2, <1>3, <1>4, <1>5, <1>6 DEF Whole

LEMMA LedgerCommit ==
    ASSUME TypeInv, LedgerInv, NEW j \in Jobs, Commit(j)
    PROVE  LedgerInv'
PROOF
<1> DEFINE b == batch[j]
<1>1. /\ InProgress(j) /\ b \in RunBatches
      /\ payments' = draft /\ draft' = {}
      /\ OfBatch(payments, b) # {} => payments' = payments
      /\ \A p \in payments' : p.batch # b => p \in payments
      /\ payments \subseteq payments'
      /\ Whole(payments', b)
  BY CommitIs
<1>2. Keyed(payments') /\ Keyed(draft')
  BY <1>1 DEF LedgerInv, Keyed
<1>3. Sound(payments') /\ DeductibleKept(payments')
  <2>1. CASE OfBatch(payments, b) # {}
    BY <1>1, <2>1 DEF LedgerInv
  <2>2. CASE OfBatch(payments, b) = {}
    BY <1>1, <2>2 DEF InProgress
  <2> QED
    BY <2>1, <2>2
<1>4. \A p \in payments' : p.batch \notin RunBatches => p \in History
  BY <1>1 DEF LedgerInv
<1>5. ASSUME NEW a \in RunBatches, OfBatch(payments', a) # {}
      PROVE  Whole(payments', a)
  <2>1. CASE a = b
    BY <1>1, <2>1
  <2>2. CASE a # b
    <3>1. OfBatch(payments, a) # {}
      BY <1>1, <1>5, <2>2 DEF OfBatch
    <3>2. Whole(payments, a)
      BY <3>1 DEF LedgerInv
    <3> QED
      BY <1>1, <3>2 DEF Whole, Recorded
  <2> QED
    BY <2>1, <2>2
<1>6. ASSUME NEW k \in Jobs
      PROVE  pc'[k] # "claims"
  BY OneWriter DEF Commit, TypeInv, JobsOK
<1> QED
  BY <1>2, <1>3, <1>4, <1>5, <1>6 DEF LedgerInv

LEMMA LedgerNext ==
    ASSUME TypeInv, LedgerInv, [Next]_vars
    PROVE  LedgerInv'
PROOF
<1>1. ASSUME NEW j \in Jobs, JobStep(j)
      PROVE  LedgerInv'
  <2>1. CASE LockTimeout(j) \/ AdjudicateRaises(j)
    BY <2>1, LedgerAbandon DEF LockTimeout, AdjudicateRaises, Ended
  <2>2. CASE OpenExport(j) \/ FlushExport(j) \/ CloseExport(j)
    <3>1. UNCHANGED <<payments, draft, batch, todo>>
      BY <2>2 DEF OpenExport, FlushExport, CloseExport, database, transaction, arguments, job
    <3>2. \A k \in Jobs : pc'[k] = "claims" => pc[k] = "claims"
      BY <2>2 DEF OpenExport, FlushExport, CloseExport, TypeInv, JobsOK, job
    <3> QED
      BY <3>1, <3>2, LedgerUntouched
  <2> QED
    BY <1>1, <2>1, <2>2, LedgerClear, LedgerUncovered, LedgerCovered, LedgerCommit DEF JobStep
<1>2. ASSUME NEW j \in Jobs, NEW b \in RunBatches, Start(j, b)
      PROVE  LedgerInv'
  <2>1. UNCHANGED <<payments, draft, todo>>
    BY <1>2 DEF Start, database, transaction
  <2>2. \A k \in Jobs : pc'[k] = "claims" => pc[k] = "claims" /\ batch'[k] = batch[k]
    BY <1>2 DEF Start, TypeInv, JobsOK
  <2> QED
    BY <2>1, <2>2, LedgerUntouched
<1>3. ASSUME NEW j \in Jobs, Kill(j)
      PROVE  LedgerInv'
  BY <1>3, LedgerAbandon DEF Kill, Ended
<1>4. CASE UNCHANGED vars
  BY <1>4, LedgerUntouched DEF vars, job, database, transaction, arguments
<1> QED
  BY <1>1, <1>2, <1>3, <1>4 DEF Next

LEMMA LedgerAlways ==
    ASSUME HistoryIsPast, HistorySettled
    PROVE  Spec => [](TypeInv /\ LedgerInv)
PROOF
<1>1. Init => TypeInv /\ LedgerInv
  BY TypeInit, LedgerInit
<1>2. (TypeInv /\ LedgerInv) /\ [Next]_vars => (TypeInv /\ LedgerInv)'
  BY TypeNext, LedgerNext
<1> QED
  BY <1>1, <1>2, PTL DEF Spec

(***************************************************************************)
(* When the history is settled and of months that are not run again, every *)
(* occurrence has at all times absorbed its deductible once: after runs in *)
(* any order, reruns of early batches, kills and overlaps of any number of *)
(* jobs (occurrence_prior, clear_batch and run_batch).                     *)
(***************************************************************************)
THEOREM DeductibleAbsorbedOnce ==
    ASSUME HistoryIsPast, HistorySettled
    PROVE  Spec => []DeductibleOnce
PROOF
<1>1. TypeInv /\ LedgerInv => DeductibleOnce
  BY DEF LedgerInv, DeductibleOnce
<1> QED
  BY <1>1, LedgerAlways, PTL

(***************************************************************************)
(* Nor does a claim ever bear deductible while one received before it, of  *)
(* its occurrence and batch, has loss left that would bear it: the order   *)
(* of get_claims_for_batch decides, the first run and every rerun alike.   *)
(***************************************************************************)
THEOREM FirstReceivedBearsDeductible ==
    ASSUME HistoryIsPast, HistorySettled
    PROVE  Spec => []EarlierClaimBearsDeductible
PROOF
<1>1. TypeInv /\ LedgerInv => EarlierClaimBearsDeductible
  <2> SUFFICES ASSUME TypeInv, LedgerInv, NEW p \in payments, NEW q \in payments,
                      p.batch = q.batch,
                      Claim[p.claim].occurrence = Claim[q.claim].occurrence,
                      Claim[p.claim].received < Claim[q.claim].received,
                      q.deductible > 0
               PROVE  p.deductible = TotalOf(p.attributed)
    BY DEF EarlierClaimBearsDeductible, EarlierBears
  <2>1. CASE p.batch \in RunBatches
    BY <2>1, SoundEarlierBears DEF TypeInv, LedgerInv
  <2>2. CASE p.batch \notin RunBatches
    <3>1. p \in History /\ q \in History
      BY <2>2 DEF LedgerInv
    <3> QED
      BY <3>1 DEF HistorySettled, EarlierBears
  <2> QED
    BY <2>1, <2>2
<1> QED
  BY <1>1, LedgerAlways, PTL

(***************************************************************************)
(* The table implements the book: the commit of a batch that has no record *)
(* yet settles it whole and at one moment, and every other step of every   *)
(* job, the commit of a rerun among them, leaves the table as it is.       *)
(***************************************************************************)
THEOREM BookImplemented ==
    ASSUME HistoryIsPast, HistorySettled
    PROVE  Spec => ImplementsBook
PROOF
<1> DEFINE Due == [b \in Batches |-> {c \in ClaimsOf(b) : VersionsInForce(c) # {}}]
<1>1. Init => Book!Init
  BY DEF Init, Book!Init
<1>2. ASSUME TypeInv, LedgerInv, [Next]_vars
      PROVE  [Book!Next]_payments
  <2>1. ASSUME NEW j \in Jobs, Commit(j)
        PROVE  Book!Next \/ UNCHANGED payments
    <3> DEFINE b == batch[j]
    <3>1. /\ InProgress(j) /\ Processed(j) = ClaimsOf(b) /\ b \in RunBatches
          /\ payments' = draft
          /\ OfBatch(payments, b) # {} => payments' = payments
          /\ \A p \in payments' : p.batch # b => p \in payments
          /\ payments \subseteq payments'
          /\ Whole(payments', b)
      BY <1>2, <2>1, CommitIs
    <3>2. SUFFICES ASSUME OfBatch(payments, b) = {}
                   PROVE  Book!Next
      BY <3>1
    <3> DEFINE settled == payments' \ payments
    <3>3. \A p \in payments : p.batch # b
      BY <3>2 DEF OfBatch
    <3>4. \A p \in settled : p.batch = b
      BY <3>1
    <3>5. \A p \in settled : p.claim \in Due[b]
      <4>1. ASSUME NEW p \in settled
            PROVE  p.claim \in ClaimsOf(b) /\ Covered(p.claim)
        <5>1. Sound(draft)
          BY <3>1, <3>2 DEF InProgress
        <5> QED
          BY <3>1, <3>4, <4>1, <5>1 DEF Sound
      <4> QED
        BY <3>1, <4>1, RunsAssumption DEF Covered
    <3>6. \A c \in Due[b] : \E p \in settled : p.claim = c
      <4>1. ASSUME NEW c \in Due[b]
            PROVE  \E p \in settled : p.claim = c
        <5>1. c \in ClaimsOf(b) /\ Covered(c)
          BY <3>1, <4>1, RunsAssumption DEF Covered
        <5>2. PICK p \in payments' : p.claim = c /\ p.batch = b
          BY <3>1, <5>1 DEF Whole, Recorded
        <5> QED
          BY <3>3, <5>2
      <4> QED
        BY <4>1
    <3>7. Book!ClaimsIn(settled) = Due[b]
      <4> HIDE DEF settled, Due
      <4> QED
        BY <3>5, <3>6 DEF Book!ClaimsIn
    <3>8. \A p, q \in settled : p.claim = q.claim => p = q
      BY <1>2, <3>1, <3>4 DEF LedgerInv, Keyed
    <3>9. Book!Settle(b)
      BY <3>1, <3>3, <3>4, <3>7, <3>8 DEF Book!Settle
    <3> QED
      BY <3>1, <3>9, RunsAssumption DEF Book!Next
  <2>2. ASSUME NEW j \in Jobs, JobStep(j)
        PROVE  Book!Next \/ UNCHANGED payments
    BY <2>1, <2>2 DEF JobStep, ClearBatch, LockTimeout, AdjudicateUncovered, AdjudicateCovered,
                      AdjudicateRaises, OpenExport, FlushExport, CloseExport, Abandon, database
  <2> QED
    BY <1>2, <2>2 DEF Next, Start, Kill, Abandon, vars, database
<1>3. (TypeInv /\ LedgerInv) /\ [Next]_vars => [Book!Next]_payments
  BY <1>2
<1> QED
  BY <1>1, <1>3, LedgerAlways, PTL DEF Spec, ImplementsBook, Book!Spec

-----------------------------------------------------------------------------
(* The export. *)

LEMMA ResultsInit == Init => ResultsInv
PROOF
  BY DEF Init, ResultsInv, Absent, Ended

(* One more result is shown with its records. *)
LEMMA ShowsOneMore ==
    ASSUME NEW rows, NEW claims, NEW records, Shows(rows, claims, records), NEW res
    PROVE  Shows(rows \cup {res}, claims \cup {res.claim}, records \cup res.record)
PROOF
<1>1. {r.claim : r \in rows \cup {res}} = claims \cup {res.claim}
  BY DEF Shows
<1>2. UNION {r.record : r \in rows \cup {res}} = records \cup res.record
  BY DEF Shows
<1> QED
  BY <1>1, <1>2 DEF Shows

(* A settled batch keeps its records. *)
LEMMA SettledStays ==
    ASSUME TypeInv, LedgerInv, NEW j \in Jobs, Commit(j), NEW a \in RunBatches, Whole(payments, a)
    PROVE  OfBatch(payments', a) = OfBatch(payments, a) /\ Whole(payments', a)
PROOF
<1> DEFINE b == batch[j]
<1>1. /\ InProgress(j)
      /\ payments' = draft
      /\ OfBatch(payments, b) # {} => payments' = payments
      /\ \A p \in payments' : p.batch # b => p \in payments
      /\ payments \subseteq payments'
      /\ Whole(payments', b)
  BY CommitIs
<1>2. CASE a # b
  BY <1>1, <1>2 DEF OfBatch, Whole, Recorded
<1>3. CASE a = b
  <2>1. CASE OfBatch(payments, b) # {}
    BY <1>1, <1>3, <2>1
  <2>2. CASE OfBatch(payments, b) = {}
    <3>1. Sound(draft)
      BY <1>1, <2>2 DEF InProgress
    <3>2. ASSUME NEW p \in draft, p.batch = b
          PROVE  FALSE
      <4>1. p.claim \in ClaimsOf(b) /\ Covered(p.claim)
        BY <1>3, <3>1, <3>2 DEF Sound
      <4> QED
        BY <1>3, <2>2, <4>1 DEF Whole, Recorded, OfBatch
    <3> QED
      BY <1>1, <1>3, <2>2, <3>2 DEF OfBatch
  <2> QED
    BY <2>1, <2>2
<1> QED
  BY <1>2, <1>3

(* A step that leaves the committed table, and what others hold, alone. *)
LEMMA ResultsOfOthers ==
    ASSUME TypeInv, ResultsInv, payments' = payments, NEW j \in Jobs,
           \A k \in Jobs \ {j} : /\ pc'[k] = pc[k] /\ results'[k] = results[k]
                                 /\ batch'[k] = batch[k] /\ todo'[k] = todo[k],
           draft' = draft \/ \A k \in Jobs \ {j} : pc[k] # "claims",
           pc'[j] = "claims" => Shows(results'[j], Processed(j)', OfBatch(draft', batch'[j])),
           pc'[j] \in {"open", "close"} =>
               /\ Shows(results'[j], ClaimsOf(batch'[j]), OfBatch(payments, batch'[j]))
               /\ Whole(payments, batch'[j]),
           \A b \in Batches : export'[b].state = "written" =>
               /\ b \in RunBatches /\ Whole(payments, b)
               /\ Shows(export'[b].rows, ClaimsOf(b), OfBatch(payments, b))
    PROVE  ResultsInv'
PROOF
<1>1. ASSUME NEW k \in Jobs \ {j}
      PROVE  /\ pc'[k] = "claims" => Shows(results'[k], Processed(k)', OfBatch(draft', batch'[k]))
             /\ pc'[k] \in {"open", "close"} =>
                    /\ Shows(results'[k], ClaimsOf(batch'[k]), OfBatch(payments', batch'[k]))
                    /\ Whole(payments', batch'[k])
  BY <1>1 DEF ResultsInv, Processed
<1> QED
  BY <1>1 DEF ResultsInv

LEMMA ResultsStep ==
    ASSUME TypeInv, LedgerInv, ResultsInv, NEW j \in Jobs, JobStep(j)
    PROVE  ResultsInv'
PROOF
<1> DEFINE b == batch[j]
<1> USE DEF Ended
<1>1. b \in RunBatches /\ b \in Batches /\ DOMAIN results = Jobs /\ DOMAIN export = Batches
  BY RunsAssumption DEF TypeInv, JobsOK
<1>2. ASSUME NEW end \in Ended, Abandon(j, end)
      PROVE  ResultsInv'
  <2>1. /\ payments' = payments /\ batch' = batch /\ export' = export /\ pc'[j] = end
        /\ \A k \in Jobs \ {j} : pc'[k] = pc[k] /\ results'[k] = results[k] /\ todo'[k] = todo[k]
    BY <1>2 DEF Abandon, TypeInv, JobsOK, database, arguments
  <2>2. draft' = draft \/ \A k \in Jobs \ {j} : pc[k] # "claims"
    BY <1>2 DEF Abandon, TypeInv, JobsOK
  <2> QED
    BY <1>2, <2>1, <2>2, ResultsOfOthers DEF ResultsInv
<1>3. CASE ClearBatch(j)
  <2>1. /\ payments' = payments /\ batch' = batch /\ export' = export /\ results' = results
        /\ draft' = {p \in payments : p.batch # b} /\ todo'[j] = ClaimsOf(b) /\ pc'[j] = "claims"
        /\ \A k \in Jobs \ {j} : pc'[k] = pc[k] /\ todo'[k] = todo[k] /\ pc[k] # "claims"
        /\ results[j] = {}
    BY <1>3, RunsAssumption DEF ClearBatch, TypeInv, JobsOK, database, arguments
  <2>2. Shows({}, {}, {})
    BY DEF Shows
  <2>3. Processed(j)' = {} /\ OfBatch(draft', b) = {}
    BY <2>1 DEF Processed, OfBatch
  <2> QED
    BY <2>1, <2>2, <2>3, ResultsOfOthers DEF ResultsInv
<1>4. CASE AdjudicateUncovered(j)
  <2>1. PICK c \in todo[j] : NextClaim(j, c) /\ results' = [results EXCEPT ![j] = @ \cup {Uncovered(c)}]
    BY <1>4 DEF AdjudicateUncovered
  <2>2. UNCHANGED <<payments, writer, draft, pc, batch, export>>
    BY <1>4 DEF AdjudicateUncovered, database, transaction, arguments
  <2>3. InProgress(j)
    BY <2>1 DEF LedgerInv, NextClaim
  <2>4. Processed(j)' = Processed(j) \cup {c} /\ pc[j] = "claims"
    BY <2>1, <2>2, <2>3, NextClaimIs
  <2>5. /\ results'[j] = results[j] \cup {Uncovered(c)}
        /\ \A k \in Jobs \ {j} : results'[k] = results[k] /\ todo'[k] = todo[k]
    BY <1>1, <2>1 DEF NextClaim, TypeInv, JobsOK
  <2>6. Shows(results'[j], Processed(j)', OfBatch(draft, b))
    <3> DEFINE res == Uncovered(c)
    <3>1. Shows(results[j] \cup {res}, Processed(j) \cup {res.claim}, OfBatch(draft, b) \cup res.record)
      <4> HIDE DEF res
      <4> QED
        BY <2>4, ShowsOneMore DEF ResultsInv
    <3>2. res.claim = c /\ res.record = {}
      BY DEF Uncovered
    <3> QED
      BY <2>4, <2>5, <3>1, <3>2
  <2> QED
    BY <2>2, <2>4, <2>5, <2>6, ResultsOfOthers DEF ResultsInv
<1>5. CASE AdjudicateCovered(j)
  <2>1. InProgress(j)
    BY <1>5, AdjudicateCoveredIs DEF LedgerInv, NextClaim
  <2>2. PICK c, row :
            /\ c \in todo[j] /\ NextClaim(j, c)
            /\ row.claim = c /\ row.batch = b /\ draft' = draft \cup {row}
            /\ results' = [results EXCEPT ![j] = @ \cup {Adjudicated(c, row, RunCharge(j, row))}]
            /\ UNCHANGED <<payments, charges, writer, pc, batch, asOf, export, shared, runs, alone>>
    BY <1>5, <2>1, CoveredAdds
  <2>3. Processed(j)' = Processed(j) \cup {c} /\ pc[j] = "claims"
    BY <2>1, <2>2, NextClaimIs
  <2>4. /\ results'[j] = results[j] \cup {Adjudicated(c, row, RunCharge(j, row))}
        /\ \A k \in Jobs \ {j} : results'[k] = results[k] /\ todo'[k] = todo[k]
    BY <1>1, <2>2 DEF NextClaim, TypeInv, JobsOK
  <2>5. Shows(results'[j], Processed(j)', OfBatch(draft', b))
    <3> DEFINE res == Adjudicated(c, row, RunCharge(j, row))
    <3>1. Shows(results[j] \cup {res}, Processed(j) \cup {res.claim}, OfBatch(draft, b) \cup res.record)
      <4> HIDE DEF res
      <4> QED
        BY <2>3, ShowsOneMore DEF ResultsInv
    <3>2. res.claim = c /\ res.record = {row}
      BY DEF Adjudicated
    <3>3. OfBatch(draft', b) = OfBatch(draft, b) \cup {row}
      BY <2>2 DEF OfBatch
    <3> QED
      BY <2>3, <2>4, <3>1, <3>2, <3>3
  <2>6. \A k \in Jobs \ {j} : pc[k] # "claims"
    BY <2>3, OneWriter
  <2> QED
    BY <2>2, <2>3, <2>4, <2>5, <2>6, ResultsOfOthers DEF ResultsInv
<1>6. CASE Commit(j)
  <2>1. /\ Processed(j) = ClaimsOf(b) /\ payments' = draft /\ Whole(payments', b)
    BY <1>6, CommitIs
  <2>2. /\ UNCHANGED <<batch, todo, results, export>> /\ pc[j] = "claims" /\ pc'[j] = "open"
        /\ \A k \in Jobs \ {j} : pc'[k] = pc[k] /\ pc[k] # "claims"
    BY <1>6, OneWriter DEF Commit, TypeInv, JobsOK, arguments
  <2>3. Shows(results[j], ClaimsOf(b), OfBatch(payments', b))
    BY <2>1, <2>2 DEF ResultsInv
  <2>4. ASSUME NEW k \in Jobs \ {j}, pc'[k] \in {"open", "close"}
        PROVE  Shows(results[k], ClaimsOf(batch[k]), OfBatch(payments', batch[k])) /\ Whole(payments', batch[k])
    <3>1. /\ Shows(results[k], ClaimsOf(batch[k]), OfBatch(payments, batch[k]))
          /\ Whole(payments, batch[k]) /\ batch[k] \in RunBatches
      BY <2>2, <2>4 DEF ResultsInv, TypeInv, JobsOK
    <3> QED
      BY <1>6, <3>1, SettledStays
  <2>5. ASSUME NEW a \in Batches, export[a].state = "written"
        PROVE  /\ a \in RunBatches /\ Whole(payments', a)
               /\ Shows(export[a].rows, ClaimsOf(a), OfBatch(payments', a))
    <3>1. /\ Shows(export[a].rows, ClaimsOf(a), OfBatch(payments, a))
          /\ Whole(payments, a) /\ a \in RunBatches
      BY <2>5 DEF ResultsInv
    <3> QED
      BY <1>6, <3>1, SettledStays
  <2> QED
    BY <2>1, <2>2, <2>3, <2>4, <2>5 DEF ResultsInv
<1>7. CASE OpenExport(j)
  <2>1. /\ UNCHANGED <<payments, draft, batch, todo, results>> /\ pc[j] = "open" /\ pc'[j] = "close"
        /\ \A k \in Jobs \ {j} : pc'[k] = pc[k]
        /\ export' = [export EXCEPT ![b] = Truncated]
    BY <1>7 DEF OpenExport, TypeInv, JobsOK, database, transaction, arguments
  <2>2. \A a \in Batches : export'[a].state = "written" => a # b /\ export'[a] = export[a]
    BY <1>1, <2>1 DEF Truncated
  <2> QED
    BY <2>1, <2>2, ResultsOfOthers DEF ResultsInv
<1>8. CASE CloseExport(j)
  <2>1. /\ UNCHANGED <<payments, draft, batch, todo>> /\ pc[j] = "close" /\ pc'[j] = "done"
        /\ \A k \in Jobs \ {j} : pc'[k] = pc[k] /\ results'[k] = results[k]
        /\ export' = [export EXCEPT ![b] = Written(results[j])] \/ export' = [export EXCEPT ![b] = Mixed]
    BY <1>8 DEF CloseExport, TypeInv, JobsOK, database, transaction, arguments
  <2>2. Shows(results[j], ClaimsOf(b), OfBatch(payments, b)) /\ Whole(payments, b)
    BY <2>1 DEF ResultsInv
  <2>3. \A a \in Batches :
            IF a = b THEN export'[a].state = "written" => export'[a].rows = results[j]
                     ELSE export'[a] = export[a]
    BY <1>1, <2>1 DEF Written, Mixed
  <2>4. ASSUME NEW a \in Batches, export'[a].state = "written"
        PROVE  /\ a \in RunBatches /\ Whole(payments, a)
               /\ Shows(export'[a].rows, ClaimsOf(a), OfBatch(payments, a))
    BY <1>1, <2>2, <2>3, <2>4 DEF ResultsInv
  <2> QED
    BY <2>1, <2>4, ResultsOfOthers
<1>9. CASE FlushExport(j)
  <2>1. /\ UNCHANGED <<payments, draft, batch, todo, pc, results>> /\ pc[j] = "close"
        /\ export' = [export EXCEPT ![b] = Mixed]
    BY <1>9 DEF FlushExport, database, transaction, arguments, job
  <2>2. \A a \in Batches : export'[a].state = "written" => a # b /\ export'[a] = export[a]
    BY <1>1, <2>1 DEF Mixed
  <2> QED
    BY <2>1, <2>2, ResultsOfOthers DEF ResultsInv
<1> QED
  BY <1>2, <1>3, <1>4, <1>5, <1>6, <1>7, <1>8, <1>9 DEF JobStep, LockTimeout, AdjudicateRaises

LEMMA ResultsNext ==
    ASSUME TypeInv, LedgerInv, ResultsInv, [Next]_vars
    PROVE  ResultsInv'
PROOF
<1>1. ASSUME NEW j \in Jobs, NEW b \in RunBatches, Start(j, b)
      PROVE  ResultsInv'
  <2>1. /\ UNCHANGED <<payments, draft, todo, results, export>> /\ pc'[j] = "begin"
        /\ \A k \in Jobs \ {j} : pc'[k] = pc[k] /\ batch'[k] = batch[k]
    BY <1>1 DEF Start, TypeInv, JobsOK, database, transaction
  <2> QED
    BY <2>1, ResultsOfOthers DEF ResultsInv
<1>2. ASSUME NEW j \in Jobs, Kill(j)
      PROVE  ResultsInv'
  <2>1. /\ payments' = payments /\ batch' = batch /\ export' = export /\ pc'[j] = "killed"
        /\ \A k \in Jobs \ {j} : pc'[k] = pc[k] /\ results'[k] = results[k] /\ todo'[k] = todo[k]
    BY <1>2 DEF Kill, Abandon, TypeInv, JobsOK, database, arguments
  <2>2. draft' = draft \/ \A k \in Jobs \ {j} : pc[k] # "claims"
    BY <1>2 DEF Kill, Abandon, TypeInv, JobsOK
  <2> QED
    BY <2>1, <2>2, ResultsOfOthers DEF ResultsInv
<1>3. CASE UNCHANGED vars
  BY <1>3 DEF vars, job, database, transaction, arguments, ResultsInv, Processed
<1> QED
  BY <1>1, <1>2, <1>3, ResultsStep DEF Next

(* A row of a job's run is as of the date of the job. *)
LEMMA RunRowsAsOf ==
    ASSUME NEW j \in Jobs, NEW c
    PROVE  /\ IsAsOf(Uncovered(c), batch[j], asOf[j])
           /\ \A row : row.claim = c =>
                  IsAsOf(Adjudicated(c, row, RunCharge(j, row)), batch[j], asOf[j])
PROOF
<1>1. IsAsOf(Uncovered(c), batch[j], asOf[j])
  BY DEF IsAsOf, Uncovered
<1>2. ASSUME NEW row, row.claim = c
      PROVE  IsAsOf(Adjudicated(c, row, RunCharge(j, row)), batch[j], asOf[j])
  <2> DEFINE charge == RunCharge(j, row)
             res == Adjudicated(c, row, charge)
  <2>1. charge = ChargeFor(c, batch[j], asOf[j], row.indemnity) /\ charge.date = asOf[j]
    BY <1>2 DEF RunCharge, ChargeFor, Charge
  <2> HIDE DEF charge
  <2>2. res.claim = c /\ res.record = {row} /\ res.charge = {charge} /\ res.daysLate = DaysLate(c, charge.date)
    BY DEF Adjudicated
  <2> HIDE DEF res
  <2>3. {ChargeFor(c, batch[j], asOf[j], p.indemnity) : p \in {row}} = {charge}
    BY <2>1
  <2> QED
    BY <2>1, <2>2, <2>3 DEF IsAsOf, res, charge
<1> QED
  BY <1>1, <1>2

LEMMA DatesInit == Init => DatesInv
PROOF
  BY DEF Init, DatesInv, Absent, Ended, Running, AllAsOf

(* A step that leaves the other jobs alone, and no export of other rows    *)
(* than the job's own.                                                     *)
LEMMA DatesOfOthers ==
    ASSUME TypeInv, DatesInv, NEW j \in Jobs,
           \A k \in Jobs \ {j} : /\ pc'[k] = pc[k] /\ results'[k] = results[k]
                                 /\ batch'[k] = batch[k] /\ asOf'[k] = asOf[k],
           Running(j)' => asOf'[j] \in AsOfs[batch'[j]],
           AllAsOf(results'[j], batch'[j], asOf'[j]),
           \A b \in Batches : export'[b].state = "written" =>
               \/ export'[b] = export[b]
               \/ b = batch[j] /\ Running(j) /\ export'[b].rows = results[j]
    PROVE  DatesInv'
PROOF
<1>1. ASSUME NEW k \in Jobs
      PROVE  /\ Running(k)' => asOf'[k] \in AsOfs[batch'[k]]
             /\ AllAsOf(results'[k], batch'[k], asOf'[k])
  BY DEF DatesInv, Running
<1>2. ASSUME NEW b \in Batches, export'[b].state = "written"
      PROVE  \E date \in AsOfs[b] : AllAsOf(export'[b].rows, b, date)
  <2>1. CASE export'[b] = export[b]
    BY <1>2, <2>1 DEF DatesInv
  <2>2. CASE b = batch[j] /\ Running(j) /\ export'[b].rows = results[j]
    BY <2>2 DEF DatesInv
  <2> QED
    BY <1>2, <2>1, <2>2
<1> QED
  BY <1>1, <1>2 DEF DatesInv, AllAsOf

LEMMA DatesStep ==
    ASSUME TypeInv, DatesInv, NEW j \in Jobs, JobStep(j)
    PROVE  DatesInv'
PROOF
<1> USE DEF Ended
<1>1. DOMAIN results = Jobs /\ DOMAIN export = Batches /\ batch[j] \in Batches
  BY RunsAssumption DEF TypeInv, JobsOK
<1>2. batch' = batch /\ asOf' = asOf
  BY DEF JobStep, ClearBatch, LockTimeout, AdjudicateUncovered, AdjudicateCovered, AdjudicateRaises,
         Commit, OpenExport, FlushExport, CloseExport, Abandon, arguments, job
<1>3. \A k \in Jobs \ {j} : pc'[k] = pc[k]
  BY DEF JobStep, ClearBatch, LockTimeout, AdjudicateUncovered, AdjudicateCovered, AdjudicateRaises,
         Commit, OpenExport, FlushExport, CloseExport, Abandon, job, TypeInv, JobsOK
<1>4. Running(j)' => Running(j)
  BY DEF JobStep, ClearBatch, LockTimeout, AdjudicateUncovered, AdjudicateCovered, AdjudicateRaises,
         NextClaim, Commit, OpenExport, FlushExport, CloseExport, Abandon, job, TypeInv, JobsOK, Running
<1>5. AllAsOf({}, batch[j], asOf[j])
  BY DEF AllAsOf
<1>6. CASE UNCHANGED <<results, export>>
  BY <1>2, <1>3, <1>4, <1>6, DatesOfOthers DEF DatesInv
<1>7. CASE LockTimeout(j) \/ AdjudicateRaises(j)
  <2>1. results' = [results EXCEPT ![j] = {}] /\ export' = export
    BY <1>7 DEF LockTimeout, AdjudicateRaises, Abandon
  <2> QED
    BY <1>1, <1>2, <1>3, <1>4, <1>5, <2>1, DatesOfOthers DEF DatesInv
<1>8. ASSUME NEW res, results' = [results EXCEPT ![j] = @ \cup {res}], export' = export,
             IsAsOf(res, batch[j], asOf[j])
      PROVE  DatesInv'
  <2>1. AllAsOf(results'[j], batch[j], asOf[j])
    BY <1>1, <1>8 DEF DatesInv, AllAsOf
  <2> QED
    BY <1>1, <1>2, <1>3, <1>4, <1>8, <2>1, DatesOfOthers DEF DatesInv
<1>9. CASE AdjudicateUncovered(j)
  <2>1. PICK c : results' = [results EXCEPT ![j] = @ \cup {Uncovered(c)}]
    BY <1>9 DEF AdjudicateUncovered
  <2> QED
    BY <1>8, <1>9, <2>1, RunRowsAsOf DEF AdjudicateUncovered
<1>10. CASE AdjudicateCovered(j)
  <2>1. PICK c \in todo[j] :
            results' = [results EXCEPT ![j] = @ \cup
                {Adjudicated(c, RowFor(c, batch[j], draft), RunCharge(j, RowFor(c, batch[j], draft)))}]
    BY <1>10, AdjudicateCoveredIs
  <2>2. RowFor(c, batch[j], draft).claim = c
    BY DEF RowFor, PaymentFor, Payment
  <2>3. export' = export
    BY <1>10 DEF AdjudicateCovered
  <2> QED
    BY <1>8, <2>1, <2>2, <2>3, RunRowsAsOf
<1>11. CASE OpenExport(j) \/ FlushExport(j)
  <2>1. results' = results /\ \A b \in Batches : export'[b].state = "written" => export'[b] = export[b]
    BY <1>1, <1>11 DEF OpenExport, FlushExport, Truncated, Mixed, job
  <2> QED
    BY <1>2, <1>3, <1>4, <2>1, DatesOfOthers DEF DatesInv
<1>12. CASE CloseExport(j)
  <2>1. /\ results' = [results EXCEPT ![j] = {}] /\ pc[j] = "close"
        /\ export' = [export EXCEPT ![batch[j]] = Written(results[j])] \/ export' = [export EXCEPT ![batch[j]] = Mixed]
    BY <1>12 DEF CloseExport
  <2>2. Running(j)
    BY <2>1 DEF Running
  <2>3. \A b \in Batches : export'[b].state = "written" =>
               \/ export'[b] = export[b]
               \/ b = batch[j] /\ Running(j) /\ export'[b].rows = results[j]
    BY <1>1, <2>1, <2>2 DEF Written, Mixed
  <2> QED
    BY <1>1, <1>2, <1>3, <1>4, <1>5, <2>1, <2>3, DatesOfOthers DEF DatesInv
<1>13. CASE ClearBatch(j) \/ Commit(j)
  BY <1>6, <1>13 DEF ClearBatch, Commit
<1> QED
  BY <1>7, <1>9, <1>10, <1>11, <1>12, <1>13 DEF JobStep

LEMMA DatesNext ==
    ASSUME TypeInv, DatesInv, [Next]_vars
    PROVE  DatesInv'
PROOF
<1>1. ASSUME NEW j \in Jobs, NEW b \in RunBatches, Start(j, b)
      PROVE  DatesInv'
  <2>1. PICK date \in AsOfs[b] : asOf' = [asOf EXCEPT ![j] = date]
    BY <1>1 DEF Start
  <2>2. results[j] = {} /\ batch'[j] = b /\ asOf'[j] = date
    BY <1>1, <2>1 DEF Start, Running, TypeInv, JobsOK
  <2>3. /\ UNCHANGED <<results, export>>
        /\ \A k \in Jobs \ {j} : pc'[k] = pc[k] /\ batch'[k] = batch[k] /\ asOf'[k] = asOf[k]
    BY <1>1, <2>1 DEF Start, TypeInv, JobsOK
  <2> QED
    BY <2>2, <2>3, DatesOfOthers DEF AllAsOf
<1>2. ASSUME NEW j \in Jobs, Kill(j)
      PROVE  DatesInv'
  <2>1. /\ batch' = batch /\ asOf' = asOf /\ export' = export /\ pc'[j] = "killed" /\ results'[j] = {}
        /\ \A k \in Jobs \ {j} : pc'[k] = pc[k] /\ results'[k] = results[k]
    BY <1>2 DEF Kill, Abandon, TypeInv, JobsOK, arguments
  <2> QED
    BY <2>1, DatesOfOthers DEF AllAsOf, Running, Ended
<1>3. CASE UNCHANGED vars
  BY <1>3 DEF vars, job, arguments, DatesInv, AllAsOf, Running
<1> QED
  BY <1>1, <1>2, <1>3, DatesStep DEF Next

-----------------------------------------------------------------------------
(* A run that no other runs beside. *)

LEMMA AloneInit == Init => AloneInv
PROOF
  BY RunsAssumption DEF Init, AloneInv, Ended

(* Only its own steps can touch the run of a job that is alone. *)
LEMMA AloneOfOthers ==
    ASSUME TypeInv, AloneInv, NEW j \in Jobs, Running(j),
           \A k \in Jobs \ {j} : /\ pc'[k] = pc[k] /\ results'[k] = results[k]
                                 /\ batch'[k] = batch[k],
           newCharges' = newCharges \/ \A k \in Jobs \ {j} : pc[k] # "claims",
           alone' = alone,
           pc'[j] = "claims" => ChargesIn(results'[j]) = OfBatch(newCharges', batch'[j]),
           alone = j =>
            /\ pc'[j] \in {"open", "close"} => ChargesIn(results'[j]) = OfBatch(charges', batch'[j])
            /\ pc'[j] = "close" => ~shared'[j]
            /\ pc'[j] = "done" =>
                /\ export'[batch'[j]].state = "written"
                /\ ChargesIn(export'[batch'[j]].rows) = OfBatch(charges', batch'[j])
    PROVE  AloneInv'
PROOF
<1>1. ASSUME NEW k \in Jobs \ {j}
      PROVE  /\ pc'[k] = "claims" => ChargesIn(results'[k]) = OfBatch(newCharges', batch'[k])
             /\ alone' # k
  <2>1. alone # k
    BY DEF AloneInv
  <2> QED
    BY <2>1 DEF AloneInv
<1>2. alone' = j => \A k \in Jobs \ {j} : ~Running(k)'
  BY DEF AloneInv, Running
<1> QED
  BY <1>1, <1>2 DEF AloneInv

(* The charge a job records for a claim joins those of its batch. *)
LEMMA ChargeJoins ==
    ASSUME NEW rows, NEW q,
           \A r \in rows : r.batch = q.batch => r.claim # q.claim
    PROVE  OfBatch(Record(rows, q), q.batch) = OfBatch(rows, q.batch) \cup {q}
PROOF
  BY DEF OfBatch, Record

LEMMA AloneStep ==
    ASSUME TypeInv, LedgerInv, ResultsInv, DatesInv, AloneInv, NEW j \in Jobs, JobStep(j)
    PROVE  AloneInv'
PROOF
<1> DEFINE b == batch[j]
<1> USE DEF Ended
<1>1. DOMAIN results = Jobs /\ DOMAIN export = Batches /\ batch[j] \in Batches
  BY RunsAssumption DEF TypeInv, JobsOK
<1>2. Running(j)
  BY DEF JobStep, ClearBatch, LockTimeout, AdjudicateUncovered, AdjudicateCovered, AdjudicateRaises,
         NextClaim, Commit, OpenExport, FlushExport, CloseExport, Running
<1>3. batch' = batch /\ alone' = alone
  BY DEF JobStep, ClearBatch, LockTimeout, AdjudicateUncovered, AdjudicateCovered, AdjudicateRaises,
         Commit, OpenExport, FlushExport, CloseExport, Abandon, arguments, job, counts
<1>4. \A k \in Jobs \ {j} : pc'[k] = pc[k] /\ results'[k] = results[k]
  BY DEF JobStep, ClearBatch, LockTimeout, AdjudicateUncovered, AdjudicateCovered, AdjudicateRaises,
         NextClaim, Commit, OpenExport, FlushExport, CloseExport, Abandon, job, TypeInv, JobsOK
<1>5. pc[j] = "claims" => \A k \in Jobs \ {j} : pc[k] # "claims"
  BY OneWriter
<1>6. CASE LockTimeout(j) \/ AdjudicateRaises(j)
  <2>1. pc'[j] = "failed"
    BY <1>6 DEF LockTimeout, AdjudicateRaises, Abandon, TypeInv, JobsOK
  <2>2. newCharges' = newCharges \/ pc[j] = "claims"
    BY <1>6 DEF LockTimeout, AdjudicateRaises, Abandon, TypeInv, JobsOK
  <2> QED
    BY <1>2, <1>3, <1>4, <1>5, <2>1, <2>2, AloneOfOthers
<1>7. CASE ClearBatch(j)
  <2>1. /\ pc'[j] = "claims" /\ results'[j] = {}
        /\ newCharges' = {q \in charges : q.batch # b}
        /\ \A k \in Jobs \ {j} : pc[k] # "claims"
    BY <1>7, RunsAssumption DEF ClearBatch, TypeInv, JobsOK
  <2>2. ChargesIn(results'[j]) = {} /\ OfBatch(newCharges', b) = {}
    BY <2>1 DEF ChargesIn, OfBatch
  <2> QED
    BY <1>2, <1>3, <1>4, <2>1, <2>2, AloneOfOthers
<1>8. CASE AdjudicateUncovered(j)
  <2>1. PICK c : results' = [results EXCEPT ![j] = @ \cup {Uncovered(c)}]
    BY <1>8 DEF AdjudicateUncovered
  <2>2. pc' = pc /\ newCharges' = newCharges /\ pc[j] = "claims"
    BY <1>8 DEF AdjudicateUncovered, NextClaim, transaction
  <2>3. ChargesIn(results'[j]) = ChargesIn(results[j])
    <3>1. results'[j] = results[j] \cup {Uncovered(c)}
      BY <1>1, <2>1
    <3>2. Uncovered(c).charge = {}
      BY DEF Uncovered
    <3> QED
      BY <3>1, <3>2 DEF ChargesIn
  <2> QED
    BY <1>2, <1>3, <1>4, <2>2, <2>3, AloneOfOthers DEF AloneInv
<1>9. CASE AdjudicateCovered(j)
  <2>1. InProgress(j)
    BY <1>9, AdjudicateCoveredIs DEF LedgerInv, NextClaim
  <2>2. PICK c, row :
            /\ c \in todo[j] /\ NextClaim(j, c) /\ row.claim = c
            /\ newCharges' = Record(newCharges, RunCharge(j, row))
            /\ results' = [results EXCEPT ![j] = @ \cup {Adjudicated(c, row, RunCharge(j, row))}]
            /\ UNCHANGED <<payments, charges, writer, pc, batch, asOf, export, shared, runs, alone>>
    BY <1>9, <2>1, CoveredAdds
  <2> DEFINE charge == RunCharge(j, row)
             res == Adjudicated(c, row, charge)
  <2>3. pc[j] = "claims" /\ pc' = pc
    BY <2>2 DEF NextClaim
  <2>4. charge.claim = c /\ charge.batch = b
    BY <2>2 DEF RunCharge, ChargeFor, Charge
  <2>5. res.charge = {charge}
    BY DEF Adjudicated
  <2>6. ASSUME NEW q \in OfBatch(newCharges, b)
        PROVE  q.claim # c
    <3>1. PICK r \in results[j] : q \in r.charge
      BY <2>3 DEF AloneInv, ChargesIn
    <3>2. r.claim \in Processed(j)
      BY <2>3 DEF ResultsInv, Shows
    <3>3. q.claim = r.claim
      <4>1. PICK p \in r.record : q = ChargeFor(r.claim, b, asOf[j], p.indemnity)
        BY <3>1 DEF DatesInv, AllAsOf, IsAsOf
      <4> QED
        BY <4>1 DEF ChargeFor, Charge
    <3>4. Processed(j) \subseteq ClaimsOf(b) /\ c \notin Processed(j)
      BY <2>2 DEF Processed
    <3> QED
      BY <3>2, <3>3, <3>4
  <2>7. results'[j] = results[j] \cup {res}
    BY <1>1, <2>2
  <2> HIDE DEF res, charge
  <2>8. OfBatch(newCharges', b) = OfBatch(newCharges, b) \cup {charge}
    <3>1. newCharges' = Record(newCharges, charge)
      BY <2>2 DEF charge
    <3>2. \A q \in newCharges : q.batch = charge.batch => q.claim # charge.claim
      BY <2>4, <2>6 DEF OfBatch
    <3> QED
      BY <2>4, <3>1, <3>2, ChargeJoins
  <2>9. ChargesIn(results'[j]) = ChargesIn(results[j]) \cup {charge}
    BY <2>5, <2>7 DEF ChargesIn
  <2> QED
    BY <1>2, <1>3, <1>4, <1>5, <2>3, <2>8, <2>9, AloneOfOthers DEF AloneInv
<1>10. CASE Commit(j)
  <2>1. /\ charges' = newCharges /\ results' = results /\ pc[j] = "claims" /\ pc'[j] = "open"
    BY <1>10 DEF Commit, TypeInv, JobsOK
  <2> QED
    BY <1>2, <1>3, <1>4, <1>5, <2>1, AloneOfOthers DEF AloneInv
<1>11. CASE OpenExport(j)
  <2>1. /\ UNCHANGED <<charges, newCharges, results>> /\ pc[j] = "open" /\ pc'[j] = "close"
    BY <1>11 DEF OpenExport, database, transaction, TypeInv, JobsOK
  <2>2. ASSUME alone = j
        PROVE  ~shared'[j]
    <3> DEFINE others == {k \in Jobs \ {j} : Writing(k, batch[j])}
    <3>1. others = {}
      BY <2>2 DEF AloneInv, Writing, Running
    <3>2. shared' = [k \in Jobs |-> CASE k = j -> others # {} [] k # j -> shared[k] \/ k \in others]
      BY <1>11 DEF OpenExport
    <3> HIDE DEF others
    <3> QED
      BY <3>1, <3>2
  <2> QED
    BY <1>2, <1>3, <1>4, <2>1, <2>2, AloneOfOthers DEF AloneInv
<1>12. CASE FlushExport(j)
  <2>1. UNCHANGED <<charges, newCharges, results, pc, shared>> /\ pc[j] = "close" /\ shared[j]
    BY <1>12 DEF FlushExport, database, transaction, job
  <2> QED
    BY <1>2, <1>3, <1>4, <2>1, AloneOfOthers DEF AloneInv
<1>13. CASE CloseExport(j)
  <2>1. UNCHANGED <<charges, newCharges>> /\ pc[j] = "close" /\ pc'[j] = "done"
    BY <1>13 DEF CloseExport, database, transaction, TypeInv, JobsOK
  <2>2. ASSUME alone = j
        PROVE  export'[b] = Written(results[j])
    <3>1. ~shared[j]
      BY <2>1, <2>2 DEF AloneInv
    <3> QED
      BY <1>1, <1>13, <3>1 DEF CloseExport
  <2>3. ASSUME alone = j
        PROVE  export'[b].state = "written" /\ ChargesIn(export'[b].rows) = OfBatch(charges', b)
    <3>1. ChargesIn(results[j]) = OfBatch(charges, b)
      BY <2>1, <2>3 DEF AloneInv
    <3> QED
      BY <2>1, <2>2, <2>3, <3>1 DEF Written
  <2> QED
    BY <1>2, <1>3, <1>4, <2>1, <2>3, AloneOfOthers
<1> QED
  BY <1>6, <1>7, <1>8, <1>9, <1>10, <1>11, <1>12, <1>13 DEF JobStep

LEMMA AloneNext ==
    ASSUME TypeInv, LedgerInv, ResultsInv, DatesInv, AloneInv, [Next]_vars
    PROVE  AloneInv'
PROOF
<1>1. ASSUME NEW j \in Jobs, NEW b \in RunBatches, Start(j, b)
      PROVE  AloneInv'
  <2>1. /\ UNCHANGED <<newCharges, results>> /\ pc'[j] = "begin"
        /\ \A k \in Jobs \ {j} : pc'[k] = pc[k] /\ batch'[k] = batch[k]
    BY <1>1 DEF Start, TypeInv, JobsOK, transaction
  <2>2. \A k \in Jobs \ {j} : alone' # k
    BY <1>1, RunsAssumption DEF Start
  <2>3. alone' = j => \A k \in Jobs \ {j} : ~Running(k)'
    BY <1>1, <2>1, RunsAssumption DEF Start, Running
  <2> QED
    BY <2>1, <2>2, <2>3 DEF AloneInv
<1>2. ASSUME NEW j \in Jobs, Kill(j)
      PROVE  AloneInv'
  <2>1. /\ batch' = batch /\ alone' = alone /\ pc'[j] = "killed"
        /\ \A k \in Jobs \ {j} : pc'[k] = pc[k] /\ results'[k] = results[k]
    BY <1>2 DEF Kill, Abandon, TypeInv, JobsOK, arguments, counts
  <2>2. newCharges' = newCharges \/ \A k \in Jobs \ {j} : pc[k] # "claims"
    BY <1>2 DEF Kill, Abandon, TypeInv, JobsOK
  <2> QED
    BY <1>2, <2>1, <2>2, AloneOfOthers DEF Kill
<1>3. CASE UNCHANGED vars
  BY <1>3 DEF vars, job, database, transaction, arguments, counts, AloneInv, Running
<1> QED
  BY <1>1, <1>2, <1>3, AloneStep DEF Next

(***************************************************************************)
(* An export that one job's rows make up shows what the table holds for    *)
(* its batch, with the delays and interest of one payment date: although   *)
(* it is written after the commit, by a job that others may overtake, no   *)
(* run that comes between changes the records it shows (write_export).     *)
(* And a run that ends well, with no other beside it, leaves an export     *)
(* that shows the table's payment dates and interest too, whatever killed  *)
(* and overlapping runs came before it.                                    *)
(***************************************************************************)
THEOREM ExportsMirror ==
    ASSUME HistoryIsPast, HistorySettled
    PROVE  Spec => []ExportMirrorsLedger
PROOF
<1> DEFINE Inv == ResultsInv /\ DatesInv /\ AloneInv
<1>1. Init => TypeInv /\ LedgerInv /\ Inv
  BY TypeInit, LedgerInit, ResultsInit, DatesInit, AloneInit
<1>2. (TypeInv /\ LedgerInv /\ Inv) /\ [Next]_vars => (TypeInv /\ LedgerInv /\ Inv)'
  BY TypeNext, LedgerNext, ResultsNext, DatesNext, AloneNext
<1>3. TypeInv /\ LedgerInv /\ Inv => ExportMirrorsLedger
  <2> SUFFICES ASSUME TypeInv, LedgerInv, Inv
               PROVE  ExportMirrorsLedger
    OBVIOUS
  <2>1. ASSUME NEW b \in Batches, export[b].state = "written"
        PROVE  ShowsSettlement(b)
    BY <2>1 DEF ResultsInv, DatesInv, AllAsOf, ShowsSettlement, Shows, OfBatch, RecordsOf
  <2>2. ASSUME NEW j \in Jobs, alone = j, pc[j] = "done"
        PROVE  export[batch[j]].state = "written" /\ ShowsCharges(batch[j])
    BY <2>2 DEF AloneInv, ShowsCharges, ChargesIn, OfBatch, ChargesOf
  <2> QED
    BY <2>1, <2>2 DEF ExportMirrorsLedger
<1> QED
  BY <1>1, <1>2, <1>3, PTL DEF Spec

=============================================================================
