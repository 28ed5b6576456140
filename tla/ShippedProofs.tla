---------------------------- MODULE ShippedProofs ----------------------------
(***************************************************************************)
(* Theorems about the shipped adjudication, for every portfolio of claims, *)
(* every history, any number of shells and commands.  All of it rests on   *)
(* one fact: what a job counts as the prior activity of a claim is the     *)
(* history's, whatever was adjudicated since, because a claim has one      *)
(* batch and prior_activity leaves the batch itself out.                   *)
(***************************************************************************)
EXTENDS ShippedProperties, SequenceTheorems, SumProofs

(* The least element that ORDER BY finds. *)
LEMMA LeastNatural ==
    ASSUME NEW T, T \subseteq Nat, T # {}
    PROVE  Min(T) \in T
PROOF
<1> DEFINE less == OpToRel(<, Nat)
<1>1. \A x, y \in Nat : <<x, y>> \in less <=> x < y
  BY DEF OpToRel
<1>2. IsWellFoundedOn(less, Nat)
  BY NatLessThanWellFounded
<1> HIDE DEF less
<1>3. PICK x \in T : \A y \in T : ~ (<<y, x>> \in less)
  BY <1>2, WFMin, Zenon
<1>4. \A y \in T : x =< y
  <2>1. TAKE y \in T
  <2>2. x \in Nat /\ y \in Nat
    BY <1>3
  <2>3. ~ (<<y, x>> \in less)
    BY <1>3
  <2>4. ~ (y < x)
    BY <1>1, <2>2, <2>3, Zenon
  <2> QED
    BY <2>2, <2>4
<1> QED
  BY <1>3, <1>4 DEF Min

-----------------------------------------------------------------------------
(* What a claim is settled at. *)

Prior(c) == {p \in History : p.claim = c /\ p.batch # Claim[c].batch}

Result(c, a) == Adjudicate(c, Prior(c), a)

Settlement(c, a) == PaymentOf(Result(c, a), Claim[c].batch, a)

(* Claims that adjudicate raises on are never settled. *)
Payable == {c \in ClaimIds : ~Raises(c)}

ResultsOf == {Result(c, a) : c \in Payable, a \in AsOfs}

Settlements == {Settlement(c, a) : c \in Payable, a \in AsOfs}

Rows == History \cup Settlements

LEMMA ResultClaim ==
    ASSUME NEW c, NEW a
    PROVE  Result(c, a).claim = c
PROOF
  BY DEF Result, Adjudicate

(* The payment date matters to interest alone. *)
LEMMA ResultIsOfClaim ==
    ASSUME NEW c, NEW a, NEW b
    PROVE  /\ Result(c, a).version = Result(c, b).version
           /\ Result(c, a).indemnity = Result(c, b).indemnity
           /\ Result(c, a).deductible = Result(c, b).deductible
PROOF
  BY DEF Result, Adjudicate

LEMMA SettlementFields ==
    ASSUME NEW c, NEW a
    PROVE  /\ Settlement(c, a).claim = c
           /\ Settlement(c, a).batch = Claim[c].batch
           /\ Settlement(c, a).paymentDate = a
PROOF
  BY ResultClaim DEF Settlement, PaymentOf

LEMMA SettlementsAgree ==
    ASSUME NEW c, NEW a, NEW b
    PROVE  SameSettlement(Settlement(c, a), Settlement(c, b))
PROOF
<1>1. /\ Settlement(c, a).version = Settlement(c, b).version
      /\ Settlement(c, a).indemnity = Settlement(c, b).indemnity
      /\ Settlement(c, a).deductible = Settlement(c, b).deductible
  BY ResultIsOfClaim DEF Settlement, PaymentOf
<1>2. Settlement(c, a).paymentDate = Settlement(c, b).paymentDate => a = b
  BY SettlementFields
<1> QED
  BY <1>1, <1>2 DEF SameSettlement

-----------------------------------------------------------------------------
(* The amounts of a settlement are amounts. *)

LEMMA RoundCentsInt ==
    ASSUME NEW n \in Int, NEW d \in Nat \ {0}
    PROVE  RoundCents(n, d) \in Int
PROOF
<1>1. n \div d \in Int
  OBVIOUS
<1> QED
  BY <1>1 DEF RoundCents

LEMMA RoundCentsNat ==
    ASSUME NEW n \in Nat, NEW d \in Nat \ {0}
    PROVE  RoundCents(n, d) \in Nat
PROOF
<1>1. n \div d \in Nat
  OBVIOUS
<1> QED
  BY <1>1 DEF RoundCents

LEMMA NonNegativeNat ==
    ASSUME NEW n \in Int
    PROVE  NonNegative(n) \in Nat
PROOF
  BY DEF NonNegative

LEMMA LesserOf ==
    ASSUME NEW m \in Nat, NEW n \in Nat
    PROVE  Min({m, n}) \in Nat /\ Min({m, n}) <= m /\ Min({m, n}) <= n
PROOF
<1>1. CASE m <= n
  <2>1. \A x \in {m, n} : m =< x
    BY <1>1
  <2>2. Min({m, n}) \in {m, n} /\ \A x \in {m, n} : Min({m, n}) =< x
    BY <2>1 DEF Min
  <2> QED
    BY <2>2
<1>2. CASE n <= m
  <2>1. \A x \in {m, n} : n =< x
    BY <1>2
  <2>2. Min({m, n}) \in {m, n} /\ \A x \in {m, n} : Min({m, n}) =< x
    BY <2>1 DEF Min
  <2> QED
    BY <2>2
<1> QED
  BY <1>1, <1>2

(***************************************************************************)
(* In 2n + 3 days there are n business days: two days after a day of a     *)
(* weekend comes a business day.                                           *)
(***************************************************************************)
LEMMA EnoughBusinessDays ==
    ASSUME NEW start \in Nat, NEW n \in Nat
    PROVE  BusinessDaysBetween(start, start + 2 * n + 2) >= n
PROOF
<1> DEFINE span == start .. start + 2 * n
           all == start .. start + 2 * n + 2
           business == {day \in span : IsBusinessDay(day)}
           weekend == {day \in span : ~IsBusinessDay(day)}
           open == {day \in all : IsBusinessDay(day)}
           later == [day \in weekend |-> day + 2]
<1>1. IsFiniteSet(span) /\ Cardinality(span) = 2 * n + 1 /\ IsFiniteSet(all)
  BY FS_Interval
<1>2. IsFiniteSet(open)
  BY <1>1, FS_Subset
<1>3. later \in Injection(weekend, open)
  <2>1. ASSUME NEW day \in weekend
        PROVE  day + 2 \in open
    <3>1. day \in Nat /\ day \in span /\ (day % 7) \in {5, 6}
      BY DEF IsBusinessDay
    <3>2. ((day + 2) % 7) \in {0, 1} /\ day + 2 \in all
      BY <3>1
    <3> QED
      BY <3>2 DEF IsBusinessDay
  <2>2. later \in [weekend -> open]
    BY <2>1
  <2>3. \A day, other \in weekend : later[day] = later[other] => day = other
    OBVIOUS
  <2> QED
    BY <2>2, <2>3 DEF Injection, IsInjective
<1>4. business \in SUBSET open /\ business \in SUBSET span /\ weekend \in SUBSET span
  OBVIOUS
<1>5. span = business \cup weekend /\ business \cap weekend = {}
  OBVIOUS
<1> HIDE DEF span, all, business, weekend, open, later
<1>6. IsFiniteSet(weekend) /\ Cardinality(weekend) <= Cardinality(open)
  BY <1>2, <1>3, FS_Injection
<1>7. IsFiniteSet(business) /\ Cardinality(business) <= Cardinality(open)
  BY <1>2, <1>4, FS_Subset
<1>8. Cardinality(span) = Cardinality(business) + Cardinality(weekend) - Cardinality(business \cap weekend)
  BY <1>5, <1>6, <1>7, FS_Union
<1>9. Cardinality(business \cap weekend) = 0
  BY <1>5, FS_EmptySet
<1>10. Cardinality(business) \in Nat /\ Cardinality(weekend) \in Nat /\ Cardinality(open) \in Nat
  BY <1>2, <1>6, <1>7, FS_CardinalityType
<1>11. Cardinality(open) >= n
  BY <1>1, <1>6, <1>7, <1>8, <1>9, <1>10
<1> QED
  BY <1>11 DEF open, all, BusinessDaysBetween

LEMMA AddBusinessDaysNat ==
    ASSUME NEW start \in Nat, NEW n \in Nat
    PROVE  AddBusinessDays(start, n) \in Nat
PROOF
<1> DEFINE last == start + 2 * n + 2
           days == {day \in start .. last : BusinessDaysBetween(start, day) >= n}
<1>1. last \in start .. last /\ BusinessDaysBetween(start, last) >= n
  BY EnoughBusinessDays
<1>2. days \subseteq Nat /\ days # {}
  BY <1>1
<1> HIDE DEF days
<1>3. Min(days) \in Nat
  BY <1>2, LeastNatural
<1> QED
  BY <1>3 DEF days, AddBusinessDays

(* The version that the terms are taken from. *)
LEMMA SelectedVersion ==
    ASSUME NEW c \in Payable
    PROVE  LET v == SelectVersion(c)
           IN  /\ v.contentsLimit \in Int /\ v.flatDeductible \in Int
               /\ \A cat \in DOMAIN v.sublimits : v.sublimits[cat] \in Nat
PROOF
<1> DEFINE versions == Policy[Claim[c].policy].versions
           inForce == {k \in DOMAIN versions : IsInForce(versions[k], Claim[c].received)}
           at == IF inForce # {} THEN Min(inForce) ELSE Len(versions)
<1>1. c \in ClaimIds /\ versions # <<>>
  BY DEF Payable, Raises
<1>2. /\ versions \in Seq(Range(versions))
      /\ \A k \in DOMAIN versions :
            /\ versions[k].contentsLimit \in Int /\ versions[k].flatDeductible \in Int
            /\ \A cat \in DOMAIN versions[k].sublimits : versions[k].sublimits[cat] \in Nat
  BY <1>1, DataAssumption
<1>3. DOMAIN versions = 1 .. Len(versions) /\ Len(versions) \in Nat \ {0}
  <2> HIDE DEF versions
  <2> QED
    BY <1>1, <1>2
<1>4. at \in DOMAIN versions
  <2>1. inForce \subseteq DOMAIN versions /\ inForce \subseteq Nat
    BY <1>3
  <2> HIDE DEF inForce, versions
  <2>2. inForce # {} => Min(inForce) \in inForce
    BY <2>1, LeastNatural
  <2> QED
    BY <1>3, <2>1, <2>2
<1>5. SelectVersion(c) = versions[at]
  BY DEF SelectVersion
<1> HIDE DEF at, inForce, versions
<1> QED
  BY <1>2, <1>4, <1>5

LEMMA ValueItemNat ==
    ASSUME NEW c \in Payable, NEW k \in DOMAIN Claim[c].items
    PROVE  ValueItem(Claim[c].items[k], Claim[c].loss) \in Nat
PROOF
<1> DEFINE item == Claim[c].items[k]
           loss == Claim[c].loss
<1>1. loss \in Nat /\ item.rcv \in Int /\ item.purchase \in Int /\ Schedule[item.category] \in Int
  BY DataAssumption DEF Payable, Raises
<1> HIDE DEF item, loss
<1>2. AgeInYears(item.purchase, loss) \in Nat
  <2>1. (loss - item.purchase) \div DaysPerYear \in Int
    BY <1>1 DEF DaysPerYear
  <2> QED
    BY <2>1, NonNegativeNat DEF AgeInYears
<1> DEFINE tenths == Schedule[item.category] * AgeInYears(item.purchase, loss)
<1>3. tenths \in Int
  BY <1>1, <1>2
<1> HIDE DEF tenths
<1>4. item.rcv * (1000 - tenths) \in Int
  BY <1>1, <1>3
<1>5. RoundCents(item.rcv * (1000 - tenths), 1000) \in Int
  BY <1>4, RoundCentsInt
<1>6. NonNegative(RoundCents(item.rcv * (1000 - tenths), 1000)) \in Nat
  BY <1>5, NonNegativeNat
<1> QED
  BY <1>6 DEF ValueItem, tenths, item, loss

(* Sublimits only take away, the deductible is no more than is covered.    *)
LEMMA ResultAmounts ==
    ASSUME NEW c \in Payable, NEW a \in AsOfs
    PROVE  /\ Result(c, a).reduction \in Nat /\ Result(c, a).deductible \in Nat
           /\ Result(c, a).indemnity \in Nat /\ Result(c, a).daysLate \in Nat
           /\ Result(c, a).interest \in Nat
PROOF
<1> DEFINE v == SelectVersion(c)
           prior == Prior(c)
           rule == PromptPay[Policy[Claim[c].policy].state]
           lines == Claim[c].items
           acv == [k \in DOMAIN lines |-> ValueItem(lines[k], Claim[c].loss)]
           capped == [k \in DOMAIN lines |-> Capped(v, lines[k].category, acv[k])]
           gross == SumFunction(acv)
           covered == SumFunction(capped)
           remaining == DeductibleRemaining(v, prior)
           deductible == Min({remaining, covered})
           headroom == NonNegative(v.contentsLimit - IndemnityPaid(prior))
           indemnity == Min({covered - deductible, headroom})
           daysLate == DaysLate(c, rule, a)
           interest == InterestAmount(indemnity, rule, daysLate)
<1>1. /\ Result(c, a).reduction = gross - covered /\ Result(c, a).deductible = deductible
      /\ Result(c, a).indemnity = indemnity /\ Result(c, a).daysLate = daysLate
      /\ Result(c, a).interest = interest
  BY DEF Result, Adjudicate, RuleFor
<1>2. /\ v.contentsLimit \in Int /\ v.flatDeductible \in Int
      /\ \A cat \in DOMAIN v.sublimits : v.sublimits[cat] \in Nat
  BY SelectedVersion
<1>3. IsFiniteSet(DOMAIN lines) /\ \A k \in DOMAIN lines : acv[k] \in Nat
  <2>1. \A k \in DOMAIN lines : ValueItem(lines[k], Claim[c].loss) \in Nat
    BY ValueItemNat
  <2>2. IsFiniteSet(DOMAIN lines)
    BY DataAssumption DEF Payable
  <2> QED
    BY <2>1, <2>2
<1>4. /\ DOMAIN acv = DOMAIN lines /\ DOMAIN capped = DOMAIN lines
      /\ \A k \in DOMAIN lines : capped[k] \in Nat /\ capped[k] <= acv[k]
  <2>1. ASSUME NEW k \in DOMAIN lines
        PROVE  capped[k] \in Nat /\ capped[k] <= acv[k]
    <3>1. acv[k] \in Nat /\ capped[k] = Capped(v, lines[k].category, acv[k])
      BY <1>3
    <3> HIDE DEF acv, capped, v
    <3>2. CASE lines[k].category \in DOMAIN v.sublimits
      <4>1. v.sublimits[lines[k].category] \in Nat
        BY <1>2, <3>2
      <4> QED
        BY <3>1, <3>2, <4>1, LesserOf DEF Capped
    <3>3. CASE lines[k].category \notin DOMAIN v.sublimits
      BY <3>1, <3>3 DEF Capped
    <3> QED
      BY <3>2, <3>3
  <2> QED
    BY <2>1
<1>5. Summable(acv) /\ Summable(capped) /\ \A k \in DOMAIN capped : capped[k] <= acv[k]
  <2> HIDE DEF acv, capped
  <2> QED
    BY <1>3, <1>4 DEF Summable
<1>6. gross \in Nat /\ covered \in Nat /\ covered <= gross
  <2> HIDE DEF acv, capped
  <2>1. DOMAIN capped = DOMAIN acv
    BY <1>4
  <2>2. covered <= gross
    BY <1>5, <2>1, SumFunctionPointwise
  <2> QED
    BY <1>5, <2>2, SumFunctionNat
<1>7. IsFiniteSet(prior) /\ \A p \in prior : p.indemnity \in Nat /\ p.deductible \in Nat
  <2>1. prior \in SUBSET History
    BY DEF Prior
  <2>2. IsFiniteSet(History) /\ \A p \in History : p.indemnity \in Nat /\ p.deductible \in Nat
    BY ShippedAssumption DEF IsRecord
  <2> HIDE DEF prior
  <2> QED
    BY <2>1, <2>2, FS_Subset
<1>8. IndemnityPaid(prior) \in Nat /\ DeductibleAbsorbed(prior) \in Nat
  <2> HIDE DEF prior
  <2> DEFINE paid == [p \in prior |-> p.indemnity]
             absorbed == [p \in prior |-> p.deductible]
  <2>1. Summable(paid) /\ Summable(absorbed)
    BY <1>7 DEF Summable
  <2> HIDE DEF paid, absorbed
  <2>2. SumFunction(paid) \in Nat /\ SumFunction(absorbed) \in Nat
    BY <2>1, SumFunctionNat
  <2> QED
    BY <2>2 DEF paid, absorbed, IndemnityPaid, DeductibleAbsorbed
<1>9. remaining \in Nat /\ headroom \in Nat
  <2> HIDE DEF prior, v
  <2>1. v.flatDeductible - DeductibleAbsorbed(prior) \in Int /\ v.contentsLimit - IndemnityPaid(prior) \in Int
    BY <1>2, <1>8
  <2> QED
    BY <2>1, NonNegativeNat DEF DeductibleRemaining
<1>10. deductible \in Nat /\ deductible <= covered
  <2> HIDE DEF covered, remaining
  <2> QED
    BY <1>6, <1>9, LesserOf
<1>11. covered - deductible \in Nat
  <2> HIDE DEF covered, deductible
  <2> QED
    BY <1>6, <1>10
<1>12. indemnity \in Nat
  <2> HIDE DEF covered, deductible, headroom
  <2> DEFINE left == covered - deductible
  <2>1. left \in Nat
    BY <1>11
  <2> HIDE DEF left
  <2>2. Min({left, headroom}) \in Nat
    BY <1>9, <2>1, LesserOf
  <2> QED
    BY <2>2 DEF left
<1>13. rule.deadlineDays \in Nat /\ rule.annualRatePct \in Nat /\ Claim[c].fnol \in Nat /\ a \in Int
  BY DataAssumption, RunsAssumption DEF Payable, Raises
<1>14. daysLate \in Nat
  <2> HIDE DEF rule
  <2>1. PaymentDeadline(c, rule) \in Nat
    <3> DEFINE fnol == Claim[c].fnol
               days == rule.deadlineDays
    <3>1. fnol \in Nat /\ days \in Nat
      BY <1>13
    <3>2. PaymentDeadline(c, rule) \in {AddBusinessDays(fnol, days), fnol + days}
      BY DEF PaymentDeadline
    <3> HIDE DEF fnol, days
    <3>3. AddBusinessDays(fnol, days) \in Nat /\ fnol + days \in Nat
      BY <3>1, AddBusinessDaysNat
    <3> QED
      BY <3>2, <3>3
  <2>2. a - PaymentDeadline(c, rule) \in Int
    BY <1>13, <2>1
  <2> QED
    BY <2>2, NonNegativeNat DEF DaysLate
<1>15. interest \in Nat
  <2> HIDE DEF rule, indemnity, daysLate
  <2>1. indemnity * rule.annualRatePct * daysLate \in Nat
    <3>1. indemnity * rule.annualRatePct \in Nat
      BY <1>12, <1>13
    <3> DEFINE yearly == indemnity * rule.annualRatePct
    <3>2. yearly \in Nat
      BY <3>1
    <3> HIDE DEF yearly
    <3>3. yearly * daysLate \in Nat
      BY <1>14, <3>2
    <3> QED
      BY <3>3 DEF yearly
  <2>2. 100 * DaysPerYear \in Nat \ {0}
    BY DEF DaysPerYear
  <2>3. RoundCents(indemnity * rule.annualRatePct * daysLate, 100 * DaysPerYear) \in Nat
    <3> DEFINE num == indemnity * rule.annualRatePct * daysLate
               den == 100 * DaysPerYear
    <3>1. num \in Nat /\ den \in Nat \ {0}
      BY <2>1, <2>2
    <3> HIDE DEF num, den
    <3>2. RoundCents(num, den) \in Nat
      BY <3>1, RoundCentsNat
    <3> QED
      BY <3>2 DEF num, den
  <2> QED
    BY <2>3 DEF InterestAmount
<1>16. gross - covered \in Nat
  <2> HIDE DEF gross, covered
  <2> QED
    BY <1>6
<1> QED
  <2> HIDE DEF gross, covered, deductible, indemnity, daysLate, interest
  <2> QED
    BY <1>1, <1>10, <1>12, <1>14, <1>15, <1>16

LEMMA RowsAreRecords ==
    ASSUME NEW p \in Rows
    PROVE  IsRecord(p)
PROOF
<1>1. CASE p \in History
  BY <1>1, ShippedAssumption
<1>2. CASE p \in Settlements
  <2>1. PICK c \in Payable, a \in AsOfs : p = Settlement(c, a)
    BY <1>2 DEF Settlements
  <2>2. /\ p.claim = c /\ p.indemnity = Result(c, a).indemnity
        /\ p.interest = Result(c, a).interest /\ p.deductible = Result(c, a).deductible
    BY <2>1, ResultClaim DEF Settlement, PaymentOf
  <2> QED
    BY <2>2, ResultAmounts DEF IsRecord, Payable
<1> QED
  BY <1>1, <1>2 DEF Rows

-----------------------------------------------------------------------------
(* A payments table. *)

(* A record of a claim in the batch of the claim. *)
Own(p) == p.claim \in ClaimIds /\ p.batch = Claim[p.claim].batch

(* The history that no batch replaces. *)
KeepsHistory(rows) == \A p \in History : Own(p) \/ p \in rows

SettledAsOf(rows, c, a) ==
    /\ Settlement(c, a) \in rows
    /\ \A p \in rows : p.claim = c /\ p.batch = Claim[c].batch => p.paymentDate = a

(* A batch that left any record of its own has settled. *)
Whole(rows) ==
    \A p \in rows \ History : \E a \in AsOfs : \A c \in ClaimsOf(p.batch) : SettledAsOf(rows, c, a)

(* Every record is still there, or the claim has been settled again. *)
Repeats(old, new) ==
    \A p \in old : \E q \in new :
        /\ q.claim = p.claim /\ q.batch = p.batch
        /\ p \in Settlements => q \in Settlements

LEMMA OtherRowsAreHistory ==
    ASSUME NEW p \in Rows, ~Own(p)
    PROVE  p \in History
PROOF
  BY SettlementFields DEF Rows, Settlements, Own, Payable

(* prior_activity does not see what any batch has settled. *)
LEMMA PriorIsHistory ==
    ASSUME NEW rows \in SUBSET Rows, KeepsHistory(rows), NEW c \in ClaimIds
    PROVE  PriorActivity(rows, c, Claim[c].batch) = Prior(c)
PROOF
<1>1. \A p \in rows : p.claim = c /\ p.batch # Claim[c].batch => p \in History
  BY OtherRowsAreHistory DEF Own
<1>2. \A p \in History : p.claim = c /\ p.batch # Claim[c].batch => p \in rows
  BY DEF KeepsHistory, Own
<1> QED
  BY <1>1, <1>2 DEF PriorActivity, Prior

(* Recording the settlement of one claim: what is there afterwards. *)
LEMMA RecordedRows ==
    ASSUME NEW rows \in SUBSET Rows, NEW c \in Payable, NEW a \in AsOfs
    PROVE  LET new == Record(rows, Settlement(c, a))
           IN  /\ new \in SUBSET Rows
               /\ SettledAsOf(new, c, a)
               /\ \A p : ~ (p.claim = c /\ p.batch = Claim[c].batch) => (p \in new <=> p \in rows)
               /\ Repeats(rows, new)
PROOF
<1> DEFINE row == Settlement(c, a)
           new == Record(rows, row)
<1>1. row.claim = c /\ row.batch = Claim[c].batch /\ row.paymentDate = a /\ row \in Settlements
  BY SettlementFields DEF Settlements
<1>2. \A p : p \in new <=> \/ p \in rows /\ (p.claim # c \/ p.batch # Claim[c].batch)
                           \/ p = row
  BY <1>1 DEF Record
<1> HIDE DEF row, new
<1>4. new \in SUBSET Rows
  BY <1>1, <1>2 DEF Rows
<1>5. SettledAsOf(new, c, a)
  BY <1>1, <1>2 DEF SettledAsOf, row
<1>6. \A p : ~ (p.claim = c /\ p.batch = Claim[c].batch) => (p \in new <=> p \in rows)
  BY <1>1, <1>2
<1>7. Repeats(rows, new)
  BY <1>1, <1>2 DEF Repeats
<1> QED
  BY <1>4, <1>5, <1>6, <1>7 DEF new, row

LEMMA RepeatsRepeats ==
    ASSUME NEW old, NEW seen, NEW new, Repeats(old, seen), Repeats(seen, new)
    PROVE  Repeats(old, new)
PROOF
  BY DEF Repeats

-----------------------------------------------------------------------------
(* The inductive invariant. *)

FileRecords ==
    [state : {"empty", "schema", "loaded"}, rows : SUBSET Rows, writer : Jobs \cup {NoJob}]

Stages == Ended \cup {"unlink", "create", "schema", "load", "exists", "connect",
                      "tables", "batch", "claims", "open", "close"}

Typed ==
    /\ files \in Seq(FileRecords)
    /\ path \in 0 .. Len(files)
    /\ pc \in [Jobs -> Stages]
    /\ args \in [Jobs -> {NoArgs} \cup (RunBatches \X AsOfs)]
    /\ handle \in [Jobs -> 0 .. Len(files)]
    /\ todo \in [Jobs -> SUBSET ClaimIds]
    /\ known \in [Jobs -> BOOLEAN]
    /\ inHand \in [Jobs -> SUBSET ResultsOf]
    /\ results \in [Jobs -> SUBSET ResultsOf]
    /\ draft \in [Jobs -> SUBSET Rows]

FileSound(file) ==
    IF file.state = "loaded"
    THEN KeepsHistory(file.rows) /\ Whole(file.rows)
    ELSE file.rows = {} /\ file.writer = NoJob

FilesSound == \A f \in DOMAIN files : FileSound(files[f])

(* A database without tables has no writer and none but the builder        *)
(* changes that.                                                           *)
Builds(j) ==
    /\ pc[j] \in {"unlink", "create", "schema", "load"} => j \in Builders
    /\ pc[j] = "create" /\ path # 0 => files[path].state = "empty"
    /\ pc[j] = "schema" => handle[j] # 0 /\ File(j).state = "empty"
    /\ pc[j] = "load" => handle[j] # 0 /\ File(j).state = "schema"

Recorded(j) == ClaimsOf(BatchOf(j)) \ (todo[j] \cup {res.claim : res \in inHand[j]})

(* What is in the transaction of a job beside the records of its own batch *)
(* is what the file has.                                                   *)
Drafted(j) ==
    /\ File(j).state = "loaded"
    /\ \A c \in Recorded(j) : SettledAsOf(draft[j], c, AsOf(j))
    /\ \A p : ~ (p.batch = BatchOf(j) /\ p.claim \in ClaimsOf(BatchOf(j)))
            => (p \in draft[j] <=> p \in File(j).rows)
    /\ Repeats(File(j).rows, draft[j])

(* A lock is held through the job's own connection. *)
Locks(j) == \A f \in DOMAIN files : files[f].writer = j => handle[j] = f

(* The results kept are those of the claims recorded. *)
Collected(j) ==
    IF InTransaction(j) THEN results[j] = {Result(c, AsOf(j)) : c \in Recorded(j)}
    ELSE pc[j] \in {"open", "close"} \/ results[j] = {}

HasArgs == {"exists", "connect", "tables", "batch", "claims", "open", "close"}

Adjudicates(j) ==
    /\ pc[j] \in HasArgs => args[j] \in RunBatches \X AsOfs
    /\ pc[j] \in {"tables", "batch", "claims"} => handle[j] # 0
    /\ known[j] => /\ pc[j] \in {"batch", "claims", "open", "close"}
                   /\ handle[j] # 0 /\ File(j).state = "loaded"
    /\ InTransaction(j) => pc[j] = "claims" /\ Drafted(j)
    /\ draft[j] # {} => InTransaction(j)
    /\ pc[j] # "claims" => todo[j] = {} /\ inHand[j] = {}
    /\ todo[j] \subseteq ClaimsOf(BatchOf(j))
    /\ \A res \in inHand[j] :
        /\ known[j] /\ inHand[j] = {res} /\ res.claim \notin todo[j]
        /\ res.claim \in ClaimsOf(BatchOf(j)) /\ res = Result(res.claim, AsOf(j))
    /\ ~InTransaction(j) /\ (todo[j] # {} \/ inHand[j] # {}) => Recorded(j) = {}
    /\ Collected(j)

Sound == Typed /\ FilesSound /\ \A j \in Jobs : Builds(j) /\ Locks(j) /\ Adjudicates(j)

LEMMA InitSound == Init => Sound
PROOF
<1> SUFFICES ASSUME Init
             PROVE  Sound
  OBVIOUS
<1> DEFINE built == [state |-> "loaded", rows |-> History, writer |-> NoJob]
<1>1. files = <<built>>
  BY DEF Init
<1>2. built \in FileRecords
  BY DEF FileRecords, Rows
<1>3. /\ files \in Seq(FileRecords)
      /\ Len(files) = 1 /\ DOMAIN files = {1}
      /\ files[1] = built
  <2> HIDE DEF built
  <2> QED
    BY <1>1, <1>2
<1>4. Typed
  BY <1>3 DEF Init, Typed, Stages, Ended
<1>5. FilesSound
  BY <1>3 DEF FilesSound, FileSound, KeepsHistory, Whole
<1>6. \A j \in Jobs : Builds(j) /\ Locks(j) /\ Adjudicates(j)
  BY <1>3, RunsAssumption DEF Init, Builds, Locks, Adjudicates, Collected, InTransaction, HasArgs
<1> QED
  BY <1>4, <1>5, <1>6 DEF Sound

-----------------------------------------------------------------------------
(* A step of one job as the others see it. *)

LEMMA FileUpdate ==
    ASSUME files \in Seq(FileRecords), NEW h \in DOMAIN files, NEW file \in FileRecords,
           files' = [files EXCEPT ![h] = file]
    PROVE  /\ files' \in Seq(FileRecords)
           /\ Len(files') = Len(files) /\ DOMAIN files' = DOMAIN files
           /\ \A f \in DOMAIN files : files'[f] = IF f = h THEN file ELSE files[f]
PROOF
  BY ExceptSeq

(* What another job may find changed in the file it has open. *)
Undisturbed(k) ==
    /\ handle[k] # 0 =>
        /\ \/ files'[handle[k]].state = files[handle[k]].state
           \/ files[handle[k]].state # "loaded" /\ k \notin Builders
        /\ files'[handle[k]].writer = k <=> files[handle[k]].writer = k
        /\ files[handle[k]].writer = k => files'[handle[k]].rows = files[handle[k]].rows
    /\ \A f \in DOMAIN files' : files'[f].writer = k => f \in DOMAIN files /\ files[f].writer = k
    /\ k \in Builders /\ path' # 0 =>
        \/ path' = path /\ files'[path].state = files[path].state
        \/ files'[path'].state = "empty"

LEMMA OtherJobs ==
    ASSUME Sound, NEW k \in Jobs, Undisturbed(k),
           pc'[k] = pc[k], args'[k] = args[k], handle'[k] = handle[k], todo'[k] = todo[k],
           known'[k] = known[k], inHand'[k] = inHand[k], results'[k] = results[k], draft'[k] = draft[k]
    PROVE  Builds(k)' /\ Locks(k)' /\ Adjudicates(k)'
PROOF
<1>1. Builds(k) /\ Locks(k) /\ Adjudicates(k) /\ k # NoJob
  BY RunsAssumption DEF Sound
<1>2. Builds(k)'
  BY <1>1 DEF Builds, Undisturbed, File
<1>3. InTransaction(k)' <=> InTransaction(k)
  BY DEF Undisturbed, InTransaction, File
<1>4. Recorded(k)' = Recorded(k)
  BY DEF Recorded, BatchOf
<1>5. InTransaction(k) => File(k)'.rows = File(k).rows
  BY DEF Undisturbed, InTransaction, File
<1>6. handle[k] # 0 /\ File(k).state = "loaded" => File(k)'.state = "loaded"
  BY DEF Undisturbed, File
<1>7. InTransaction(k) /\ Drafted(k) => Drafted(k)'
  BY <1>4, <1>5, <1>6 DEF Drafted, InTransaction, BatchOf, AsOf
<1>a. Collected(k)'
  BY <1>1, <1>3, <1>4 DEF Adjudicates, Collected, AsOf
<1>8. Adjudicates(k)'
  BY <1>1, <1>a, <1>3, <1>4, <1>6, <1>7 DEF Adjudicates, BatchOf, AsOf
<1>9. Locks(k)'
  BY <1>1 DEF Locks, Undisturbed
<1> QED
  BY <1>2, <1>8, <1>9

(* The memory of the other jobs is theirs. *)
OthersKept(j) ==
    \A k \in Jobs \ {j} :
        /\ Undisturbed(k)
        /\ pc'[k] = pc[k] /\ args'[k] = args[k] /\ handle'[k] = handle[k]
        /\ todo'[k] = todo[k] /\ known'[k] = known[k] /\ inHand'[k] = inHand[k]
        /\ results'[k] = results[k] /\ draft'[k] = draft[k]

LEMMA StepIsSound ==
    ASSUME Sound, NEW j \in Jobs,
           Typed', FilesSound', Builds(j)', Locks(j)', Adjudicates(j)', OthersKept(j)
    PROVE  Sound'
PROOF
<1>1. ASSUME NEW k \in Jobs
      PROVE  Builds(k)' /\ Locks(k)' /\ Adjudicates(k)'
  <2>1. CASE k = j
    BY <2>1
  <2>2. CASE k # j
    BY <2>2, OtherJobs DEF OthersKept
  <2> QED
    BY <2>1, <2>2
<1> QED
  BY <1>1 DEF Sound

LEMMA OnlyClaimsLock ==
    ASSUME Sound, NEW j \in Jobs, pc[j] # "claims"
    PROVE  \A f \in DOMAIN files : files[f].writer # j
PROOF
<1>1. /\ files \in Seq(FileRecords) /\ ~InTransaction(j)
      /\ \A f \in DOMAIN files : files[f].writer = j => handle[j] = f
  BY DEF Sound, Typed, Adjudicates, Locks
<1>2. \A f \in DOMAIN files : f # 0
  BY <1>1
<1> QED
  BY <1>1, <1>2 DEF InTransaction, File

(* Giving up or giving back the write lock, if the job has it. *)
LEMMA ReleaseEffect ==
    ASSUME Sound, NEW j \in Jobs,
           files' = IF InTransaction(j) THEN [files EXCEPT ![handle[j]].writer = NoJob] ELSE files
    PROVE  /\ files' \in Seq(FileRecords) /\ Len(files') = Len(files)
           /\ DOMAIN files' = DOMAIN files
           /\ \A f \in DOMAIN files :
                /\ files'[f].state = files[f].state /\ files'[f].rows = files[f].rows
                /\ files'[f].writer = IF InTransaction(j) /\ f = handle[j] THEN NoJob
                                      ELSE files[f].writer
PROOF
<1>1. CASE InTransaction(j)
  <2> DEFINE h == handle[j]
             file == [files[h] EXCEPT !.writer = NoJob]
  <2>1. files \in Seq(FileRecords) /\ h \in DOMAIN files /\ files[h] \in FileRecords
    BY <1>1 DEF Sound, Typed, InTransaction
  <2>2. /\ file \in FileRecords
        /\ file.state = files[h].state /\ file.rows = files[h].rows /\ file.writer = NoJob
    BY <2>1 DEF FileRecords
  <2>3. files' = [files EXCEPT ![h] = file]
    BY <1>1
  <2> HIDE DEF file, h
  <2>4. /\ files' \in Seq(FileRecords)
        /\ Len(files') = Len(files) /\ DOMAIN files' = DOMAIN files
        /\ \A f \in DOMAIN files : files'[f] = IF f = h THEN file ELSE files[f]
    BY <2>1, <2>2, <2>3, FileUpdate
  <2> QED
    BY <1>1, <2>2, <2>4 DEF h
<1>2. CASE ~InTransaction(j)
  BY <1>2 DEF Sound, Typed
<1> QED
  BY <1>1, <1>2

LEMMA ReleaseKeepsOthers ==
    ASSUME Sound, NEW j \in Jobs, path' = path,
           files' = IF InTransaction(j) THEN [files EXCEPT ![handle[j]].writer = NoJob] ELSE files
    PROVE  FilesSound' /\ \A k \in Jobs \ {j} : Undisturbed(k)
PROOF
<1>1. /\ DOMAIN files' = DOMAIN files
      /\ \A f \in DOMAIN files :
            /\ files'[f].state = files[f].state /\ files'[f].rows = files[f].rows
            /\ files'[f].writer = IF InTransaction(j) /\ f = handle[j] THEN NoJob
                                  ELSE files[f].writer
  BY ReleaseEffect
<1>2. FilesSound'
  BY <1>1 DEF Sound, FilesSound, FileSound
<1>3. ASSUME NEW k \in Jobs \ {j}
      PROVE  Undisturbed(k)
  <2>1. handle[k] # 0 => handle[k] \in DOMAIN files
    BY DEF Sound, Typed
  <2>2. path # 0 => path \in DOMAIN files
    BY DEF Sound, Typed
  <2> QED
    BY <1>1, <2>1, <2>2, RunsAssumption DEF Undisturbed, InTransaction, File
<1> QED
  BY <1>2, <1>3

LEMMA EndSound ==
    ASSUME Sound, NEW j \in Jobs, NEW how \in Ended, End(j, how)
    PROVE  Sound'
PROOF
<1>1. /\ files' = IF InTransaction(j) THEN [files EXCEPT ![handle[j]].writer = NoJob] ELSE files
      /\ path' = path
      /\ pc' = [pc EXCEPT ![j] = how] /\ handle' = [handle EXCEPT ![j] = 0]
      /\ args' = [args EXCEPT ![j] = NoArgs] /\ known' = [known EXCEPT ![j] = FALSE]
      /\ todo' = [todo EXCEPT ![j] = {}] /\ inHand' = [inHand EXCEPT ![j] = {}]
      /\ results' = [results EXCEPT ![j] = {}] /\ draft' = [draft EXCEPT ![j] = {}]
  BY DEF End, Goto
<1>2. Typed'
  <2>1. files' \in Seq(FileRecords) /\ Len(files') = Len(files)
    BY <1>1, ReleaseEffect
  <2> QED
    BY <1>1, <2>1 DEF Sound, Typed, Stages
<1>3. FilesSound' /\ OthersKept(j)
  BY <1>1, ReleaseKeepsOthers DEF OthersKept, Sound, Typed
<1>4. Builds(j)' /\ Adjudicates(j)'
  BY <1>1 DEF Sound, Typed, Builds, Adjudicates, Collected, InTransaction, HasArgs, Ended
<1>5. Locks(j)'
  <2>1. /\ DOMAIN files' = DOMAIN files
        /\ \A f \in DOMAIN files :
            files'[f].writer = IF InTransaction(j) /\ f = handle[j] THEN NoJob ELSE files[f].writer
    BY <1>1, ReleaseEffect
  <2>2. \A f \in DOMAIN files : files[f].writer = j => f = handle[j] /\ InTransaction(j)
    BY DEF Sound, Typed, Locks, InTransaction, File
  <2> QED
    BY <2>1, <2>2, RunsAssumption DEF Locks
<1> QED
  BY <1>2, <1>3, <1>4, <1>5, StepIsSound

(* sqlite3.connect changes no file that is there. *)
LEMMA ConnectEffect ==
    ASSUME Sound, NEW j \in Jobs, ConnectTo(j)
    PROVE  /\ files' \in Seq(FileRecords) /\ path' \in 1 .. Len(files')
           /\ Len(files) =< Len(files')
           /\ \A f \in DOMAIN files : f \in DOMAIN files' /\ files'[f] = files[f]
           /\ \A f \in DOMAIN files' : f \in DOMAIN files \/ files'[f] = EmptyFile
           /\ IF path = 0 THEN files'[path'] = EmptyFile ELSE path' = path
           /\ handle' = [handle EXCEPT ![j] = path']
PROOF
<1>1. files \in Seq(FileRecords) /\ path \in 0 .. Len(files)
  BY DEF Sound, Typed
<1>2. CASE path = 0
  <2>1. EmptyFile \in FileRecords
    BY DEF EmptyFile, FileRecords
  <2>2. files' = Append(files, EmptyFile)
    BY <1>2 DEF ConnectTo
  <2> HIDE DEF EmptyFile
  <2>3. /\ files' \in Seq(FileRecords) /\ Len(files') = Len(files) + 1
        /\ \A f \in 1 .. Len(files) : files'[f] = files[f]
        /\ files'[Len(files) + 1] = EmptyFile
    BY <1>1, <2>1, <2>2, AppendProperties
  <2>4. path' = Len(files) + 1 /\ handle' = [handle EXCEPT ![j] = path']
    BY <1>2 DEF ConnectTo
  <2>5. DOMAIN files = 1 .. Len(files) /\ DOMAIN files' = 1 .. Len(files) + 1 /\ Len(files) \in Nat
    BY <1>1, <2>3
  <2> QED
    BY <1>2, <2>3, <2>4, <2>5
<1>3. CASE path # 0
  BY <1>1, <1>3 DEF ConnectTo
<1> QED
  BY <1>2, <1>3

LEMMA ConnectKeepsOthers ==
    ASSUME Sound, NEW j \in Jobs, ConnectTo(j)
    PROVE  /\ FilesSound' /\ \A k \in Jobs \ {j} : Undisturbed(k)
           /\ pc[j] # "claims" => Locks(j)'
PROOF
<1>1. /\ \A f \in DOMAIN files : f \in DOMAIN files' /\ files'[f] = files[f]
      /\ \A f \in DOMAIN files' : f \in DOMAIN files \/ files'[f] = EmptyFile
      /\ IF path = 0 THEN files'[path'] = EmptyFile ELSE path' = path
  BY ConnectEffect
<1>2. EmptyFile.state = "empty" /\ EmptyFile.rows = {} /\ EmptyFile.writer = NoJob
  BY DEF EmptyFile
<1> HIDE DEF EmptyFile
<1>3. FilesSound'
  BY <1>1, <1>2 DEF Sound, FilesSound, FileSound
<1>4. ASSUME NEW k \in Jobs \ {j}
      PROVE  Undisturbed(k)
  <2>1. handle[k] # 0 => handle[k] \in DOMAIN files
    BY DEF Sound, Typed
  <2>2. path # 0 => path \in DOMAIN files
    BY DEF Sound, Typed
  <2> QED
    BY <1>1, <1>2, <2>1, <2>2, RunsAssumption DEF Undisturbed
<1>5. pc[j] # "claims" => Locks(j)'
  BY <1>1, <1>2, OnlyClaimsLock, RunsAssumption DEF Locks
<1> QED
  BY <1>3, <1>4, <1>5

-----------------------------------------------------------------------------
(* build-db *)

LEMMA BuilderSetsFile ==
    ASSUME Sound, NEW j \in Builders, handle[j] # 0, File(j).state # "loaded",
           NEW file \in FileRecords, FileSound(file), file.writer = NoJob,
           files' = [files EXCEPT ![handle[j]] = file], path' = path
    PROVE  /\ files' \in Seq(FileRecords) /\ Len(files') = Len(files)
           /\ files'[handle[j]] = file /\ FilesSound'
           /\ \A k \in Jobs \ {j} : Undisturbed(k)
           /\ \A f \in DOMAIN files' : files'[f].writer # j
PROOF
<1>1. /\ files \in Seq(FileRecords) /\ handle[j] \in DOMAIN files
      /\ files[handle[j]].writer = NoJob
  BY RunsAssumption DEF Sound, Typed, FilesSound, FileSound, File
<1>2. /\ files' \in Seq(FileRecords) /\ Len(files') = Len(files) /\ DOMAIN files' = DOMAIN files
      /\ \A f \in DOMAIN files : files'[f] = IF f = handle[j] THEN file ELSE files[f]
  BY <1>1, FileUpdate
<1>3. FilesSound'
  BY <1>2 DEF Sound, FilesSound
<1>4. ASSUME NEW k \in Jobs \ {j}
      PROVE  Undisturbed(k)
  <2>1. k \notin Builders /\ k # NoJob
    BY RunsAssumption
  <2>2. handle[k] # 0 => handle[k] \in DOMAIN files
    BY DEF Sound, Typed
  <2> QED
    BY <1>1, <1>2, <2>1, <2>2 DEF Undisturbed, File
<1>5. \A f \in DOMAIN files : files[f].writer = j => handle[j] = f
  BY RunsAssumption DEF Sound, Locks
<1>6. \A f \in DOMAIN files' : files'[f].writer # j
  BY <1>1, <1>2, <1>5, RunsAssumption
<1> QED
  BY <1>1, <1>2, <1>3, <1>4, <1>6

LEMMA BuildSound ==
    ASSUME Sound, NEW j \in Jobs,
           StartBuild(j) \/ Unlink(j) \/ Create(j) \/ InitSchema(j) \/ Load(j)
    PROVE  Sound'
PROOF
<1> USE DEF Goto, memory
<1>0. Builds(j) /\ Locks(j) /\ Adjudicates(j) /\ Typed /\ FilesSound
  BY DEF Sound
<1>a. handle[j] # 0 => /\ handle[j] \in DOMAIN files /\ files[handle[j]] \in FileRecords
                       /\ FileSound(files[handle[j]])
  BY <1>0 DEF Typed, FilesSound
<1>1. CASE StartBuild(j)
  <2>1. /\ pc' = [pc EXCEPT ![j] = "unlink"] /\ j \in Builders /\ pc[j] \in Ended
        /\ UNCHANGED <<files, path, args, handle, memory>>
    BY <1>1 DEF StartBuild, Started, Running
  <2>2. Typed' /\ FilesSound' /\ OthersKept(j)
    BY <1>0, <2>1 DEF Typed, Stages, FilesSound, OthersKept, Undisturbed
  <2>3. Builds(j)' /\ Locks(j)' /\ Adjudicates(j)'
    BY <1>0, <2>1 DEF Typed, Builds, Locks, Adjudicates, Collected, HasArgs, Ended, InTransaction, File
  <2> QED
    BY <2>2, <2>3, StepIsSound
<1>2. CASE Unlink(j)
  <2>1. /\ pc' = [pc EXCEPT ![j] = "create"] /\ pc[j] = "unlink" /\ path' = 0
        /\ UNCHANGED <<files, args, handle, memory>>
    BY <1>2 DEF Unlink
  <2>2. Typed' /\ FilesSound' /\ OthersKept(j)
    BY <1>0, <2>1 DEF Typed, Stages, FilesSound, OthersKept, Undisturbed
  <2>3. Builds(j)' /\ Locks(j)' /\ Adjudicates(j)'
    BY <1>0, <2>1 DEF Typed, Builds, Locks, Adjudicates, Collected, HasArgs, InTransaction, File
  <2> QED
    BY <2>2, <2>3, StepIsSound
<1>3. CASE Create(j)
  <2>1. /\ pc' = [pc EXCEPT ![j] = "schema"] /\ pc[j] = "create" /\ ConnectTo(j)
        /\ UNCHANGED <<args, memory>>
    BY <1>3 DEF Create
  <2>2. /\ files' \in Seq(FileRecords) /\ path' \in 1 .. Len(files')
        /\ Len(files) =< Len(files')
        /\ \A f \in DOMAIN files : f \in DOMAIN files' /\ files'[f] = files[f]
        /\ IF path = 0 THEN files'[path'] = EmptyFile ELSE path' = path
        /\ handle' = [handle EXCEPT ![j] = path']
    BY <2>1, ConnectEffect
  <2>3. FilesSound' /\ OthersKept(j)
    BY <1>0, <2>1, <2>2, ConnectKeepsOthers DEF OthersKept, Typed
  <2>4. Typed'
    BY <1>0, <2>1, <2>2 DEF Typed, Stages
  <2>5. /\ handle'[j] = path' /\ pc'[j] = "schema" /\ path' # 0
        /\ files'[path'].state = "empty" /\ files'[path'].writer = NoJob
    <3>1. files'[path'].state = "empty"
      <4>1. CASE path = 0
        BY <2>2, <4>1 DEF EmptyFile
      <4>2. CASE path # 0
        <5>1. path \in DOMAIN files /\ files[path].state = "empty"
          BY <1>0, <2>1, <4>2 DEF Typed, Builds
        <5> QED
          BY <2>2, <4>2, <5>1
      <4> QED
        BY <4>1, <4>2
    <3> QED
      BY <1>0, <2>1, <2>2, <2>3, <3>1 DEF FilesSound, FileSound, Typed
  <2>6. Builds(j)' /\ Adjudicates(j)'
    BY <1>0, <2>1, <2>5, RunsAssumption DEF Typed, Builds, Adjudicates, Collected, HasArgs, InTransaction, File
  <2>7. Locks(j)'
    BY <2>1, ConnectKeepsOthers
  <2> QED
    BY <2>3, <2>4, <2>6, <2>7, StepIsSound
<1>4. CASE InitSchema(j)
  <2> DEFINE file == [files[handle[j]] EXCEPT !.state = "schema"]
  <2>1. /\ pc' = [pc EXCEPT ![j] = "load"] /\ pc[j] = "schema"
        /\ files' = [files EXCEPT ![handle[j]] = file]
        /\ UNCHANGED <<path, args, handle, memory>>
    BY <1>4 DEF InitSchema
  <2>2. handle[j] # 0 /\ files[handle[j]].state = "empty" /\ j \in Builders
    BY <1>0, <2>1 DEF Builds, File
  <2>3. file \in FileRecords /\ file.state = "schema" /\ FileSound(file) /\ file.writer = NoJob
    BY <1>a, <2>2 DEF FileRecords, FileSound
  <2> HIDE DEF file
  <2>4. /\ files' \in Seq(FileRecords) /\ Len(files') = Len(files)
        /\ files'[handle[j]] = file /\ FilesSound'
        /\ \A k \in Jobs \ {j} : Undisturbed(k)
    BY <2>1, <2>2, <2>3, BuilderSetsFile DEF File
  <2>5. Typed' /\ OthersKept(j)
    BY <1>0, <2>1, <2>4 DEF Typed, Stages, OthersKept
  <2>6. Builds(j)' /\ Locks(j)' /\ Adjudicates(j)'
    BY <1>0, <2>1, <2>2, <2>3, <2>4, RunsAssumption
       DEF Typed, Builds, Locks, Adjudicates, Collected, HasArgs, InTransaction, File
  <2> QED
    BY <2>4, <2>5, <2>6, StepIsSound
<1>5. CASE Load(j)
  <2> DEFINE file == [state |-> "loaded", rows |-> History, writer |-> files[handle[j]].writer]
  <2>1. /\ pc' = [pc EXCEPT ![j] = "done"] /\ pc[j] = "load"
        /\ files' = [files EXCEPT ![handle[j]] = file]
        /\ handle' = [handle EXCEPT ![j] = 0]
        /\ UNCHANGED <<path, args, memory>>
    BY <1>5 DEF Load
  <2>2. handle[j] # 0 /\ files[handle[j]].state = "schema" /\ j \in Builders
    BY <1>0, <2>1 DEF Builds, File
  <2>3. /\ file \in FileRecords /\ file.state = "loaded" /\ file.rows = History
        /\ file.writer = NoJob
    BY <1>a, <2>2 DEF FileRecords, FileSound, Rows
  <2>4. FileSound(file)
    BY <2>3 DEF FileSound, KeepsHistory, Whole
  <2> HIDE DEF file
  <2>5. /\ files' \in Seq(FileRecords) /\ Len(files') = Len(files)
        /\ FilesSound' /\ \A k \in Jobs \ {j} : Undisturbed(k)
        /\ \A f \in DOMAIN files' : files'[f].writer # j
    BY <2>1, <2>2, <2>3, <2>4, BuilderSetsFile DEF File
  <2>6. Typed' /\ OthersKept(j)
    BY <1>0, <2>1, <2>5 DEF Typed, Stages, Ended, OthersKept
  <2>7. Builds(j)' /\ Locks(j)' /\ Adjudicates(j)'
    BY <1>0, <2>1, <2>5 DEF Typed, Builds, Locks, Adjudicates, Collected, HasArgs, InTransaction
  <2> QED
    BY <2>5, <2>6, <2>7, StepIsSound
<1> QED
  BY <1>1, <1>2, <1>3, <1>4, <1>5

-----------------------------------------------------------------------------
(* adjudicate: the steps that leave the files alone. *)

LEMMA ReadingSound ==
    ASSUME Sound, NEW j \in Jobs,
           \/ StartAdjudicate(j) \/ Exists(j) \/ Connect(j) \/ ReadTables(j) \/ ReadBatch(j)
           \/ OpenExport(j)
    PROVE  Sound'
PROOF
<1> USE DEF Goto, memory
<1>0. Builds(j) /\ Locks(j) /\ Adjudicates(j) /\ Typed /\ FilesSound
  BY DEF Sound
<1>1. CASE StartAdjudicate(j)
  <2>1. PICK a \in RunBatches \X AsOfs : args' = [args EXCEPT ![j] = a]
    BY <1>1 DEF StartAdjudicate
  <2>2. /\ pc' = [pc EXCEPT ![j] = "exists"] /\ pc[j] \in Ended
        /\ UNCHANGED <<files, path, handle, memory>>
    BY <1>1 DEF StartAdjudicate, Started, Running
  <2>3. Typed' /\ FilesSound' /\ OthersKept(j)
    BY <1>0, <2>1, <2>2 DEF Typed, Stages, FilesSound, OthersKept, Undisturbed
  <2>4. Builds(j)' /\ Locks(j)' /\ Adjudicates(j)'
    BY <1>0, <2>1, <2>2 DEF Typed, Builds, Locks, Adjudicates, Collected, HasArgs, Ended, InTransaction, File
  <2> QED
    BY <2>3, <2>4, StepIsSound
<1>2. CASE Exists(j)
  <2>1. PICK stage \in {"refused", "connect"} : pc' = [pc EXCEPT ![j] = stage]
    BY <1>2 DEF Exists
  <2>2. pc[j] = "exists" /\ UNCHANGED <<files, path, args, handle, memory>>
    BY <1>2 DEF Exists
  <2>3. Typed' /\ FilesSound' /\ OthersKept(j)
    BY <1>0, <2>1, <2>2 DEF Typed, Stages, Ended, FilesSound, OthersKept, Undisturbed
  <2>4. Builds(j)' /\ Locks(j)' /\ Adjudicates(j)'
    BY <1>0, <2>1, <2>2 DEF Typed, Builds, Locks, Adjudicates, Collected, HasArgs, InTransaction, File
  <2> QED
    BY <2>3, <2>4, StepIsSound
<1>3. CASE Connect(j)
  <2>1. /\ pc' = [pc EXCEPT ![j] = "tables"] /\ pc[j] = "connect" /\ ConnectTo(j)
        /\ UNCHANGED <<args, memory>>
    BY <1>3 DEF Connect
  <2>2. /\ files' \in Seq(FileRecords) /\ path' \in 1 .. Len(files')
        /\ Len(files) =< Len(files')
        /\ handle' = [handle EXCEPT ![j] = path']
        /\ IF path = 0 THEN files'[path'] = EmptyFile
           ELSE path' = path /\ files'[path] = files[path]
    <3>1. path # 0 => path \in DOMAIN files
      BY <1>0 DEF Typed
    <3> QED
      BY <2>1, <3>1, ConnectEffect
  <2>3. FilesSound' /\ OthersKept(j)
    BY <1>0, <2>1, <2>2, ConnectKeepsOthers DEF OthersKept, Typed
  <2>4. Typed'
    BY <1>0, <2>1, <2>2 DEF Typed, Stages
  <2>5. \A f \in DOMAIN files' : files'[f].writer # j
    <3>1. \A f \in DOMAIN files : files[f].writer # j
      BY <2>1, OnlyClaimsLock
    <3>2. EmptyFile.writer # j
      BY RunsAssumption DEF EmptyFile
    <3> QED
      BY <2>1, <3>1, <3>2, ConnectEffect
  <2>6. Builds(j)' /\ Locks(j)' /\ Adjudicates(j)'
    BY <1>0, <2>1, <2>2, <2>5 DEF Typed, Builds, Locks, Adjudicates, Collected, HasArgs, InTransaction, File
  <2> QED
    BY <2>3, <2>4, <2>6, StepIsSound
<1>4. CASE ReadTables(j)
  <2>1. /\ pc' = [pc EXCEPT ![j] = "batch"] /\ pc[j] = "tables"
        /\ known' = [known EXCEPT ![j] = File(j).state = "loaded"]
        /\ UNCHANGED <<files, path, args, handle, todo, inHand, results, draft>>
    BY <1>4 DEF ReadTables
  <2>2. (File(j).state = "loaded") \in BOOLEAN
    OBVIOUS
  <2>3. Typed' /\ FilesSound' /\ OthersKept(j)
    BY <1>0, <2>1, <2>2 DEF Typed, Stages, FilesSound, OthersKept, Undisturbed
  <2>4. Builds(j)' /\ Locks(j)' /\ Adjudicates(j)'
    BY <1>0, <2>1 DEF Typed, Builds, Locks, Adjudicates, Collected, HasArgs, InTransaction, File
  <2> QED
    BY <2>3, <2>4, StepIsSound
<1>5. CASE ReadBatch(j)
  <2>1. PICK S \in {ClaimsOf(BatchOf(j)), {}} : todo' = [todo EXCEPT ![j] = S]
    BY <1>5 DEF ReadBatch
  <2>2. /\ pc' = [pc EXCEPT ![j] = "claims"] /\ pc[j] = "batch"
        /\ UNCHANGED <<files, path, args, handle, known, inHand, results, draft>>
    BY <1>5 DEF ReadBatch
  <2>3. S \in SUBSET ClaimIds
    BY DEF ClaimsOf
  <2>4. Typed' /\ FilesSound' /\ OthersKept(j)
    BY <1>0, <2>1, <2>2, <2>3 DEF Typed, Stages, FilesSound, OthersKept, Undisturbed
  <2>5. /\ todo'[j] = S /\ inHand'[j] = {} /\ BatchOf(j)' = BatchOf(j)
        /\ ~InTransaction(j)' /\ pc'[j] = "claims"
    BY <1>0, <2>1, <2>2 DEF Typed, Adjudicates, BatchOf, InTransaction, File
  <2>6. S # {} => Recorded(j)' = {}
    BY <2>1, <2>5 DEF Recorded
  <2>7. Builds(j)' /\ Locks(j)' /\ Adjudicates(j)'
    BY <1>0, <2>1, <2>2, <2>5, <2>6 DEF Builds, Locks, Adjudicates, Collected, HasArgs, File, Typed
  <2> QED
    BY <2>4, <2>7, StepIsSound
<1>6. CASE OpenExport(j)
  <2>1. /\ pc' = [pc EXCEPT ![j] = "close"] /\ pc[j] = "open"
        /\ UNCHANGED <<files, path, args, handle, memory>>
    BY <1>6 DEF OpenExport
  <2>2. Typed' /\ FilesSound' /\ OthersKept(j)
    BY <1>0, <2>1 DEF Typed, Stages, FilesSound, OthersKept, Undisturbed
  <2>3. Builds(j)' /\ Locks(j)' /\ Adjudicates(j)'
    BY <1>0, <2>1 DEF Typed, Builds, Locks, Adjudicates, Collected, HasArgs, InTransaction, File
  <2> QED
    BY <2>2, <2>3, StepIsSound
<1> QED
  BY <1>1, <1>2, <1>3, <1>4, <1>5, <1>6

-----------------------------------------------------------------------------
(* adjudicate: the claims of the batch, and the commit. *)

(* A claim of the batch is looked up with the history alone in sight. *)
LEMMA SeenPrior ==
    ASSUME Sound, NEW j \in Jobs, pc[j] = "claims", known[j], NEW c \in ClaimsOf(BatchOf(j))
    PROVE  PriorActivity(RowsSeen(j), c, BatchOf(j)) = Prior(c)
PROOF
<1>0. Adjudicates(j) /\ FilesSound /\ draft[j] \in SUBSET Rows
  BY DEF Sound, Typed
<1>1. handle[j] \in DOMAIN files /\ File(j) \in FileRecords /\ File(j).state = "loaded"
  BY <1>0 DEF Sound, Typed, Adjudicates, File
<1>2. c \in ClaimIds /\ Claim[c].batch = BatchOf(j)
  BY DEF ClaimsOf
<1>3. File(j).rows \in SUBSET Rows /\ KeepsHistory(File(j).rows)
  BY <1>0, <1>1 DEF FilesSound, FileSound, FileRecords, File
<1>4. CASE ~InTransaction(j)
  BY <1>2, <1>3, <1>4, PriorIsHistory DEF RowsSeen
<1>5. CASE InTransaction(j)
  <2>1. \A p \in History : Own(p) \/ p \in draft[j]
    BY <1>0, <1>3, <1>5 DEF Adjudicates, Drafted, KeepsHistory, Own, ClaimsOf
  <2> QED
    BY <1>0, <1>2, <1>5, <2>1, PriorIsHistory DEF RowsSeen, KeepsHistory
<1> QED
  BY <1>4, <1>5

LEMMA AdjudicateSound ==
    ASSUME Sound, NEW j \in Jobs, AdjudicateNext(j)
    PROVE  Sound'
PROOF
<1>0. Builds(j) /\ Locks(j) /\ Adjudicates(j) /\ Typed /\ FilesSound
  BY DEF Sound
<1> DEFINE c == Min(todo[j])
<1>1. /\ pc[j] = "claims" /\ inHand[j] = {} /\ todo[j] # {} /\ known[j]
      /\ inHand' = [inHand EXCEPT ![j] =
                {Adjudicate(c, PriorActivity(RowsSeen(j), c, BatchOf(j)), AsOf(j))}]
      /\ todo' = [todo EXCEPT ![j] = @ \ {c}]
      /\ UNCHANGED <<files, path, pc, args, handle, known, results, draft>>
  BY DEF AdjudicateNext
<1>2. c \in todo[j]
  <2>1. todo[j] \subseteq Nat
    BY <1>0, ShippedAssumption DEF Typed
  <2> QED
    BY <1>1, <2>1, LeastNatural
<1> HIDE DEF c
<1>3. c \in ClaimsOf(BatchOf(j)) /\ c \in ClaimIds
  BY <1>0, <1>2 DEF Adjudicates, ClaimsOf
<1>4. inHand' = [inHand EXCEPT ![j] = {Result(c, AsOf(j))}]
  BY <1>1, <1>3, SeenPrior DEF Result
<1>5. AsOf(j) \in AsOfs
  BY <1>0, <1>1 DEF Adjudicates, Collected, HasArgs, AsOf
<1>6. Result(c, AsOf(j)) \in ResultsOf /\ Result(c, AsOf(j)).claim = c
  <2>1. c \in Payable
    BY <1>3 DEF AdjudicateNext, Payable, c
  <2> QED
    BY <1>5, <2>1, ResultClaim DEF ResultsOf
<1>7. Typed' /\ FilesSound' /\ OthersKept(j)
  <2>1. {Result(c, AsOf(j))} \in SUBSET ResultsOf /\ todo[j] \ {c} \in SUBSET ClaimIds
    BY <1>0, <1>6 DEF Typed
  <2>2. Typed'
    BY <1>0, <1>1, <1>4, <2>1 DEF Typed
  <2> QED
    BY <1>0, <1>1, <1>4, <2>2 DEF Typed, FilesSound, OthersKept, Undisturbed
<1>8. /\ todo'[j] = todo[j] \ {c} /\ inHand'[j] = {Result(c, AsOf(j))}
      /\ BatchOf(j)' = BatchOf(j) /\ AsOf(j)' = AsOf(j)
      /\ InTransaction(j)' <=> InTransaction(j)
      /\ File(j)' = File(j)
  BY <1>0, <1>1, <1>4 DEF Typed, BatchOf, AsOf, InTransaction, File
<1>9. Recorded(j)' = Recorded(j)
  BY <1>1, <1>2, <1>6, <1>8 DEF Recorded
<1>10. InTransaction(j) => Drafted(j)'
  BY <1>0, <1>1, <1>8, <1>9 DEF Adjudicates, Drafted
<1>11. Builds(j)' /\ Locks(j)' /\ Adjudicates(j)'
  BY <1>0, <1>1, <1>3, <1>6, <1>8, <1>9, <1>10 DEF Builds, Locks, Adjudicates, Collected, HasArgs
<1> QED
  BY <1>7, <1>11, StepIsSound

(* The write lock alone changes in the file. *)
LEMMA LockEffect ==
    ASSUME Sound, NEW j \in Jobs, handle[j] # 0, File(j).state = "loaded",
           File(j).writer \in {NoJob, j},
           files' = [files EXCEPT ![handle[j]].writer = j], path' = path, handle' = handle
    PROVE  /\ files' \in Seq(FileRecords) /\ Len(files') = Len(files)
           /\ InTransaction(j)' /\ File(j)'.state = "loaded" /\ File(j)'.rows = File(j).rows
           /\ FilesSound' /\ Locks(j)' /\ \A k \in Jobs \ {j} : Undisturbed(k)
           /\ \A f \in DOMAIN files : files'[f].rows = files[f].rows
PROOF
<1> DEFINE file == [files[handle[j]] EXCEPT !.writer = j]
<1>1. /\ files \in Seq(FileRecords) /\ handle[j] \in DOMAIN files
      /\ files[handle[j]] \in FileRecords /\ FileSound(files[handle[j]])
  BY DEF Sound, Typed, FilesSound
<1>2. /\ file \in FileRecords /\ file.writer = j
      /\ file.state = "loaded" /\ file.rows = files[handle[j]].rows
  BY <1>1 DEF FileRecords, File
<1>3. files' = [files EXCEPT ![handle[j]] = file]
  OBVIOUS
<1> HIDE DEF file
<1>4. /\ files' \in Seq(FileRecords) /\ Len(files') = Len(files) /\ DOMAIN files' = DOMAIN files
      /\ \A f \in DOMAIN files : files'[f] = IF f = handle[j] THEN file ELSE files[f]
  BY <1>1, <1>2, <1>3, FileUpdate
<1>5. FilesSound'
  <2>1. FileSound(file)
    BY <1>1, <1>2 DEF FileSound, File
  <2> QED
    BY <1>4, <2>1 DEF Sound, FilesSound
<1>6. ASSUME NEW k \in Jobs \ {j}
      PROVE  Undisturbed(k)
  <2>1. handle[k] # 0 => handle[k] \in DOMAIN files
    BY DEF Sound, Typed
  <2>2. path # 0 => path \in DOMAIN files
    BY DEF Sound, Typed
  <2> QED
    BY <1>1, <1>2, <1>4, <2>1, <2>2, RunsAssumption DEF Undisturbed, File
<1>7. Locks(j)'
  BY <1>1, <1>4 DEF Sound, Locks
<1> QED
  BY <1>1, <1>2, <1>4, <1>5, <1>6, <1>7 DEF InTransaction, File

LEMMA RecordSound ==
    ASSUME Sound, NEW j \in Jobs, RecordPayment(j)
    PROVE  Sound'
PROOF
<1>0. Builds(j) /\ Locks(j) /\ Adjudicates(j) /\ Typed /\ FilesSound
  BY DEF Sound
<1>1. PICK res \in inHand[j] :
        /\ draft' = [draft EXCEPT ![j] = Record(RowsSeen(j), PaymentOf(res, BatchOf(j), AsOf(j)))]
        /\ results' = [results EXCEPT ![j] = @ \cup {res}]
  BY DEF RecordPayment
<1>2. /\ pc[j] = "claims" /\ File(j).writer \in {NoJob, j}
      /\ inHand' = [inHand EXCEPT ![j] = {}]
      /\ files' = [files EXCEPT ![handle[j]].writer = j]
      /\ UNCHANGED <<path, pc, args, handle, todo, known>>
  BY DEF RecordPayment
<1> DEFINE c == res.claim
           a == AsOf(j)
           seen == RowsSeen(j)
           new == Record(seen, Settlement(c, a))
<1>3. /\ known[j] /\ inHand[j] = {res} /\ c \notin todo[j]
      /\ c \in ClaimsOf(BatchOf(j)) /\ res = Result(c, a)
      /\ handle[j] # 0 /\ File(j).state = "loaded"
  BY <1>0, <1>1 DEF Adjudicates
<1>4. c \in Payable /\ Claim[c].batch = BatchOf(j)
  <2>1. PICK d \in Payable, b \in AsOfs : res = Result(d, b)
    BY <1>0, <1>1 DEF Typed, ResultsOf
  <2> QED
    BY <1>3, <2>1, ResultClaim DEF ClaimsOf
<1>5. a \in AsOfs
  BY <1>0, <1>2 DEF Adjudicates, Collected, HasArgs, AsOf
<1>6. /\ seen \in SUBSET Rows /\ Repeats(File(j).rows, seen)
      /\ \A p : ~ (p.batch = BatchOf(j) /\ p.claim \in ClaimsOf(BatchOf(j)))
                => (p \in seen <=> p \in File(j).rows)
  <2>1. CASE InTransaction(j)
    BY <1>0, <2>1 DEF RowsSeen, Typed, Adjudicates, Drafted
  <2>2. CASE ~InTransaction(j)
    <3>1. seen = File(j).rows
      BY <2>2 DEF RowsSeen
    <3>2. files[handle[j]] \in FileRecords
      BY <1>0, <1>3 DEF Typed
    <3> QED
      BY <3>1, <3>2 DEF File, FileRecords, Repeats
  <2> QED
    BY <2>1, <2>2
<1>7. \A d \in Recorded(j) : SettledAsOf(seen, d, a)
  <2>1. CASE InTransaction(j)
    BY <1>0, <2>1 DEF RowsSeen, Adjudicates, Drafted
  <2>2. CASE ~InTransaction(j)
    BY <1>0, <1>1, <2>2 DEF Adjudicates
  <2> QED
    BY <2>1, <2>2
<1> HIDE DEF seen
<1>8. /\ new \in SUBSET Rows /\ SettledAsOf(new, c, a) /\ Repeats(seen, new)
      /\ \A p : ~ (p.claim = c /\ p.batch = Claim[c].batch) => (p \in new <=> p \in seen)
  BY <1>4, <1>5, <1>6, RecordedRows
<1>9. draft' = [draft EXCEPT ![j] = new]
  BY <1>1, <1>3, <1>4 DEF Settlement, seen
<1> HIDE DEF new
<1>10. /\ files' \in Seq(FileRecords) /\ Len(files') = Len(files)
       /\ InTransaction(j)' /\ File(j)'.state = "loaded" /\ File(j)'.rows = File(j).rows
       /\ FilesSound' /\ Locks(j)' /\ \A k \in Jobs \ {j} : Undisturbed(k)
  BY <1>2, <1>3, LockEffect
<1>11. Typed' /\ OthersKept(j)
  <2>1. results[j] \cup {res} \in SUBSET ResultsOf
    BY <1>0, <1>1 DEF Typed
  <2>2. Typed'
    BY <1>0, <1>1, <1>2, <1>8, <1>9, <1>10, <2>1 DEF Typed
  <2> QED
    BY <1>0, <1>1, <1>2, <1>9, <1>10, <2>2 DEF OthersKept, Typed
<1>12. /\ draft'[j] = new /\ inHand'[j] = {} /\ todo'[j] = todo[j]
       /\ results'[j] = results[j] \cup {res}
       /\ BatchOf(j)' = BatchOf(j) /\ AsOf(j)' = a
  BY <1>0, <1>1, <1>2, <1>9 DEF Typed, BatchOf, AsOf
<1>13. Recorded(j)' = Recorded(j) \cup {c}
  BY <1>3, <1>12 DEF Recorded
<1>14. \A d \in Recorded(j)' : SettledAsOf(new, d, a)
  <2>1. TAKE d \in Recorded(j)'
  <2>2. CASE d = c
    BY <1>8, <2>2
  <2>3. CASE d # c
    <3>1. SettledAsOf(seen, d, a)
      BY <1>7, <1>13, <2>3
    <3>2. Settlement(d, a).claim = d
      BY SettlementFields
    <3> QED
      BY <1>8, <2>3, <3>1, <3>2 DEF SettledAsOf
  <2> QED
    BY <2>2, <2>3
<1>15. Drafted(j)'
  <2>1. \A p : ~ (p.batch = BatchOf(j) /\ p.claim \in ClaimsOf(BatchOf(j)))
              => (p \in new <=> p \in File(j).rows)
    BY <1>3, <1>4, <1>6, <1>8
  <2>2. Repeats(File(j).rows, new)
    BY <1>6, <1>8, RepeatsRepeats
  <2> QED
    BY <1>10, <1>12, <1>14, <2>1, <2>2 DEF Drafted
<1>16. Builds(j)' /\ Adjudicates(j)'
  <2>1. /\ pc'[j] = "claims" /\ handle'[j] # 0 /\ known'[j] = known[j] /\ args'[j] = args[j]
    BY <1>2, <1>3
  <2>2. results[j] = {Result(d, a) : d \in Recorded(j)}
    <3>1. CASE InTransaction(j)
      BY <1>0, <3>1 DEF Adjudicates, Collected
    <3>2. CASE ~InTransaction(j)
      <4>1. results[j] = {} /\ Recorded(j) = {}
        BY <1>0, <1>1, <1>2, <3>2 DEF Adjudicates, Collected
      <4> QED
        BY <4>1
    <3> QED
      BY <3>1, <3>2
  <2>3. Collected(j)'
    <3>1. results'[j] = {Result(d, a) : d \in Recorded(j) \cup {c}}
      BY <1>3, <1>12, <2>2
    <3> QED
      BY <1>10, <1>12, <1>13, <3>1 DEF Collected
  <2> QED
    BY <1>0, <1>2, <1>3, <1>10, <1>12, <1>15, <2>1, <2>3 DEF Builds, Adjudicates, HasArgs
<1> QED
  BY <1>10, <1>11, <1>16, StepIsSound

(* What a transaction of every claim of the batch makes of the table. *)
LEMMA DraftIsWhole ==
    ASSUME Sound, NEW j \in Jobs, InTransaction(j), todo[j] = {}, inHand[j] = {}
    PROVE  KeepsHistory(draft[j]) /\ Whole(draft[j])
PROOF
<1>0. Adjudicates(j) /\ Typed /\ FilesSound
  BY DEF Sound
<1>1. handle[j] \in DOMAIN files /\ File(j) \in FileRecords /\ Drafted(j) /\ pc[j] = "claims"
  BY <1>0 DEF Typed, Adjudicates, InTransaction, File
<1>2. KeepsHistory(File(j).rows) /\ Whole(File(j).rows)
  BY <1>0, <1>1 DEF FilesSound, FileSound, Drafted, File
<1>3. KeepsHistory(draft[j])
  BY <1>1, <1>2 DEF KeepsHistory, Own, Drafted, ClaimsOf
<1>4. ASSUME NEW p \in draft[j] \ History
      PROVE  \E a \in AsOfs : \A c \in ClaimsOf(p.batch) : SettledAsOf(draft[j], c, a)
  <2>1. CASE p.batch = BatchOf(j)
    <3>1. AsOf(j) \in AsOfs
      BY <1>0, <1>1 DEF Adjudicates, Collected, HasArgs, AsOf
    <3>2. Recorded(j) = ClaimsOf(p.batch)
      BY <2>1 DEF Recorded
    <3> QED
      BY <1>1, <3>1, <3>2 DEF Drafted
  <2>2. CASE p.batch # BatchOf(j)
    <3>1. \A q : q.batch = p.batch => (q \in draft[j] <=> q \in File(j).rows)
      BY <1>1, <2>2 DEF Drafted
    <3>2. PICK a \in AsOfs : \A c \in ClaimsOf(p.batch) : SettledAsOf(File(j).rows, c, a)
      BY <1>2, <3>1 DEF Whole
    <3>3. ASSUME NEW c \in ClaimsOf(p.batch)
          PROVE  SettledAsOf(draft[j], c, a)
      <4>1. Claim[c].batch = p.batch /\ Settlement(c, a).batch = Claim[c].batch
        BY SettlementFields DEF ClaimsOf
      <4> QED
        BY <3>1, <3>2, <4>1 DEF SettledAsOf
    <3> QED
      BY <3>3
  <2> QED
    BY <2>1, <2>2
<1> QED
  BY <1>3, <1>4 DEF Whole

LEMMA CommitEffect ==
    ASSUME Sound, NEW j \in Jobs, Commit(j)
    PROVE  /\ files' \in Seq(FileRecords) /\ Len(files') = Len(files)
           /\ ~InTransaction(j)' /\ (handle[j] # 0 => File(j)'.state = File(j).state)
           /\ FilesSound' /\ Locks(j)' /\ \A k \in Jobs \ {j} : Undisturbed(k)
           /\ \A f \in DOMAIN files : Repeats(files[f].rows, files'[f].rows)
PROOF
<1>0. Locks(j) /\ Adjudicates(j) /\ Typed /\ FilesSound
  BY DEF Sound
<1>1. /\ todo[j] = {} /\ inHand[j] = {}
      /\ UNCHANGED <<path, handle>>
  BY DEF Commit
<1>2. \A f \in DOMAIN files : Repeats(files[f].rows, files[f].rows)
  BY DEF Repeats
<1>3. CASE ~InTransaction(j)
  <2>1. files' = files
    BY <1>3 DEF Commit
  <2> QED
    BY <1>0, <1>1, <1>2, <1>3, <2>1
       DEF Typed, FilesSound, Locks, Undisturbed, InTransaction, File
<1>4. CASE InTransaction(j)
  <2> DEFINE file == [state |-> files[handle[j]].state, rows |-> draft[j], writer |-> NoJob]
  <2>1. files' = [files EXCEPT ![handle[j]] = file]
    BY <1>4 DEF Commit
  <2>2. /\ files \in Seq(FileRecords) /\ handle[j] \in DOMAIN files
        /\ files[handle[j]] \in FileRecords /\ files[handle[j]].writer = j
        /\ Drafted(j)
    BY <1>0, <1>4 DEF Typed, InTransaction, File, Adjudicates
  <2>3. /\ file \in FileRecords /\ file.state = files[handle[j]].state
        /\ file.rows = draft[j] /\ file.writer = NoJob
    BY <1>0, <2>2 DEF FileRecords, Typed
  <2>4. FileSound(file)
    BY <1>1, <1>4, <2>2, <2>3, DraftIsWhole DEF FileSound, Drafted, File
  <2> HIDE DEF file
  <2>5. /\ files' \in Seq(FileRecords) /\ Len(files') = Len(files) /\ DOMAIN files' = DOMAIN files
        /\ \A f \in DOMAIN files : files'[f] = IF f = handle[j] THEN file ELSE files[f]
    BY <2>1, <2>2, <2>3, FileUpdate
  <2>6. FilesSound'
    BY <1>0, <2>4, <2>5 DEF FilesSound
  <2>7. ASSUME NEW k \in Jobs \ {j}
        PROVE  Undisturbed(k)
    <3>1. handle[k] # 0 => handle[k] \in DOMAIN files
      BY <1>0 DEF Typed
    <3>2. path # 0 => path \in DOMAIN files
      BY <1>0 DEF Typed
    <3> QED
      BY <1>1, <2>2, <2>3, <2>5, <3>1, <3>2, RunsAssumption DEF Undisturbed
  <2>8. Locks(j)' /\ ~InTransaction(j)'
    BY <1>0, <1>1, <2>2, <2>3, <2>5, RunsAssumption DEF Locks, InTransaction, File
  <2>9. \A f \in DOMAIN files : Repeats(files[f].rows, files'[f].rows)
    BY <1>2, <2>2, <2>3, <2>5 DEF Drafted, File
  <2>10. File(j)'.state = File(j).state
    BY <1>1, <2>2, <2>3, <2>5 DEF File
  <2> QED
    BY <2>5, <2>6, <2>7, <2>8, <2>9, <2>10
<1> QED
  BY <1>3, <1>4

LEMMA CommitSound ==
    ASSUME Sound, NEW j \in Jobs, Commit(j)
    PROVE  Sound'
PROOF
<1>0. Builds(j) /\ Adjudicates(j) /\ Typed
  BY DEF Sound
<1>1. /\ pc[j] = "claims" /\ inHand[j] = {} /\ todo[j] = {}
      /\ draft' = [draft EXCEPT ![j] = {}] /\ pc' = [pc EXCEPT ![j] = "open"]
      /\ UNCHANGED <<path, args, handle, todo, known, inHand, results>>
  BY DEF Commit, Goto
<1>2. /\ files' \in Seq(FileRecords) /\ Len(files') = Len(files)
      /\ ~InTransaction(j)' /\ (handle[j] # 0 => File(j)'.state = File(j).state)
      /\ FilesSound' /\ Locks(j)' /\ \A k \in Jobs \ {j} : Undisturbed(k)
  BY CommitEffect
<1>3. Typed' /\ OthersKept(j)
  BY <1>0, <1>1, <1>2 DEF Typed, Stages, OthersKept
<1>4. Builds(j)' /\ Adjudicates(j)'
  BY <1>0, <1>1, <1>2 DEF Builds, Adjudicates, Collected, HasArgs, Typed, BatchOf
<1> QED
  BY <1>2, <1>3, <1>4, StepIsSound

-----------------------------------------------------------------------------

LEMMA NextSound == Sound /\ [Next]_vars => Sound'
PROOF
<1> SUFFICES ASSUME Sound, [Next]_vars
             PROVE  Sound'
  OBVIOUS
<1>1. CASE UNCHANGED <<files, path, pc, args, handle, memory>>
  <2>1. Typed' /\ FilesSound'
    BY <1>1 DEF memory, Sound, Typed, FilesSound
  <2>2. ASSUME NEW k \in Jobs
        PROVE  Builds(k)' /\ Locks(k)' /\ Adjudicates(k)'
    <3>1. Undisturbed(k)
      BY <1>1 DEF Undisturbed
    <3> QED
      BY <1>1, <3>1, OtherJobs DEF memory
  <2> QED
    BY <2>1, <2>2 DEF Sound
<1>2. ASSUME NEW j \in Jobs, StartBuild(j) \/ StartAdjudicate(j) \/ JobStep(j) \/ Kill(j)
      PROVE  Sound'
  <2>1. CASE StartBuild(j) \/ Unlink(j) \/ Create(j) \/ InitSchema(j) \/ Load(j)
    BY <2>1, BuildSound
  <2>2. CASE \/ StartAdjudicate(j) \/ Exists(j) \/ Connect(j) \/ ReadTables(j) \/ ReadBatch(j)
             \/ OpenExport(j)
    BY <2>2, ReadingSound
  <2>3. CASE NoSuchTable(j) \/ AdjudicateRaises(j) \/ LockTimeout(j) \/ CloseExport(j) \/ Kill(j)
    <3>1. \E how \in Ended : End(j, how)
      BY <2>3 DEF NoSuchTable, AdjudicateRaises, LockTimeout, CloseExport, Kill, Ended
    <3> QED
      BY <3>1, EndSound
  <2>4. CASE AdjudicateNext(j)
    BY <2>4, AdjudicateSound
  <2>5. CASE RecordPayment(j)
    BY <2>5, RecordSound
  <2>6. CASE Commit(j)
    BY <2>6, CommitSound
  <2>7. CASE FlushExport(j)
    BY <1>1, <2>7 DEF FlushExport
  <2> QED
    BY <1>2, <2>1, <2>2, <2>3, <2>4, <2>5, <2>6, <2>7 DEF JobStep
<1> QED
  BY <1>1, <1>2 DEF Next, vars

LEMMA AlwaysSound == Spec => []Sound
PROOF
  BY InitSound, NextSound, PTL DEF Spec

(***************************************************************************)
(* A batch is in a database with a record for each of its claims, all of   *)
(* one run, or with none of its own: for any number of shells that         *)
(* adjudicate, are killed or raise, with a build-db beside them            *)
(* (run_batch, and the transaction sqlite3 begins at the first INSERT).    *)
(***************************************************************************)
THEOREM BatchesSettleWhole == Spec => []BatchSettlesWhole
PROOF
<1>1. Sound => BatchSettlesWhole
  <2> SUFFICES ASSUME Sound, NEW f \in DOMAIN files, NEW b \in Batches,
                      NEW r \in Produced(f, b), r \notin History
               PROVE  /\ {p.claim : p \in Produced(f, b)} = ClaimsOf(b)
                      /\ \A p, q \in Produced(f, b) : p.paymentDate = q.paymentDate
    BY DEF BatchSettlesWhole
  <2>1. files[f] \in FileRecords /\ FileSound(files[f])
    BY DEF Sound, Typed, FilesSound
  <2>2. r \in files[f].rows /\ r.batch = b
    BY DEF Produced
  <2>3. Whole(files[f].rows) /\ files[f].rows \subseteq Rows
    BY <2>1, <2>2 DEF FileSound, FileRecords
  <2>4. PICK a \in AsOfs : \A c \in ClaimsOf(b) : SettledAsOf(files[f].rows, c, a)
    BY <2>2, <2>3 DEF Whole
  <2>5. ASSUME NEW p \in Produced(f, b)
        PROVE  p.claim \in ClaimsOf(b) /\ p.paymentDate = a
    <3>1. p \in files[f].rows /\ p.batch = b /\ (p \in History => p.claim \in ClaimsOf(b))
      BY DEF Produced
    <3>2. p.claim \in ClaimsOf(b)
      BY <2>3, <3>1, OtherRowsAreHistory DEF Own, ClaimsOf
    <3> QED
      BY <2>4, <3>1, <3>2 DEF SettledAsOf, ClaimsOf
  <2>6. ASSUME NEW c \in ClaimsOf(b)
        PROVE  \E p \in Produced(f, b) : p.claim = c
    <3>1. /\ Settlement(c, a) \in files[f].rows
          /\ Settlement(c, a).claim = c /\ Settlement(c, a).batch = b
      BY <2>4, SettlementFields DEF SettledAsOf, ClaimsOf
    <3> QED
      BY <3>1 DEF Produced
  <2> QED
    BY <2>5, <2>6
<1> QED
  BY <1>1, AlwaysSound, PTL

(* No step takes a record out of a table or settles a claim otherwise. *)
LEMMA TablesRepeat ==
    ASSUME Sound, [Next]_vars
    PROVE  \A f \in DOMAIN files : Repeats(files[f].rows, files'[f].rows)
PROOF
<1>1. (\A f \in DOMAIN files : files'[f].rows = files[f].rows)
        => \A f \in DOMAIN files : Repeats(files[f].rows, files'[f].rows)
  BY DEF Repeats
<1>2. CASE UNCHANGED vars
  BY <1>1, <1>2 DEF vars
<1>3. ASSUME NEW j \in Jobs, StartBuild(j) \/ StartAdjudicate(j) \/ JobStep(j) \/ Kill(j)
      PROVE  \A f \in DOMAIN files : Repeats(files[f].rows, files'[f].rows)
  <2>0. Builds(j) /\ Adjudicates(j) /\ Typed /\ FilesSound
    BY DEF Sound
  <2>1. CASE \/ StartBuild(j) \/ Unlink(j) \/ StartAdjudicate(j) \/ Exists(j)
             \/ ReadTables(j) \/ ReadBatch(j) \/ OpenExport(j) \/ FlushExport(j)
             \/ AdjudicateNext(j)
    BY <1>1, <2>1 DEF StartBuild, Unlink, StartAdjudicate, Exists, ReadTables, ReadBatch,
                      OpenExport, FlushExport, AdjudicateNext
  <2>2. CASE Create(j) \/ Connect(j)
    BY <1>1, <2>2, ConnectEffect DEF Create, Connect
  <2>3. CASE InitSchema(j) \/ Load(j)
    <3>1. handle[j] # 0 /\ File(j).state # "loaded"
      BY <2>0, <2>3 DEF Builds, InitSchema, Load
    <3>2. handle[j] \in DOMAIN files /\ files[handle[j]].rows = {}
      BY <2>0, <3>1 DEF Typed, FilesSound, FileSound, File
    <3>3. \A f \in DOMAIN files : f # handle[j] => files'[f] = files[f]
      BY <2>0, <2>3 DEF InitSchema, Load, Typed
    <3> QED
      BY <3>2, <3>3 DEF Repeats
  <2>4. CASE NoSuchTable(j) \/ AdjudicateRaises(j) \/ LockTimeout(j) \/ CloseExport(j) \/ Kill(j)
    <3>1. files' = IF InTransaction(j) THEN [files EXCEPT ![handle[j]].writer = NoJob] ELSE files
      BY <2>4 DEF NoSuchTable, AdjudicateRaises, LockTimeout, CloseExport, Kill, End
    <3> QED
      BY <1>1, <3>1, ReleaseEffect
  <2>5. CASE RecordPayment(j)
    <3>1. /\ inHand[j] # {} /\ File(j).writer \in {NoJob, j}
          /\ files' = [files EXCEPT ![handle[j]].writer = j] /\ path' = path /\ handle' = handle
      BY <2>5 DEF RecordPayment
    <3>2. handle[j] # 0 /\ File(j).state = "loaded"
      BY <2>0, <3>1 DEF Adjudicates
    <3> QED
      BY <1>1, <3>1, <3>2, LockEffect
  <2>6. CASE Commit(j)
    BY <2>6, CommitEffect
  <2> QED
    BY <1>3, <2>1, <2>2, <2>3, <2>4, <2>5, <2>6 DEF JobStep
<1> QED
  BY <1>2, <1>3 DEF Next

(***************************************************************************)
(* No step takes a record out of a database, and a claim settled again has *)
(* the version, indemnity and deductible it had, whatever was adjudicated  *)
(* in between (prior_activity, record_payment).                            *)
(***************************************************************************)
THEOREM RerunsRepeat == Spec => RerunRepeats
PROOF
<1>1. Sound /\ Sound' /\ [Next]_vars =>
        \A f \in DOMAIN files : \A p \in files[f].rows :
            \E q \in files'[f].rows :
                /\ q.claim = p.claim /\ q.batch = p.batch
                /\ p \in History \/ SameSettlement(p, q)
  <2> SUFFICES ASSUME Sound, [Next]_vars, NEW f \in DOMAIN files, NEW p \in files[f].rows
               PROVE  \E q \in files'[f].rows :
                            /\ q.claim = p.claim /\ q.batch = p.batch
                            /\ p \in History \/ SameSettlement(p, q)
    OBVIOUS
  <2>1. PICK q \in files'[f].rows :
            /\ q.claim = p.claim /\ q.batch = p.batch
            /\ p \in Settlements => q \in Settlements
    BY TablesRepeat DEF Repeats
  <2>2. p \in Rows
    <3>1. files[f] \in FileRecords
      BY DEF Sound, Typed
    <3> QED
      BY <3>1 DEF FileRecords
  <2>3. CASE p \in History
    BY <2>1, <2>3
  <2>4. CASE p \in Settlements
    <3>1. PICK c \in Payable, a \in AsOfs : p = Settlement(c, a)
      BY <2>4 DEF Settlements
    <3>2. PICK d \in Payable, b \in AsOfs : q = Settlement(d, b)
      BY <2>1, <2>4 DEF Settlements
    <3>3. c = d
      BY <2>1, <3>1, <3>2, SettlementFields
    <3>4. SameSettlement(p, q)
      BY <3>1, <3>2, <3>3, SettlementsAgree
    <3> QED
      BY <2>1, <3>4
  <2> QED
    BY <2>2, <2>3, <2>4 DEF Rows
<1>2. Sound /\ Sound' /\ [Next]_vars =>
        [\A f \in DOMAIN files : \A p \in files[f].rows :
            \E q \in files'[f].rows :
                /\ q.claim = p.claim /\ q.batch = p.batch
                /\ p \in History \/ SameSettlement(p, q)]_vars
  BY <1>1
<1> QED
  BY <1>2, AlwaysSound, PTL DEF Spec, RerunRepeats

(***************************************************************************)
(* Every amount that is recorded or exported is one, no result is held     *)
(* back behind another, and a write lock is its holder's connection's, for *)
(* every portfolio (adjudicate, round_cents, clamp_non_negative,           *)
(* add_business_days, record_payment).                                     *)
(***************************************************************************)
THEOREM ShippedTypes == Spec => []TypeOK
PROOF
<1>1. Sound => TypeOK
  <2> SUFFICES ASSUME Sound
               PROVE  TypeOK
    OBVIOUS
  <2>1. Typed /\ FilesSound /\ \A j \in Jobs : Locks(j) /\ Adjudicates(j)
    BY DEF Sound
  <2>2. ASSUME NEW f \in DOMAIN files
        PROVE  /\ files[f].state \in {"empty", "schema", "loaded"}
               /\ \A p \in files[f].rows : IsRecord(p)
               /\ files[f].writer \in Jobs => handle[files[f].writer] = f
    <3>1. files[f] \in FileRecords
      BY <2>1 DEF Typed
    <3>2. files[f].state \in {"empty", "schema", "loaded"} /\ files[f].rows \subseteq Rows
      BY <3>1 DEF FileRecords
    <3>3. files[f].writer \in Jobs => handle[files[f].writer] = f
      BY <2>1 DEF Locks
    <3> QED
      BY <3>2, <3>3, RowsAreRecords
  <2>3. ASSUME NEW j \in Jobs
        PROVE  /\ todo[j] \subseteq ClaimIds /\ Cardinality(inHand[j]) <= 1
               /\ draft[j] # {} => InTransaction(j)
               /\ \A res \in results[j] \cup inHand[j] : res.reduction \in Nat /\ res.daysLate \in Nat
    <3>1. /\ todo[j] \subseteq ClaimIds /\ results[j] \subseteq ResultsOf /\ inHand[j] \subseteq ResultsOf
          /\ draft[j] # {} => InTransaction(j)
          /\ \A res \in inHand[j] : inHand[j] = {res}
      BY <2>1 DEF Typed, Adjudicates
    <3>2. Cardinality(inHand[j]) <= 1
      <4>1. CASE inHand[j] = {}
        BY <4>1, FS_EmptySet
      <4>2. ASSUME NEW res \in inHand[j]
            PROVE  Cardinality(inHand[j]) = 1
        BY <3>1, FS_Singleton
      <4> QED
        BY <4>1, <4>2
    <3>3. \A res \in ResultsOf : res.reduction \in Nat /\ res.daysLate \in Nat
      BY ResultAmounts DEF ResultsOf
    <3> QED
      BY <3>1, <3>2, <3>3
  <2> QED
    BY <2>1, <2>2, <2>3 DEF TypeOK, Typed, Stages
<1> QED
  BY <1>1, AlwaysSound, PTL

-----------------------------------------------------------------------------
(* The exports: a second invariant, on top of the first. *)

Export == {Absent, Truncated, Mixed} \cup {Written(rows) : rows \in SUBSET ResultsOf}

(* Some database has a settlement of every claim of the batch. *)
Settled(b) ==
    \E f \in DOMAIN files : \A c \in ClaimsOf(b) :
        \E p \in files[f].rows : p.claim = c /\ p.batch = b /\ p \in Settlements

ResultsOfBatch(b) == {{Result(c, a) : c \in ClaimsOf(b)} : a \in AsOfs}

Exported(rows, b) == rows = {} \/ (rows \in ResultsOfBatch(b) /\ Settled(b))

ExportsHold ==
    /\ export \in [Batches -> Export]
    /\ \A b \in Batches : export[b].state = "written" => Exported(export[b].rows, b)
    /\ \A j \in Jobs : pc[j] \in {"open", "close"} => Exported(results[j], BatchOf(j))

LEMMA FilesStay ==
    ASSUME Typed, [Next]_vars
    PROVE  DOMAIN files \subseteq DOMAIN files'
PROOF
<1>1. ASSUME NEW j \in Jobs, ConnectTo(j)
      PROVE  DOMAIN files \subseteq DOMAIN files'
  <2>1. files' = files \/ files' = Append(files, EmptyFile)
    BY <1>1 DEF ConnectTo
  <2> QED
    BY <2>1 DEF Typed
<1>2. ASSUME NEW j \in Jobs, NEW how, End(j, how)
      PROVE  DOMAIN files \subseteq DOMAIN files'
  <2>1. files' = files \/ files' = [files EXCEPT ![handle[j]].writer = NoJob]
    BY <1>2 DEF End
  <2> QED
    BY <2>1 DEF Typed
<1>3. ASSUME NEW j \in Jobs, InitSchema(j) \/ Load(j) \/ RecordPayment(j) \/ Commit(j)
      PROVE  DOMAIN files \subseteq DOMAIN files'
  BY <1>3 DEF Typed, InitSchema, Load, RecordPayment, Commit
<1> QED
  BY <1>1, <1>2, <1>3 DEF Next, JobStep, vars, StartBuild, StartAdjudicate, Unlink, Create, Exists,
     Connect, ReadTables, NoSuchTable, ReadBatch, AdjudicateNext, AdjudicateRaises, LockTimeout,
     OpenExport, FlushExport, CloseExport, Kill

(* A settlement may be replaced, by one of the same claim. *)
LEMMA SettledLasts ==
    ASSUME Sound, [Next]_vars, NEW b, Settled(b)
    PROVE  Settled(b)'
PROOF
<1>1. PICK f \in DOMAIN files : \A c \in ClaimsOf(b) :
            \E p \in files[f].rows : p.claim = c /\ p.batch = b /\ p \in Settlements
  BY DEF Settled
<1>2. f \in DOMAIN files' /\ Repeats(files[f].rows, files'[f].rows)
  BY TablesRepeat, FilesStay DEF Sound
<1>3. ASSUME NEW c \in ClaimsOf(b)
      PROVE  \E q \in files'[f].rows : q.claim = c /\ q.batch = b /\ q \in Settlements
  BY <1>1, <1>2 DEF Repeats
<1> QED
  BY <1>2, <1>3 DEF Settled

(* What a run that commits has kept is what it has recorded. *)
LEMMA CommitSettles ==
    ASSUME Sound, NEW j \in Jobs, Commit(j), NEW b, b = BatchOf(j)
    PROVE  results[j] = {} \/ (results[j] \in ResultsOfBatch(b) /\ Settled(b)')
PROOF
<1>1. Adjudicates(j) /\ Typed
  BY DEF Sound
<1>2. pc[j] = "claims" /\ inHand[j] = {} /\ todo[j] = {}
  BY DEF Commit
<1>3. CASE ~InTransaction(j)
  BY <1>1, <1>2, <1>3 DEF Adjudicates, Collected
<1>4. CASE InTransaction(j)
  <2>1. /\ Drafted(j) /\ AsOf(j) \in AsOfs
        /\ results[j] = {Result(c, AsOf(j)) : c \in Recorded(j)}
    BY <1>1, <1>2, <1>4 DEF Adjudicates, Collected, HasArgs, AsOf
  <2>2. Recorded(j) = ClaimsOf(b)
    BY <1>2 DEF Recorded
  <2>3. results[j] \in ResultsOfBatch(b)
    BY <2>1, <2>2 DEF ResultsOfBatch
  <2>4. handle[j] \in DOMAIN files /\ files \in Seq(FileRecords)
    BY <1>1, <1>4 DEF Typed, InTransaction
  <2>5. handle[j] \in DOMAIN files' /\ files'[handle[j]].rows = draft[j]
    BY <1>4, <2>4 DEF Commit
  <2>6. ASSUME NEW c \in ClaimsOf(b)
        PROVE  \E p \in draft[j] : p.claim = c /\ p.batch = b /\ p \in Settlements
    <3>1. Settlement(c, AsOf(j)) \in draft[j]
      BY <2>1, <2>2 DEF Drafted, SettledAsOf
    <3>2. c \in Payable /\ Claim[c].batch = b
      <4>1. Result(c, AsOf(j)) \in ResultsOf
        BY <1>1, <2>1, <2>2 DEF Typed
      <4>2. PICK d \in Payable, e \in AsOfs : Result(c, AsOf(j)) = Result(d, e)
        BY <4>1 DEF ResultsOf
      <4> QED
        BY <4>2, ResultClaim DEF ClaimsOf
    <3> QED
      BY <2>1, <3>1, <3>2, SettlementFields DEF Settlements
  <2> QED
    BY <2>3, <2>5, <2>6 DEF Settled
<1> QED
  BY <1>3, <1>4

(* What is about to be exported was there before, or has just been committed. *)
LEMMA ExportStep ==
    ASSUME Typed, [Next]_vars, NEW k \in Jobs, pc'[k] \in {"open", "close"}
    PROVE  /\ args'[k] = args[k] /\ results'[k] = results[k]
           /\ pc[k] \in {"open", "close"} \/ Commit(k)
PROOF
<1>1. CASE UNCHANGED vars
  BY <1>1 DEF vars, memory
<1>2. ASSUME NEW j \in Jobs, StartBuild(j) \/ StartAdjudicate(j) \/ JobStep(j) \/ Kill(j)
      PROVE  /\ args'[k] = args[k] /\ results'[k] = results[k]
             /\ pc[k] \in {"open", "close"} \/ Commit(k)
  <2>1. CASE \/ StartBuild(j) \/ Unlink(j) \/ Create(j) \/ InitSchema(j) \/ Load(j)
    BY <2>1 DEF Typed, StartBuild, Unlink, Create, InitSchema, Load, Goto, memory
  <2>2. CASE \/ StartAdjudicate(j) \/ Exists(j) \/ Connect(j)
    BY <2>2 DEF Typed, StartAdjudicate, Exists, Connect, Goto, memory
  <2>3. CASE \/ ReadTables(j) \/ ReadBatch(j) \/ OpenExport(j) \/ FlushExport(j)
             \/ AdjudicateNext(j)
    BY <2>3 DEF Typed, ReadTables, ReadBatch, OpenExport, FlushExport, AdjudicateNext, Goto, memory
  <2>4. CASE NoSuchTable(j) \/ AdjudicateRaises(j) \/ LockTimeout(j) \/ CloseExport(j) \/ Kill(j)
    <3>1. \E how \in Ended : End(j, how)
      BY <2>4 DEF NoSuchTable, AdjudicateRaises, LockTimeout, CloseExport, Kill, Ended
    <3> QED
      BY <3>1 DEF End, Goto, Typed, Ended
  <2>5. CASE RecordPayment(j)
    <3>1. PICK res \in inHand[j] : results' = [results EXCEPT ![j] = @ \cup {res}]
      BY <2>5 DEF RecordPayment
    <3> QED
      BY <2>5, <3>1 DEF RecordPayment, Typed
  <2>6. CASE Commit(j)
    BY <2>6 DEF Commit, Goto, Typed
  <2> QED
    BY <1>2, <2>1, <2>2, <2>3, <2>4, <2>5, <2>6 DEF JobStep
<1> QED
  BY <1>1, <1>2 DEF Next

(* An export changes when it is opened, written to and closed. *)
LEMMA ExportWritten ==
    ASSUME [Next]_vars
    PROVE  \/ export' = export
           \/ \E j \in Jobs : pc[j] = "open" /\ export' = [export EXCEPT ![BatchOf(j)] = Truncated]
           \/ \E j \in Jobs : pc[j] = "close" /\ export' = [export EXCEPT ![BatchOf(j)] = Mixed]
           \/ \E j \in Jobs :
                pc[j] = "close" /\ export' = [export EXCEPT ![BatchOf(j)] = Written(results[j])]
PROOF
  BY DEF Next, JobStep, vars, StartBuild, StartAdjudicate, Unlink, Create, InitSchema, Load,
         Exists, Connect, ReadTables, NoSuchTable, ReadBatch, AdjudicateNext, AdjudicateRaises,
         RecordPayment, LockTimeout, Commit, OpenExport, FlushExport, CloseExport, Kill, exports

LEMMA NextExportsHold == Sound /\ ExportsHold /\ [Next]_vars => ExportsHold'
PROOF
<1> SUFFICES ASSUME Sound, ExportsHold, [Next]_vars
             PROVE  ExportsHold'
  OBVIOUS
<1>0. Typed /\ \A j \in Jobs : Adjudicates(j)
  BY DEF Sound
<1>1. \A b : Settled(b) => Settled(b)'
  BY SettledLasts
<1>2. ASSUME NEW j \in Jobs, pc[j] \in {"open", "close"}
      PROVE  BatchOf(j) \in Batches
  BY <1>0, <1>2, RunsAssumption DEF Adjudicates, HasArgs, BatchOf
<1>3. export' \in [Batches -> Export]
  <2>1. \A j \in Jobs : Written(results[j]) \in Export
    BY <1>0 DEF Typed, Export
  <2>2. Truncated \in Export /\ Mixed \in Export
    BY DEF Export
  <2> QED
    BY <1>2, <2>1, <2>2, ExportWritten DEF ExportsHold
<1>4. ASSUME NEW b \in Batches, export'[b].state = "written"
      PROVE  Exported(export[b].rows, b)'
  <2>1. Exported(export'[b].rows, b)
    <3>1. CASE export'[b] = export[b]
      BY <1>4, <3>1 DEF ExportsHold
    <3>2. ASSUME NEW j \in Jobs, pc[j] = "close", b = BatchOf(j), export'[b] = Written(results[j])
          PROVE  Exported(export'[b].rows, b)
      BY <3>2 DEF ExportsHold, Written
    <3>3. Truncated.state # "written" /\ Mixed.state # "written"
      BY DEF Truncated, Mixed
    <3> QED
      BY <1>2, <1>4, <3>1, <3>2, <3>3, ExportWritten DEF ExportsHold
  <2> QED
    BY <1>1, <2>1 DEF Exported
<1>5. ASSUME NEW k \in Jobs, pc'[k] \in {"open", "close"}
      PROVE  Exported(results[k], BatchOf(k))'
  <2>1. /\ args'[k] = args[k] /\ results'[k] = results[k]
        /\ pc[k] \in {"open", "close"} \/ Commit(k)
    BY <1>0, <1>5, ExportStep
  <2> SUFFICES ASSUME NEW b, b = BatchOf(k), b = BatchOf(k)'
               PROVE  Exported(results[k], b)'
    BY <2>1 DEF BatchOf
  <2>2. CASE pc[k] \in {"open", "close"}
    BY <1>1, <2>1, <2>2 DEF ExportsHold, Exported
  <2>3. CASE Commit(k)
    BY <2>1, <2>3, CommitSettles DEF Exported
  <2> QED
    BY <2>1, <2>2, <2>3
<1> QED
  BY <1>3, <1>4, <1>5 DEF ExportsHold

(***************************************************************************)
(* An export of one job's rows, if it has any, lists every claim of its    *)
(* batch once, as of one payment date, and as it is recorded in a database,*)
(* interest included if as of that date: whatever was killed, rolled back, *)
(* run again or rebuilt since, and whatever other jobs did to the file     *)
(* before (run_batch, write_export).                                       *)
(***************************************************************************)
THEOREM ExportsHaveRecords == Spec => []ExportHasItsRecords
PROOF
<1>1. Init => ExportsHold
  BY DEF Init, ExportsHold, Export, Absent
<1>2. ExportsHold => ExportHasItsRecords
  <2> SUFFICES ASSUME ExportsHold, NEW b \in Batches,
                      export[b].state = "written", export[b].rows # {}
               PROVE  /\ {res.claim : res \in export[b].rows} = ClaimsOf(b)
                      /\ Cardinality(export[b].rows) = Cardinality(ClaimsOf(b))
                      /\ \E f \in DOMAIN files, date \in AsOfs : RowsAsOf(export[b].rows, b, f, date)
    BY DEF ExportHasItsRecords
  <2>1. PICK a \in AsOfs : export[b].rows = {Result(c, a) : c \in ClaimsOf(b)}
    BY DEF ExportsHold, Exported, ResultsOfBatch
  <2>2. {res.claim : res \in export[b].rows} = ClaimsOf(b)
    BY <2>1, ResultClaim
  <2>3. Cardinality(export[b].rows) = Cardinality(ClaimsOf(b))
    <3> DEFINE row == [c \in ClaimsOf(b) |-> Result(c, a)]
    <3>1. row \in Bijection(ClaimsOf(b), export[b].rows)
      BY <2>1, ResultClaim DEF Bijection, Injection, Surjection, IsInjective
    <3>2. IsFiniteSet(ClaimsOf(b))
      BY ShippedAssumption, FS_Subset DEF ClaimsOf
    <3>3. ExistsBijection(ClaimsOf(b), export[b].rows)
      BY <3>1 DEF ExistsBijection
    <3> QED
      BY <3>2, <3>3, FS_Bijection
  <2>4. PICK f \in DOMAIN files : \A c \in ClaimsOf(b) :
            \E p \in files[f].rows : p.claim = c /\ p.batch = b /\ p \in Settlements
    BY DEF ExportsHold, Exported, Settled
  <2>5. ASSUME NEW c \in ClaimsOf(b)
        PROVE  /\ Result(c, a).daysLate = DaysLate(c, RuleFor(c), a)
               /\ \E p \in Produced(f, b) :
                    p.claim = c /\ SameSettlement(PaymentOf(Result(c, a), b, a), p)
    <3>1. PICK p \in files[f].rows : p.claim = c /\ p.batch = b /\ p \in Settlements
      BY <2>4
    <3>2. PICK d \in AsOfs : p = Settlement(c, d)
      BY <3>1, SettlementFields DEF Settlements
    <3>3. SameSettlement(PaymentOf(Result(c, a), b, a), p)
      <4>1. PaymentOf(Result(c, a), b, a) = Settlement(c, a)
        BY <2>5 DEF Settlement, ClaimsOf
      <4> QED
        BY <3>2, <4>1, SettlementsAgree
    <3>4. p \in Produced(f, b)
      BY <3>1 DEF Produced
    <3>5. Result(c, a).daysLate = DaysLate(c, RuleFor(c), a)
      BY DEF Result, Adjudicate
    <3> QED
      BY <3>1, <3>3, <3>4, <3>5
  <2>6. RowsAsOf(export[b].rows, b, f, a)
    BY <2>1, <2>5, ResultClaim DEF RowsAsOf
  <2> QED
    BY <2>2, <2>3, <2>4, <2>6
<1> QED
  BY <1>1, <1>2, NextExportsHold, AlwaysSound, PTL DEF Spec

=============================================================================
