----------------------------- MODULE ClaimsTerms -----------------------------
(***************************************************************************)
(* The pure part of claims adjudication, common to the application as      *)
(* shipped (tessera/) and to its reference solution (solution/solve.sh):   *)
(* claims, policy versions, payment records, and what an occurrence has    *)
(* used up.  Amounts are whole cents; the cash value of a line item and    *)
(* the day a claim should be paid by are inputs (the valuation and the     *)
(* calendar have no state).  A row of the payments table is kept in two    *)
(* parts with one key: what later claims are adjudicated against, and the  *)
(* charge, which depends on the payment date (--as-of) and which no        *)
(* adjudication reads.                                                     *)
(***************************************************************************)
EXTENDS Integers, FiniteSets, FiniteSetsExt

CONSTANTS
    ClaimIds,       \* claim ids; their order as numbers stands for the string order
    Claim,          \* Claim[c]: occurrence, policy, peril, loss, received, batch, items,
                    \* deadline (payment_deadline), rate (annual_rate_pct)
    Versions,       \* Versions[p]: the versions of policy p, by (effective_from, version_id)
    NoDate,         \* the empty effective_to; no deadline
    NoAmount,       \* a version without wind_hail_deductible_pct
    Defective,      \* claims without a depreciation rule or a prompt-pay rule
    History,        \* payment records loaded from payments_history.csv
    HistoryCharges  \* their payment dates and interest

ASSUME ClaimIdsAssumption == ClaimIds \subseteq Nat /\ IsFiniteSet(ClaimIds)

(* An occurrence is one loss event. *)
ASSUME OccurrenceAssumption ==
    \A c, d \in ClaimIds : Claim[c].occurrence = Claim[d].occurrence =>
        /\ Claim[c].policy = Claim[d].policy
        /\ Claim[c].peril = Claim[d].peril
        /\ Claim[c].loss = Claim[d].loss

ASSUME DefectiveAssumption == Defective \subseteq ClaimIds

(* Dates are numbers, and a claim has finitely many items, none worth less *)
(* than nothing: an item keeps 100% of its replacement cost less at most   *)
(* its category's max_pct.                                                 *)
ASSUME ClaimAssumption ==
    \A c \in ClaimIds :
        /\ Claim[c].loss \in Int /\ Claim[c].received \in Int
        /\ Claim[c].deadline \in Int \cup {NoDate} /\ Claim[c].rate \in Nat
        /\ IsFiniteSet(DOMAIN Claim[c].items)
        /\ \A k \in DOMAIN Claim[c].items : Claim[c].items[k].acv \in Nat

(* No term of a policy is negative. *)
ASSUME VersionsAssumption ==
    \A c \in ClaimIds :
        LET versions == Versions[Claim[c].policy]
        IN  /\ IsFiniteSet(DOMAIN versions) /\ DOMAIN versions \subseteq Int
            /\ \A k \in DOMAIN versions :
                   /\ versions[k].limit \in Nat /\ versions[k].deductible \in Nat
                   /\ versions[k].windHail \in Nat \cup {NoAmount}
                   /\ \A cat \in DOMAIN versions[k].sublimits :
                          versions[k].sublimits[cat] \in Nat

-----------------------------------------------------------------------------
(* The claims of a batch month. *)

Batches == {Claim[c].batch : c \in ClaimIds}

ClaimsOf(b) == {c \in ClaimIds : Claim[c].batch = b}

(* clamp_non_negative *)
NonNegative(n) == Max({0, n})

Categories(c) == {Claim[c].items[k].category : k \in DOMAIN Claim[c].items}

ItemsOf(c, cat) == {k \in DOMAIN Claim[c].items : Claim[c].items[k].category = cat}

CategoryValue(c, cat) == SumFunction([k \in ItemsOf(c, cat) |-> Claim[c].items[k].acv])

TotalOf(attributed) == SumFunction(attributed)

-----------------------------------------------------------------------------
(* Payment records. *)

Payment(c, b, version, indemnity, deductible, attributed) ==
    [claim |-> c, batch |-> b, version |-> version, indemnity |-> indemnity,
     deductible |-> deductible, attributed |-> attributed]

(* A record of the payments table, as a type. *)
IsRecord(p) ==
    /\ p.claim \in ClaimIds
    /\ p.batch \in Batches \cup {q.batch : q \in History}
    /\ p.indemnity \in Nat
    /\ p.deductible \in Nat
    /\ DOMAIN p.attributed \subseteq Categories(p.claim)
    /\ \A cat \in DOMAIN p.attributed : p.attributed[cat] \in Nat

(* payments is keyed by (claim_id, batch). *)
ASSUME HistoryAssumption ==
    /\ IsFiniteSet(History)
    /\ \A p \in History : IsRecord(p)
    /\ \A p, q \in History : p.claim = q.claim /\ p.batch = q.batch => p = q

(* The columns payment_date and interest of a record. *)
Charge(c, b, date, interest) == [claim |-> c, batch |-> b, date |-> date, interest |-> interest]

IsCharge(q) ==
    /\ q.claim \in ClaimIds
    /\ q.batch \in Batches \cup {p.batch : p \in History}
    /\ q.interest \in Nat

ASSUME HistoryChargesAssumption == \A q \in HistoryCharges : IsCharge(q)

OnOccurrence(rows, o) == {p \in rows : Claim[p.claim].occurrence = o}

IndemnityPaid(rows) == SumFunction([p \in rows |-> p.indemnity])

DeductibleAbsorbed(rows) == SumFunction([p \in rows |-> p.deductible])

AttributedIn(p, cat) == IF cat \in DOMAIN p.attributed THEN p.attributed[cat] ELSE 0

CategoryAttributed(rows, cat) == SumFunction([p \in rows |-> AttributedIn(p, cat)])

(* Insert or replace on the unique key (claim_id, batch). *)
Record(rows, row) ==
    {p \in rows : p.claim # row.claim \/ p.batch # row.batch} \cup {row}

-----------------------------------------------------------------------------
(* Prompt pay: section 6. *)

(* round_cents of n / d: half up, for what is not negative. *)
RoundCents(n, d) == (2 * n + d) \div (2 * d)

(* evaluate: without a deadline the clock has not started. *)
DaysLate(c, date) ==
    IF Claim[c].deadline = NoDate THEN 0 ELSE NonNegative(date - Claim[c].deadline)

(* interest_amount; the rate is 0 where the state imposes no interest. *)
InterestAmount(c, indemnity, daysLate) ==
    RoundCents(indemnity * Claim[c].rate * daysLate, 100 * 365)

-----------------------------------------------------------------------------
(* The terms of a policy: sections 1 and 4 of docs/adjudication_rules.md. *)

InForce(v, on) == v.from <= on /\ (v.to = NoDate \/ on < v.to)

VersionsInForce(c) ==
    {Versions[Claim[c].policy][k] : k \in
        {k \in DOMAIN Versions[Claim[c].policy] :
            InForce(Versions[Claim[c].policy][k], Claim[c].loss)}}

OccurrenceDeductible(v, c) ==
    IF Claim[c].peril \in {"wind", "hail"} /\ v.windHail # NoAmount
    THEN v.windHail
    ELSE v.deductible

=============================================================================
