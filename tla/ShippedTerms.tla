---------------------------- MODULE ShippedTerms ----------------------------
(***************************************************************************)
(* Claims adjudication as the application ships it (tessera/), the part    *)
(* without state: valuation of line items, version lookup, coverage terms, *)
(* prompt-pay deadline and interest, and the result for one claim given    *)
(* the records that count as its prior activity.  Amounts are cents; days  *)
(* are day numbers, day 0 a Monday.                                        *)
(***************************************************************************)
EXTENDS Integers, Sequences, FiniteSets, FiniteSetsExt, Functions

CONSTANTS
    ClaimIds,       \* claim ids; their order as numbers stands for the string order
    Claim,          \* Claim[c]: policy, batch, loss, fnol, received, items
    Policy,         \* Policy[p]: state, versions by (effective_from, version_id)
    Schedule,       \* depreciation_schedule: category to annual_pct, in tenths of a percent
    PromptPay,      \* prompt_pay_rules: state to deadline_days, day_type, annual_rate_pct
    OpenEnded,      \* the empty effective_to
    TiesUp,         \* the neighbour a float half way between two cents is rounded to
    History         \* payments_history.csv

(* A row of the payments table. *)
IsRecord(p) ==
    /\ p.claim \in ClaimIds
    /\ p.indemnity \in Nat /\ p.interest \in Nat /\ p.deductible \in Nat

ASSUME ShippedAssumption ==
    /\ ClaimIds \subseteq Nat /\ IsFiniteSet(ClaimIds)
    /\ TiesUp \in BOOLEAN
    /\ IsFiniteSet(History) /\ \A p \in History : IsRecord(p)
    /\ \A p, q \in History : p.claim = q.claim /\ p.batch = q.batch => p = q

(* Dates are day numbers, amounts whole cents, and no sublimit, deadline or *)
(* rate of interest is negative.                                           *)
ASSUME DataAssumption ==
    /\ \A c \in ClaimIds :
        /\ Claim[c].loss \in Nat /\ Claim[c].fnol \in Nat
        /\ IsFiniteSet(DOMAIN Claim[c].items)
        /\ \A k \in DOMAIN Claim[c].items :
            Claim[c].items[k].rcv \in Int /\ Claim[c].items[k].purchase \in Int
        /\ LET versions == Policy[Claim[c].policy].versions
           IN  /\ versions \in Seq(Range(versions))
               /\ \A k \in DOMAIN versions :
                    /\ versions[k].contentsLimit \in Int /\ versions[k].flatDeductible \in Int
                    /\ \A cat \in DOMAIN versions[k].sublimits : versions[k].sublimits[cat] \in Nat
    /\ \A cat \in DOMAIN Schedule : Schedule[cat] \in Int
    /\ \A state \in DOMAIN PromptPay :
        PromptPay[state].deadlineDays \in Nat /\ PromptPay[state].annualRatePct \in Nat

Batches == {Claim[c].batch : c \in ClaimIds}

(* get_claims_for_batch *)
ClaimsOf(b) == {c \in ClaimIds : Claim[c].batch = b}

-----------------------------------------------------------------------------
(* Money and time. *)

(* round_cents of n / d *)
RoundCents(n, d) ==
    LET floor == n \div d
        twice == 2 * (n - floor * d)
    IN  IF twice > d \/ (twice = d /\ TiesUp) THEN floor + 1 ELSE floor

(* clamp_non_negative *)
NonNegative(n) == IF n > 0 THEN n ELSE 0

DaysPerYear == 365

IsBusinessDay(day) == day % 7 \notin {5, 6}

BusinessDaysBetween(start, end) == Cardinality({day \in start .. end : IsBusinessDay(day)})

(* The first day counts; with n = 0 it is the answer whatever day it is. *)
AddBusinessDays(start, n) ==
    Min({day \in start .. start + 2 * n + 2 : BusinessDaysBetween(start, day) >= n})

-----------------------------------------------------------------------------
(* Valuation. *)

AgeInYears(purchase, loss) == NonNegative((loss - purchase) \div DaysPerYear)

ValueItem(item, loss) ==
    LET tenths == Schedule[item.category] * AgeInYears(item.purchase, loss)
    IN  NonNegative(RoundCents(item.rcv * (1000 - tenths), 1000))

-----------------------------------------------------------------------------
(* Policy versions and their terms. *)

IsInForce(v, on) == v.from <= on /\ (v.to = OpenEnded \/ on <= v.to)

(* find_version: the first in the order of effective_from; latest_version  *)
(* when none is in force.                                                  *)
SelectVersion(c) ==
    LET versions == Policy[Claim[c].policy].versions
        inForce == {k \in DOMAIN versions : IsInForce(versions[k], Claim[c].received)}
    IN  versions[IF inForce # {} THEN Min(inForce) ELSE Len(versions)]

(* apply_sublimits, of one line: the cap is the category's, line by line. *)
Capped(v, category, acv) ==
    IF category \in DOMAIN v.sublimits THEN Min({acv, v.sublimits[category]}) ELSE acv

-----------------------------------------------------------------------------
(* Prompt pay. *)

PaymentDeadline(c, rule) ==
    IF rule.dayType = "business"
    THEN AddBusinessDays(Claim[c].fnol, rule.deadlineDays)
    ELSE Claim[c].fnol + rule.deadlineDays

DaysLate(c, rule, asOf) == NonNegative(asOf - PaymentDeadline(c, rule))

InterestAmount(indemnity, rule, daysLate) ==
    IF daysLate <= 0 \/ indemnity <= 0 THEN 0
    ELSE RoundCents(indemnity * rule.annualRatePct * daysLate, 100 * DaysPerYear)

-----------------------------------------------------------------------------
(* Adjudicator.adjudicate, given the rows prior_activity selects. *)

(* select_version, value_item or prompt_pay_rule raises. *)
Raises(c) ==
    \/ Policy[Claim[c].policy].versions = <<>>
    \/ \E k \in DOMAIN Claim[c].items : Claim[c].items[k].category \notin DOMAIN Schedule
    \/ Policy[Claim[c].policy].state \notin DOMAIN PromptPay

IndemnityPaid(rows) == SumFunction([p \in rows |-> p.indemnity])

DeductibleAbsorbed(rows) == SumFunction([p \in rows |-> p.deductible])

(* A slip for TypeOK: nothing keeps it from falling below zero. *)
DeductibleDifference(v, prior) == v.flatDeductible - DeductibleAbsorbed(prior)

DeductibleRemaining(v, prior) == NonNegative(v.flatDeductible - DeductibleAbsorbed(prior))

(* prompt_pay_rule *)
RuleFor(c) == PromptPay[Policy[Claim[c].policy].state]

(* A row of the export: the AdjudicationResult. *)
Adjudicate(c, prior, asOf) ==
    LET v == SelectVersion(c)
        rule == RuleFor(c)
        lines == Claim[c].items
        acv == [k \in DOMAIN lines |-> ValueItem(lines[k], Claim[c].loss)]
        gross == SumFunction(acv)
        covered == SumFunction([k \in DOMAIN lines |-> Capped(v, lines[k].category, acv[k])])
        deductible == Min({DeductibleRemaining(v, prior), covered})
        headroom == NonNegative(v.contentsLimit - IndemnityPaid(prior))
        indemnity == Min({covered - deductible, headroom})
        daysLate == DaysLate(c, rule, asOf)
    IN  [claim |-> c, status |-> IF indemnity > 0 THEN "paid" ELSE "zero_payment",
         version |-> v.id, gross |-> gross, reduction |-> gross - covered,
         deductible |-> deductible, indemnity |-> indemnity, daysLate |-> daysLate,
         interest |-> InterestAmount(indemnity, rule, daysLate)]

(* build_payment *)
PaymentOf(res, b, asOf) ==
    [claim |-> res.claim, batch |-> b, paymentDate |-> asOf, version |-> res.version,
     indemnity |-> res.indemnity, interest |-> res.interest, deductible |-> res.deductible]

=============================================================================
