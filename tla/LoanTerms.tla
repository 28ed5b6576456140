------------------------------ MODULE LoanTerms ------------------------------
(***************************************************************************)
(* The calculators of the loan accrual port as LND-4127 leaves them:       *)
(* pyledger/dates.py, transactions.py, rates.py, accrual.py, fees.py and   *)
(* status.py.  Money is in cents, an annual rate in 1/RateUnit, a daily    *)
(* rate in 1/(RateUnit * DailyUnit), a late percentage in 1/PctUnit.       *)
(***************************************************************************)
EXTENDS LoanCodec, SequencesExt

CONSTANTS
    Holidays,   \* dates of HOLIDAYS.dat
    RateUnit, DailyUnit, PctUnit

ASSUME UnitsAssumption ==
    {RateUnit, DailyUnit, PctUnit} \subseteq Nat \ {0} /\ IsFiniteSet(Holidays)

(* A Python date, or the digits of one in a record. *)
Dates == [y : Nat, m : Nat, d : Nat]

Date(y, m, d) == [y |-> y, m |-> m, d |-> d]

ASSUME HolidaysAssumption == Holidays \subseteq Dates

-----------------------------------------------------------------------------
(* dates.py *)

CenturyPivot == 49

FromYymmdd(field) ==
    Date((IF field.y > CenturyPivot THEN 1900 ELSE 2000) + field.y, field.m, field.d)

ToYyyymmdd(d) == d.y * 10000 + d.m * 100 + d.d

(* Days since 31 December 1600, a Sunday. *)
IntegerOfDate(date) ==
    LET y == IF date.m > 2 THEN date.y ELSE date.y - 1      \* years from March
        m == (date.m + 9) % 12
    IN  365 * y + y \div 4 - y \div 100 + y \div 400 + (153 * m + 2) \div 5 + date.d - 584694

DaysBetween(start, end) == IntegerOfDate(end) - IntegerOfDate(start)

Days360(start, end) ==
    LET d1 == IF start.d = 31 THEN 30 ELSE start.d
        d2 == IF end.d = 31 /\ d1 >= 30 THEN 30 ELSE end.d
    IN  360 * (end.y - start.y) + 30 * (end.m - start.m) + (d2 - d1)

HolidayNumbers == {IntegerOfDate(d) : d \in Holidays}

IsBusinessDay(n) == n % 7 \in 1 .. 5 /\ n \notin HolidayNumbers

(* The first business day on or after the date; no week is all holidays    *)
(* unless Holidays holds its five days.                                    *)
RollForward(date) ==
    LET from == IntegerOfDate(date)
    IN  Min({n \in from .. from + 7 * (Cardinality(Holidays) + 1) : IsBusinessDay(n)})

-----------------------------------------------------------------------------
(* transactions.py *)

(* The members of S from first to last: order has <<x, y>> if y is x or    *)
(* comes after it.                                                         *)
InOrder(S, order) ==
    [k \in 1 .. Cardinality(S) |->
        CHOOSE x \in S : Cardinality({y \in S : <<y, x>> \in order}) = k]

(* What a sequence has at some of its places. *)
Kept(seq, places) ==
    LET at == InOrder(places, {p \in places \X places : p[1] <= p[2]})
    IN  [k \in 1 .. Cardinality(places) |-> seq[at[k]]]

PostDay(t) == IntegerOfDate(FromYymmdd(t.date))

(* load_transactions: the capture sorted by account, post date, sequence;  *)
(* list.sort leaves equal entries in the order they had.                   *)
PostingOrder(capture) ==
    LET AtOrBefore(i, k) ==
            LET s == capture[i]
                t == capture[k]
            IN  \/ s.account < t.account
                \/ s.account = t.account /\ PostDay(s) < PostDay(t)
                \/ /\ s.account = t.account /\ PostDay(s) = PostDay(t)
                   /\ s.seq < t.seq \/ (s.seq = t.seq /\ i <= k)
        at == InOrder(DOMAIN capture, {p \in (DOMAIN capture) \X (DOMAIN capture) :
                                     AtOrBefore(p[1], p[2])})
    IN  [k \in DOMAIN capture |-> capture[at[k]]]

(* group_by_account *)
OnAccount(transactions, account) ==
    Kept(transactions, {k \in DOMAIN transactions : transactions[k].account = account})

Counted(transactions) ==
    Kept(transactions, {k \in DOMAIN transactions : transactions[k].void # "V"})

(* What one entry adds to the amount paid. *)
Signed(t) ==
    LET amount == DecodeField(t.amount, Lntran.amount)
    IN  IF t.type = "P" THEN amount ELSE -amount

(* A total that is kept in an item: each sum is moved to it. *)
Totalled(amounts, pic) ==
    LET total[k \in 0 .. Len(amounts)] ==
            IF k = 0 THEN 0 ELSE FitToPic(total[k - 1] + amounts[k], pic)
    IN  total[Len(amounts)]

PaidInPeriod(transactions) ==
    LET counted == Counted(transactions)
    IN  Totalled([k \in DOMAIN counted |-> Signed(counted[k])], Lnmast.principal)

(* paid_in_period raises on a type that is neither payment nor reversal. *)
UnknownType(transactions) ==
    \E k \in DOMAIN transactions :
        transactions[k].void # "V" /\ transactions[k].type \notin {"P", "R"}

ApplyPayments(principal, paid) == FitToPic(principal - paid, Lnmast.principal)

-----------------------------------------------------------------------------
(* rates.py *)

(* RateTable.load accepts a header that announces what follows it. *)
RatesLoad(rates) == rates.count > 0 /\ Len(rates.tiers) >= rates.count

FindTier(rates, balance) ==
    Min({ix \in 1 .. rates.count : balance <= rates.tiers[ix].upper} \cup {rates.count})

-----------------------------------------------------------------------------
(* numeric.py: ROUND_HALF_UP goes away from zero. *)
Rounded(num, den) ==
    LET down == Magnitude(num) \div den
        magnitude == IF 2 * (Magnitude(num) % den) >= den THEN down + 1 ELSE down
    IN  IF num < 0 THEN -magnitude ELSE magnitude

-----------------------------------------------------------------------------
(* accrual.py *)

BasisFor(product) == IF product = "M" THEN 360 ELSE 365

AccrualDays(product, lastAccrual, asof) ==
    FitToPic(IF product = "M" THEN Days360(lastAccrual, asof) ELSE DaysBetween(lastAccrual, asof),
             SignedDisplay("period"))

(* Truncated to its scale before the multiply. *)
DailyRate(tier, product) ==
    FitToPic((tier.rate * DailyUnit) \div BasisFor(product), Display("rate"))

AccruedInterest(balance, ratePerDay, days) ==
    IF balance <= 0 THEN 0
    ELSE FitToPic(Rounded(balance * ratePerDay * days, RateUnit * DailyUnit),
                  SignedDisplay("interest"))

-----------------------------------------------------------------------------
(* fees.py and status.py *)

DaysLate(account, paid, asof) ==
    LET late == IntegerOfDate(asof) - RollForward(account.due)
    IN  IF late < 0 \/ paid >= account.paymentDue THEN 0 ELSE late

NewAccountWindowDays == 90

IsNewAccount(account, asof) == DaysBetween(account.orig, asof) <= NewAccountWindowDays

Bounded(fee, tier) ==
    LET floored == Max({fee, tier.feeMin}) IN Min({floored, tier.feeMax})

(* A slip for ByteIdentical: the fee is bounded before it is stored. *)
FeeBoundedFirst(account, tier, late, asof) ==
    IF late <= account.grace \/ account.waive \/ IsNewAccount(account, asof) THEN 0
    ELSE FitToPic(Bounded(Rounded(account.paymentDue * tier.latePct, PctUnit), tier), Display("fee"))

LateFee(account, tier, late, asof) ==
    IF late <= account.grace \/ account.waive \/ IsNewAccount(account, asof) THEN 0
    ELSE Bounded(FitToPic(Rounded(account.paymentDue * tier.latePct, PctUnit), Display("fee")), tier)

Ladder == <<[threshold |-> 90, letter |-> "W"],
            [threshold |-> 60, letter |-> "X"],
            [threshold |-> 30, letter |-> "D"]>>

(* The first rung that is passed. *)
StatusLetter(late, grace) ==
    LET passed == {k \in DOMAIN Ladder : late > Ladder[k].threshold}
    IN  IF passed # {} THEN Ladder[Min(passed)].letter
        ELSE IF late > grace THEN "L" ELSE "C"

=============================================================================
