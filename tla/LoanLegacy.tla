----------------------------- MODULE LoanLegacy -----------------------------
(***************************************************************************)
(* The mainframe's own batch, legacy/LNACCR01.cbl: the LNOUT dataset it    *)
(* writes for the inputs of a month, paragraph by paragraph, with every    *)
(* store into a WORKING-STORAGE item.  It is what pyledger is measured     *)
(* against, never run by it.  The paid table and the holiday table are     *)
(* taken to be as long as the month needs.                                 *)
(***************************************************************************)
EXTENDS LoanTerms

(* 2000-CENTURY-WINDOW *)
CenturyWindow(field) == Date((IF field.y > 49 THEN 1900 ELSE 2000) + field.y, field.m, field.d)

(* A zoned or packed item holds the sign it shows. *)
Shown(raw) == IF raw.zone \in {"negative", "D"} THEN -raw.digits ELSE raw.digits

(* 1310-POST-TO-PAID-TABLE: types other than P and R move nothing. *)
LegacySigned(t) ==
    CASE t.type = "P" -> Shown(t.amount)
      [] t.type = "R" -> -Shown(t.amount)
      [] OTHER -> 0

(* 1300-LOAD-TRANSACTIONS: each entry as it arrives, to WS-PAID-AMT. *)
LegacyPaid(capture, account) ==
    LET counted == Counted(OnAccount(capture, account))
    IN  Totalled([k \in DOMAIN counted |-> LegacySigned(counted[k])], SignedDisplay("money"))

(* 3100-APPLY-PAYMENTS, to WS-NEW-BAL *)
LegacyBalance(raw, paid) == FitToPic(Shown(raw.principal) - paid, SignedDisplay("money"))

(* 3200-FIND-TIER *)
LegacyTier(rates, balance) ==
    CHOOSE ix \in 1 .. rates.count :
        /\ balance <= rates.tiers[ix].upper \/ ix = rates.count
        /\ \A lower \in 1 .. ix - 1 : balance > rates.tiers[lower].upper

(* 2300-DAYS-360, both end-of-month adjustments. *)
LegacyDays360(start, end) ==
    LET d1 == IF start.d = 31 THEN 30 ELSE start.d
        d2 == IF end.d = 31 /\ d1 >= 30 THEN 30 ELSE end.d
    IN  360 * (end.y - start.y) + 30 * (end.m - start.m) + (d2 - d1)

(* WS-ACCR-DAYS *)
LegacyAccrualDays(product, last, asof) ==
    FitToPic(IF product = "M" THEN LegacyDays360(last, asof)
             ELSE IntegerOfDate(asof) - IntegerOfDate(last),
             SignedDisplay("period"))

(* WS-DAILY-RATE is not ROUNDED. *)
LegacyDailyRate(tier, product) ==
    FitToPic((tier.rate * DailyUnit) \div (IF product = "M" THEN 360 ELSE 365), Display("rate"))

(* ROUNDED: half a unit goes away from zero. *)
RoundedHalfUp(num, den) ==
    LET magnitude == (2 * Magnitude(num) + den) \div (2 * den)
    IN  IF num < 0 THEN -magnitude ELSE magnitude

(* 3300-ACCRUE-INTEREST, to WS-ACCRUED *)
LegacyInterest(balance, rate, days) ==
    IF balance > 0
    THEN FitToPic(RoundedHalfUp(balance * rate * days, RateUnit * DailyUnit),
                  SignedDisplay("interest"))
    ELSE 0

(* 2400-ROLL-BUSINESS-DAY: MOD 7 gives 6 and 0 on a weekend. *)
RollsOn(n) == n % 7 \in {0, 6} \/ n \in HolidayNumbers

LegacyRolled(due) ==
    LET from == IntegerOfDate(due)
    IN  CHOOSE n \in from .. from + 7 * (Cardinality(Holidays) + 1) :
            ~RollsOn(n) /\ \A m \in from .. n - 1 : RollsOn(m)

(* 3400-DAYS-LATE, to WS-DAYS-LATE *)
LegacyDaysLate(due, paymentDue, paid, asof) ==
    LET late == FitToPic(IntegerOfDate(asof) - LegacyRolled(due), SignedDisplay("period"))
    IN  IF paid >= paymentDue \/ late < 0 THEN 0 ELSE late

(* 3500-ASSESS-LATE-FEE: WS-LATE-FEE is stored, then held within bounds. *)
LegacyFee(raw, paymentDue, tier, late, asof) ==
    IF /\ late > raw.grace
       /\ raw.waive # "Y"
       /\ IntegerOfDate(asof) - IntegerOfDate(CenturyWindow(raw.orig)) > 90
    THEN LET stored == FitToPic(RoundedHalfUp(paymentDue * tier.latePct, PctUnit), Display("fee"))
             atLeast == IF stored < tier.feeMin THEN tier.feeMin ELSE stored
         IN  IF atLeast > tier.feeMax THEN tier.feeMax ELSE atLeast
    ELSE 0

(* 3600-SET-STATUS *)
LegacyStatus(late, grace) ==
    CASE late > 90 -> "W"
      [] late \in 61 .. 90 -> "X"
      [] late \in 31 .. 60 -> "D"
      [] late <= 30 /\ late > grace -> "L"
      [] OTHER -> "C"

(* 3000-PROCESS-MASTER for an open account. *)
LegacyResult(raw, input) ==
    LET paid == LegacyPaid(input.trans, raw.account)
        balance == LegacyBalance(raw, paid)
        ix == LegacyTier(input.rates, balance)
        tier == input.rates.tiers[ix]
        rate == LegacyDailyRate(tier, raw.product)
        days == LegacyAccrualDays(raw.product, CenturyWindow(raw.lastAccrual), input.asof)
        paymentDue == Shown(raw.paymentDue)
        late == LegacyDaysLate(CenturyWindow(raw.due), paymentDue, paid, input.asof)
    IN  [account |-> raw.account, product |-> raw.product, balance |-> balance, tier |-> ix,
         rate |-> rate, accrDays |-> days, accrued |-> LegacyInterest(balance, rate, days),
         daysLate |-> late, lateFee |-> LegacyFee(raw, paymentDue, tier, late, input.asof),
         status |-> LegacyStatus(late, raw.grace)]

-----------------------------------------------------------------------------
(* 3700-WRITE-DETAIL and 4000-WRITE-TRAILER *)

(* MOVE to an item of LNOUT, with the sign in the zone of its last digit. *)
LegacyField(v, pic) ==
    IF pic.usage = "ALNUM" THEN v
    ELSE LET held == Magnitude(v) % pic.cap
         IN  [digits |-> held,
              zone |-> CASE ~pic.signed -> "plain"
                         [] pic.signed /\ v < 0 /\ held # 0 -> "negative"
                         [] OTHER -> "positive"]

LegacyRecord(layout, values) == [f \in DOMAIN layout |-> LegacyField(values[f], layout[f])]

LegacyDetail(raw, input) ==
    LET result == LegacyResult(raw, input)
    IN  LegacyRecord(LnoutDetail, [f \in DOMAIN LnoutDetail |->
            CASE f = "asof" -> ToYyyymmdd(input.asof)
              [] f = "recType" -> "D"
              [] OTHER -> result[f]])

LegacyTrailer(tot) ==
    LegacyRecord(LnoutTrailer, [f \in DOMAIN LnoutTrailer |->
        IF f = "recType" THEN "T" ELSE tot[f]])

(* ADD to the items of WS-TOTALS *)
LegacyTotals(tot, result) ==
    [count |-> (tot.count + 1) % Width.count,
     hash |-> (tot.hash + result.account) % Width.hash,
     totAccrued |-> FitToPic(tot.totAccrued + result.accrued, SignedDisplay("money")),
     totFees |-> FitToPic(tot.totFees + result.lateFee, Display("money")),
     totBalance |-> FitToPic(tot.totBalance + result.balance, SignedDisplay("total"))]

LegacyNothing ==
    [count |-> 0, hash |-> 0, totAccrued |-> 0, totFees |-> 0, totBalance |-> 0]

=============================================================================
