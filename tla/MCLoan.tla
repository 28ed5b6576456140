-------------------------------- MODULE MCLoan --------------------------------
(***************************************************************************)
(* March 2024 on two or three accounts, widths of two to four digits.      *)
(* MCPlain has a balance on a tier's bound with half a cent of interest,   *)
(* an account late by just its grace days, a waived fee, a closed account  *)
(* and entries without effect.  MCSeams has what the port used to get      *)
(* wrong: a correction entry and a credit balance, a mortgage opened in    *)
(* 1999 whose period ends on a 31st, due on a Saturday before a holiday,   *)
(* with a fee that does not fit its item.  The entries of MCWide are       *)
(* beyond the paid item; MCUnknown raises at the second open account;      *)
(* MCTorn does not load.                                                   *)
(***************************************************************************)
EXTENDS LoanProperties

CONSTANTS j1, j2

MCWidth == [account |-> 1000, money |-> 1000, amount |-> 1000, interest |-> 100, fee |-> 100,
            days |-> 1000, period |-> 10000, tier |-> 10, rate |-> 10000, count |-> 100,
            hash |-> 300, total |-> 10000]

MCHolidays == {Date(2024, 3, 18)}

Zoned(n, zone) == [digits |-> n, zone |-> zone]

Ymd(y, m, d) == [y |-> y, m |-> m, d |-> d]

Entry(account, d, seq, type, n) ==
    [account |-> account, date |-> Ymd(24, 3, d), seq |-> seq, type |-> type,
     amount |-> Zoned(n, "positive"), void |-> ""]

Void(entry) == [entry EXCEPT !.void = "V"]

Master(account, product, status, due, last, principal, paymentDue) ==
    [account |-> account, product |-> product, status |-> status, orig |-> Ymd(20, 5, 1),
     due |-> due, lastAccrual |-> last, principal |-> Zoned(principal, "positive"),
     paymentDue |-> Zoned(paymentDue, "F"), grace |-> 5, waive |-> " "]

Closed == Master(150, "C", "Z", Ymd(24, 3, 1), Ymd(24, 2, 29), 0, 0)

Tier(upper, rate) ==
    [upper |-> upper, rate |-> rate, latePct |-> 10, feeMin |-> 2, feeMax |-> 9]

MCRates == [count |-> 2, tiers |-> <<Tier(250, 73), Tier(900, 36)>>]

Month(master, trans) ==
    [master |-> master, trans |-> trans, rates |-> MCRates,
     asof |-> Date(2024, 3, 30), torn |-> FALSE]

MCPlain ==
    Month(<<Master(101, "C", "A", Ymd(24, 3, 25), Ymd(24, 3, 29), 350, 200), Closed,
            [Master(202, "M", "A", Ymd(24, 3, 1), Ymd(24, 3, 19), 500, 60) EXCEPT !.waive = "Y"]>>,
          <<Entry(150, 3, 1, "X", 5), Entry(101, 4, 1, "P", 100),
            Void(Entry(202, 4, 2, "X", 7))>>)

MCSeams ==
    [Month(<<Master(202, "C", "A", Ymd(24, 2, 1), Ymd(24, 3, 19), 100, 60),
             [Master(303, "M", "A", Ymd(24, 3, 16), Ymd(24, 1, 31), 700, 999)
                 EXCEPT !.orig = Ymd(99, 5, 1)]>>,
           <<Entry(202, 9, 9, "P", 540),
             [Entry(202, 5, 1, "P", 40) EXCEPT !.amount.zone = "negative"],
             Entry(303, 7, 1, "R", 250)>>)
        EXCEPT !.asof = Date(2024, 3, 31)]

MCWide ==
    Month(<<Master(202, "C", "A", Ymd(24, 2, 1), Ymd(24, 3, 19), 100, 60), Closed>>,
          <<Entry(202, 9, 9, "P", 540), Entry(202, 5, 1, "P", 500), Entry(202, 6, 2, "R", 500)>>)

MCUnknown == [MCPlain EXCEPT !.trans = Append(@, Entry(202, 5, 1, "X", 1))]

MCTorn == [MCPlain EXCEPT !.torn = TRUE]

MCInputs == {MCPlain, MCSeams, MCWide, MCUnknown, MCTorn}

===============================================================================
