------------------------------- MODULE MCRecon -------------------------------
(***************************************************************************)
(* A ledger of five invoices in which each line can meet each rule: amounts*)
(* are scaled down and dates are days.  Customer c1 owes 1, 2 and 3; c2    *)
(* owes 4, and 5 was paid before the import.  The name n2 belongs to both. *)
(***************************************************************************)
EXTENDS ReconProperties

CONSTANTS r1, r2, c1, c2, n1, n2, iban1, bad, none, noText

Row(c, r, a, d) == [customer |-> c, ref |-> r, amount |-> a, due |-> d]

MCInvoice ==
    <<Row(c1, <<1, 1, 1>>, 6, 1), Row(c1, <<2, 2, 2>>, 9, 2), Row(c1, <<3, 3, 3>>, 15, 20),
      Row(c2, <<4, 4, 4>>, 15, 3), Row(c2, <<5, 5, 5>>, 21, 3)>>

MCInvoiceIds == DOMAIN MCInvoice

MCPaidAtImport == {5}

Entry(b, i, n, t, a) == [booking |-> b, iban |-> i, remitter |-> n, tokens |-> t, amount |-> a]

MCLine ==
    <<Entry(5, noText, noText, {<<1, 1, 1>>}, 6),        \* A1 on 1
      Entry(3, noText, noText, {<<1, 1, 9>>, <<7>>}, 7), \* A2 on 1, booked earlier
      Entry(4, iban1, noText, {}, 15),                   \* B1 on 3, then B3 on {1, 2}
      Entry(6, noText, n1, {}, 15),                      \* B2 on 3, then B3 on {1, 2}
      Entry(2, iban1, n1, {<<1, 1, 1>>}, -6),            \* a debit
      Entry(7, noText, n2, {<<5, 5, 5>>}, 15),           \* ambiguous name, paid invoice
      Entry(8, noText, n2, {<<8, 8, 8, 8, 8, 8>>}, 15),  \* nothing
      Entry(4, iban1, noText, {}, 21)>>                  \* {1, 3}, which is no run

MCLineIds == DOMAIN MCLine

MCMaster ==
    <<[id |-> c1, names |-> {n1, n2}, ibans |-> {iban1}],
      [id |-> c2, names |-> {n2}, ibans |-> {iban1}]>>

(* Nightly statements that overlap, one with late bookings at the end, a   *)
(* duplicated line and a row that does not parse.                          *)
MCStatements ==
    {<<1, 2>>, <<6, 7, 3>>, <<4>>, <<5, 4, 3>>, <<1, 4>>, <<1, 1>>, <<4, bad>>,
     <<8>>}

(* Two jobs on one ledger. *)
MCOverlapStatements == {<<1>>, <<5, 4>>, <<3>>}

=============================================================================
