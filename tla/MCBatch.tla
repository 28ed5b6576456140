------------------------------- MODULE MCBatch -------------------------------
(***************************************************************************)
(* The ledger of the worked example in docs/matching_rules.md (amounts in  *)
(* thirds of 40.00, due dates in days from the first one) with two more    *)
(* invoices, one that shares a due date and one exactly 60 days after the  *)
(* oldest, and one amount moved by the tolerance.                          *)
(***************************************************************************)
EXTENDS BatchRunSearch

Row(c, r, a, d) == [customer |-> c, ref |-> r, amount |-> a, due |-> d]

MCInvoice ==
    <<Row("c1", <<1>>, 9, 0), Row("c1", <<2>>, 6, 16), Row("c1", <<3>>, 15, 30),
      Row("c1", <<4>>, 6, 49), Row("c1", <<5>>, 10, 104), Row("c1", <<6>>, 3, 30),
      Row("c1", <<7>>, 6, 60)>>

MCInvoiceIds == 1..7

MCPayments == 8..32

=============================================================================
