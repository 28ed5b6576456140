----------------------------- MODULE ReconLedger -----------------------------
(***************************************************************************)
(* What the receivables ledger promises the close jobs that read it (the   *)
(* persistence contract of the recon README): an append-only book.  A      *)
(* statement line is recorded before anything is posted to it, a posting   *)
(* pays one open invoice and stays for ever, and no invoice is reopened or *)
(* posted twice.                                                           *)
(***************************************************************************)
CONSTANTS InvoiceIds, LineIds, Rules, PaidAtImport

VARIABLES
    status,         \* invoices.status
    matchResults,   \* rows (line_id, invoice_id, rule) of match_results
    bankLines       \* keys of bank_lines

ledger == <<status, matchResults, bankLines>>

Row(l, i, rule) == [line |-> l, invoice |-> i, rule |-> rule]

Init ==
    /\ status = [i \in InvoiceIds |-> IF i \in PaidAtImport THEN "paid" ELSE "open"]
    /\ matchResults = {}
    /\ bankLines = {}

RecordLine(l) ==
    /\ bankLines' = bankLines \cup {l}
    /\ UNCHANGED <<status, matchResults>>

Post(l, i, rule) ==
    /\ l \in bankLines
    /\ status[i] = "open"
    /\ status' = [status EXCEPT ![i] = "paid"]
    /\ matchResults' = matchResults \cup {Row(l, i, rule)}
    /\ UNCHANGED bankLines

Next ==
    \/ \E l \in LineIds : RecordLine(l)
    \/ \E l \in LineIds, i \in InvoiceIds, rule \in Rules : Post(l, i, rule)

Spec == Init /\ [][Next]_ledger

=============================================================================
