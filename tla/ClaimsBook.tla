----------------------------- MODULE ClaimsBook ------------------------------
(***************************************************************************)
(* What section 8 of docs/adjudication_rules.md promises of the payments   *)
(* table: a batch settles as a whole, once.  It gets one record for each   *)
(* of its payable claims and for nothing else, all at one moment, and      *)
(* running it again changes nothing.                                       *)
(***************************************************************************)
CONSTANTS
    Batches,
    Payable,    \* Payable[b]: the claims of batch b that are due a record
    History     \* the records the table starts with

VARIABLE payments

ClaimsIn(rows) == {p.claim : p \in rows}

Init == payments = History

Settle(b) ==
    LET settled == payments' \ payments
    IN  /\ \A p \in payments : p.batch # b
        /\ payments \subseteq payments'
        /\ \A p \in settled : p.batch = b
        /\ ClaimsIn(settled) = Payable[b]
        /\ \A p, q \in settled : p.claim = q.claim => p = q

Next == \E b \in Batches : Settle(b)

Spec == Init /\ [][Next]_payments

=============================================================================
