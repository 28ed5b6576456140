-------------------------- MODULE ShippedProperties --------------------------
(***************************************************************************)
(* What the shipped adjudication keeps of a batch over reruns, rebuilds,   *)
(* kills and overlapping jobs.  The terms it gets wrong (the version by    *)
(* received date, prior activity by claim, no holidays) are those          *)
(* docs/adjudication_rules.md corrects; these properties hold beside them. *)
(***************************************************************************)
EXTENDS ClaimsShipped

(* The amounts are amounts, and a write lock is its holder's. *)
TypeOK ==
    /\ path \in 0 .. Len(files)
    /\ \A f \in DOMAIN files :
        /\ files[f].state \in {"empty", "schema", "loaded"}
        /\ \A p \in files[f].rows : IsRecord(p)
        /\ files[f].writer \in Jobs => handle[files[f].writer] = f
    /\ pc \in [Jobs -> Ended \cup {"unlink", "create", "schema", "load", "exists", "connect",
                                   "tables", "batch", "claims", "open", "close"}]
    /\ handle \in [Jobs -> 0 .. Len(files)]
    /\ \A j \in Jobs :
        /\ todo[j] \subseteq ClaimIds /\ Cardinality(inHand[j]) <= 1
        /\ draft[j] # {} => InTransaction(j)
        /\ \A res \in results[j] \cup inHand[j] : res.reduction \in Nat /\ res.daysLate \in Nat

-----------------------------------------------------------------------------

(* The records of a batch, less the history of claims that are not its own. *)
Produced(f, b) ==
    {p \in files[f].rows : p.batch = b /\ (p \in History => p.claim \in ClaimsOf(b))}

(***************************************************************************)
(* run_batch: whatever overlaps, dies or raises, a batch is in a database  *)
(* with a record for every one of its claims, all of one payment date, or  *)
(* with none beyond the history, although no lock is held before the first *)
(* record.                                                                 *)
(***************************************************************************)
BatchSettlesWhole ==
    \A f \in DOMAIN files, b \in Batches :
        ~ (Produced(f, b) \subseteq History) =>
            /\ {p.claim : p \in Produced(f, b)} = ClaimsOf(b)
            /\ \A p, q \in Produced(f, b) : p.paymentDate = q.paymentDate

(***************************************************************************)
(* prior_activity, record_payment: running a batch again takes no record   *)
(* away and gives every claim the version, indemnity and deductible it had *)
(* (the first run's records do not count against the second), and the same *)
(* interest as of the same date.                                           *)
(***************************************************************************)
SameSettlement(p, q) ==
    /\ p.version = q.version /\ p.indemnity = q.indemnity /\ p.deductible = q.deductible
    /\ p.paymentDate = q.paymentDate => p.interest = q.interest

RerunRepeats ==
    [][\A f \in DOMAIN files : \A p \in files[f].rows :
        \E q \in files'[f].rows :
            /\ q.claim = p.claim /\ q.batch = p.batch
            /\ p \in History \/ SameSettlement(p, q)]_vars

(***************************************************************************)
(* write_export: an export that one job's rows make up, if it has rows,    *)
(* lists the whole batch, each claim once, with the delays of one payment  *)
(* date, and its payments were recorded, in the database the job was       *)
(* connected to, with the same interest if as of the same date: never the  *)
(* rows of a run that was rolled back, nor of a half-built database.       *)
(***************************************************************************)
RowsAsOf(rows, b, f, date) ==
    \A res \in rows :
        /\ res.daysLate = DaysLate(res.claim, RuleFor(res.claim), date)
        /\ \E p \in Produced(f, b) :
            p.claim = res.claim /\ SameSettlement(PaymentOf(res, b, date), p)

ExportHasItsRecords ==
    \A b \in Batches : export[b].state = "written" /\ export[b].rows # {} =>
        /\ {res.claim : res \in export[b].rows} = ClaimsOf(b)
        /\ Cardinality(export[b].rows) = Cardinality(ClaimsOf(b))
        /\ \E f \in DOMAIN files, date \in AsOfs : RowsAsOf(export[b].rows, b, f, date)

=============================================================================
