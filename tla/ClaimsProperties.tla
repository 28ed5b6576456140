-------------------------- MODULE ClaimsProperties --------------------------
(***************************************************************************)
(* What adjudication owes the policyholder, the auditor and the insurer,   *)
(* over any sequence of runs, reruns, kills and overlapping jobs.  Stated  *)
(* over ClaimsReference; docs/adjudication_rules.md is the yardstick.      *)
(***************************************************************************)
EXTENDS ClaimsReference

Statuses == {"paid", "zero_payment", "no_coverage"}

(* The types of the database, the files and a job's memory. *)
TypeOK ==
    /\ \A p \in payments \cup draft : IsRecord(p)
    /\ \A q \in charges \cup newCharges : IsCharge(q)
    /\ writer \in Jobs \cup {NoJob}
    /\ pc \in [Jobs -> Ended \cup {"begin", "claims", "open", "close"}]
    /\ batch \in [Jobs -> RunBatches]
    /\ asOf \in [Jobs -> Int]
    /\ todo \in [Jobs -> SUBSET ClaimIds]
    /\ \A j \in Jobs : \A res \in results[j] :
           /\ res.claim \in ClaimsOf(batch[j])
           /\ res.status \in Statuses
           /\ res.daysLate \in Nat
           /\ \A p \in res.record : IsRecord(p)
           /\ \A q \in res.charge : IsCharge(q)
    /\ \A b \in Batches : export[b].state \in {"absent", "truncated", "written", "mixed"}
    /\ shared \in [Jobs -> BOOLEAN]
    /\ runs \in 0..MaxRuns
    /\ alone \in Jobs \cup {NoJob}

-----------------------------------------------------------------------------
(* The terms apply per occurrence, over all claims, batches and reruns. *)

OccurrenceVersion(o) == VersionFor(CHOOSE c \in ClaimIds : Claim[c].occurrence = o)

OccurrenceTerm(o) ==
    LET c == CHOOSE c \in ClaimIds : Claim[c].occurrence = o
    IN  OccurrenceDeductible(VersionFor(c), c)

PaidOccurrences(rows) == {Claim[p.claim].occurrence : p \in rows}

AllAttributed(rows) == SumFunction([p \in rows |-> TotalOf(p.attributed)])

TermsKept(rows) ==
    \A o \in PaidOccurrences(rows) :
        LET v == OccurrenceVersion(o)
            paid == OnOccurrence(rows, o)
        IN  /\ IndemnityPaid(paid) <= v.limit
            /\ \A cat \in DOMAIN v.sublimits :
                   CategoryAttributed(paid, cat) <= v.sublimits[cat]

DeductibleKept(rows) ==
    \A o \in PaidOccurrences(rows) :
        LET paid == OnOccurrence(rows, o)
        IN  DeductibleAbsorbed(paid) = Min({OccurrenceTerm(o), AllAttributed(paid)})

EarlierBears(rows) ==
    \A p, q \in rows :
        /\ p.batch = q.batch
        /\ Claim[p.claim].occurrence = Claim[q.claim].occurrence
        /\ Claim[p.claim].received < Claim[q.claim].received
        /\ q.deductible > 0
        => p.deductible = TotalOf(p.attributed)

(***************************************************************************)
(* Sections 4.2 and 4.4: what an occurrence was paid never passes the      *)
(* contents limit, nor what it was attributed in a category the sublimit,  *)
(* whichever claims, batches and reruns it is spread over (occurrence_prior*)
(* and the headrooms of adjudicate).                                       *)
(***************************************************************************)
WithinTerms == TermsKept(payments)

(***************************************************************************)
(* Section 4.3: an occurrence absorbs its deductible once: exactly the     *)
(* smaller of the deductible and all it was attributed, never less after a *)
(* rerun of an early batch and never more after a late one.                *)
(***************************************************************************)
DeductibleOnce == DeductibleKept(payments)

(***************************************************************************)
(* Section 8: of two claims of one occurrence in one batch the one received*)
(* first is the other's prior activity, so the other bears deductible only *)
(* when the first one's is all used up on it (get_claims_for_batch), after *)
(* a rerun too.                                                            *)
(***************************************************************************)
EarlierClaimBearsDeductible == EarlierBears(payments)

-----------------------------------------------------------------------------
(* What a history is like when these hold from the start. *)

(* The records of the history are of months that are not run again. *)
HistoryIsPast == \A p \in History : p.batch \notin RunBatches

(* It was paid under versions in force, within their terms. *)
HistoryWithinTerms ==
    /\ \A p \in History : Covered(p.claim)
    /\ TermsKept(History)

HistorySettled == DeductibleKept(History) /\ EarlierBears(History)

-----------------------------------------------------------------------------
(* Batches and reruns. *)

(***************************************************************************)
(* Section 8: for a reader of the database a batch settles at one moment,  *)
(* one record for each covered claim and none for the others, and every    *)
(* later run of it, overlapped or killed, leaves the table as it is, but   *)
(* for the payment date and the interest, which are those of its --as-of.  *)
(***************************************************************************)
ImplementsBook == Book!Spec

RecordsOf(b) == {p \in payments : p.batch = b}

ChargesOf(b) == {q \in charges : q.batch = b}

(* The delay and the interest of a row are those of one payment date. *)
IsAsOf(res, b, date) ==
    /\ res.record # {} => res.daysLate = DaysLate(res.claim, date)
    /\ res.charge = {ChargeFor(res.claim, b, date, p.indemnity) : p \in res.record}

ShowsSettlement(b) ==
    /\ {res.claim : res \in export[b].rows} = ClaimsOf(b)
    /\ UNION {res.record : res \in export[b].rows} = RecordsOf(b)
    /\ \E date \in AsOfs[b] : \A res \in export[b].rows : IsAsOf(res, b, date)

ShowsCharges(b) == UNION {res.charge : res \in export[b].rows} = ChargesOf(b)

(***************************************************************************)
(* An export that one job's rows make up lists every claim of its batch,   *)
(* shows exactly the indemnities and deductibles the table holds for it,   *)
(* and the delays and interest of one payment date, although it is written *)
(* after the commit and another run may have come between (write_export).  *)
(* That date need not be the table's: a run as of another date may have    *)
(* committed and been killed before it wrote its own.  But when a run ends *)
(* well, with no other beside it, its export is whole and shows the table, *)
(* payment date and interest included.                                     *)
(***************************************************************************)
ExportMirrorsLedger ==
    /\ \A b \in Batches : export[b].state = "written" => ShowsSettlement(b)
    /\ \A j \in Jobs : alone = j /\ pc[j] = "done" =>
           /\ export[batch[j]].state = "written"
           /\ ShowsCharges(batch[j])

(***************************************************************************)
(* A started job comes to an end: exported, failed or killed.              *)
(***************************************************************************)
StartedRunEnds == \A j \in Jobs : Running(j) ~> pc[j] \in {"done", "failed", "killed"}

-----------------------------------------------------------------------------
(* What the rules say of every batch, and the code does not do for one     *)
(* with records that are not its claims'.                                  *)

(***************************************************************************)
(* Section 8: a rerun "replaces the payment records the same batch         *)
(* produced earlier (one record per claim per batch, never duplicates)":   *)
(* a claim paid in a batch has a record in that batch after any rerun.     *)
(***************************************************************************)
PaidClaimsStayRecorded ==
    [][\A p \in payments : \E q \in payments' : q.claim = p.claim /\ q.batch = p.batch]_vars

=============================================================================
