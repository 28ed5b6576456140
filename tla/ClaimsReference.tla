--------------------------- MODULE ClaimsReference ---------------------------
(***************************************************************************)
(* `tessera.cli adjudicate` with the reference solution applied: jobs that *)
(* adjudicate a monthly batch against one SQLite database.  run_batch is   *)
(* one transaction: its first statement, the DELETE of clear_batch, takes  *)
(* the write lock, every later read is inside it, and the export is        *)
(* written after the commit, to the file of the batch, which two jobs may  *)
(* have open at once.  A job that finds the lock taken waits, then raises; *)
(* a job may be killed at any step and any batch may be run again, as of   *)
(* the same date or another.                                               *)
(***************************************************************************)
EXTENDS ClaimsTerms

CONSTANTS
    Jobs,           \* operators' shells: each runs one batch at a time
    NoJob,
    RunBatches,     \* the batches operators run
    AsOfs,          \* AsOfs[b]: the payment dates they give for batch b
    MaxRuns         \* bound on the runs started in all

ASSUME RunsAssumption ==
    /\ MaxRuns \in Nat /\ NoJob \notin Jobs /\ RunBatches \subseteq Batches /\ RunBatches # {}
    /\ \A b \in RunBatches : AsOfs[b] \subseteq Int

VARIABLES
    payments,   \* the payments table as committed: what adjudication reads
    charges,    \* its columns payment_date and interest
    writer,     \* the job that holds the write lock
    draft,      \* payments as the writer sees it
    newCharges, \* charges as the writer sees it
    pc,         \* where a job stands
    batch,      \* the batch a job runs
    asOf,       \* its --as-of
    todo,       \* claims not yet adjudicated
    results,    \* the AdjudicationResults of the run
    export,     \* the export file of each batch
    shared,     \* whether another job has had the job's export open beside it
    runs,       \* runs started so far
    alone       \* history: the job started last, if none has run beside it

database == <<payments, charges>>
transaction == <<writer, draft, newCharges>>
arguments == <<batch, asOf>>
counts == <<runs, alone>>
job == <<pc, arguments, todo, results>>
vars == <<database, transaction, job, export, shared, counts>>

Book == INSTANCE ClaimsBook WITH
            Payable <- [b \in Batches |-> {c \in ClaimsOf(b) : VersionsInForce(c) # {}}]

-----------------------------------------------------------------------------
(* adjudicate: one claim against the records of its occurrence. *)

(* find_version: the most recent of the versions in force. *)
VersionFor(c) ==
    LET policy == Claim[c].policy
        inForce == {k \in DOMAIN Versions[policy] : InForce(Versions[policy][k], Claim[c].loss)}
    IN  Versions[policy][Max(inForce)]

Covered(c) == VersionsInForce(c) # {}

(* A slip for WithinTerms and DeductibleOnce: the claim's own records only, *)
(* as in the application as shipped.                                       *)
PriorOfClaim(rows, c) == {p \in rows : p.claim = c}

(* occurrence_prior *)
Prior(rows, c) == OnOccurrence(rows, Claim[c].occurrence)

(* apply_sublimits *)
Attributed(c, v, prior) ==
    [cat \in Categories(c) |->
        IF cat \in DOMAIN v.sublimits
        THEN Min({CategoryValue(c, cat),
                  NonNegative(v.sublimits[cat] - CategoryAttributed(prior, cat))})
        ELSE CategoryValue(c, cat)]

DeductibleRemaining(c, v, prior) ==
    NonNegative(OccurrenceDeductible(v, c) - DeductibleAbsorbed(prior))

(* A slip for TypeOK: the whole deductible, whatever is covered. *)
WholeDeductible(c, v, prior, covered) == DeductibleRemaining(c, v, prior)

DeductibleApplied(c, v, prior, covered) ==
    Min({DeductibleRemaining(c, v, prior), covered})

LimitHeadroom(v, prior) == NonNegative(v.limit - IndemnityPaid(prior))

(* adjudicate and build_payment for a covered claim. *)
PaymentFor(c, b, v, prior, attributed) ==
    LET covered == TotalOf(attributed)
        deductible == DeductibleApplied(c, v, prior, covered)
        indemnity == Min({covered - deductible, LimitHeadroom(v, prior)})
    IN  Payment(c, b, v.id, indemnity, deductible, attributed)

ChargeFor(c, b, date, indemnity) ==
    Charge(c, b, date, InterestAmount(c, indemnity, DaysLate(c, date)))

(* A row of the export; the record and its charge stand for its amounts.   *)
Uncovered(c) ==
    [claim |-> c, status |-> "no_coverage", record |-> {}, daysLate |-> 0, charge |-> {}]

Adjudicated(c, row, charge) ==
    [claim |-> c,
     status |-> IF row.indemnity > 0 THEN "paid" ELSE "zero_payment",
     record |-> {row},
     daysLate |-> DaysLate(c, charge.date),
     charge |-> {charge}]

-----------------------------------------------------------------------------

Ended == {"idle", "done", "failed", "killed"}

Running(j) == pc[j] \notin Ended

Absent == [state |-> "absent", rows |-> {}]
Truncated == [state |-> "truncated", rows |-> {}]
Written(rows) == [state |-> "written", rows |-> rows]
Mixed == [state |-> "mixed", rows |-> {}]

Init ==
    /\ payments = History /\ charges = HistoryCharges
    /\ writer = NoJob
    /\ draft = {} /\ newCharges = {}
    /\ pc = [j \in Jobs |-> "idle"]
    /\ batch = [j \in Jobs |-> CHOOSE b \in RunBatches : TRUE]
    /\ asOf = [j \in Jobs |-> 0]
    /\ todo = [j \in Jobs |-> {}]
    /\ results = [j \in Jobs |-> {}]
    /\ export = [b \in Batches |-> Absent]
    /\ shared = [j \in Jobs |-> FALSE]
    /\ runs = 0
    /\ alone = NoJob

Start(j, b) ==
    /\ ~Running(j)
    /\ runs < MaxRuns
    /\ runs' = runs + 1
    /\ alone' = IF \E k \in Jobs : Running(k) THEN NoJob ELSE j
    /\ batch' = [batch EXCEPT ![j] = b]
    /\ \E date \in AsOfs[b] : asOf' = [asOf EXCEPT ![j] = date]
    /\ pc' = [pc EXCEPT ![j] = "begin"]
    /\ UNCHANGED <<database, transaction, todo, results, export, shared>>

(* The process ends without a commit: the transaction is rolled back and   *)
(* its memory is gone.                                                     *)
Abandon(j, end) ==
    /\ pc' = [pc EXCEPT ![j] = end]
    /\ todo' = [todo EXCEPT ![j] = {}]
    /\ results' = [results EXCEPT ![j] = {}]
    /\ writer' = IF writer = j THEN NoJob ELSE writer
    /\ draft' = IF writer = j THEN {} ELSE draft
    /\ newCharges' = IF writer = j THEN {} ELSE newCharges
    /\ UNCHANGED <<database, arguments, export, shared, counts>>

-----------------------------------------------------------------------------
(* run_batch *)

(* A slip for ImplementsBook: earlier records of the batch stay and count  *)
(* as prior activity.                                                      *)
KeepBatch(j) ==
    /\ pc[j] = "begin"
    /\ writer = NoJob
    /\ writer' = j
    /\ draft' = payments /\ newCharges' = charges
    /\ todo' = [todo EXCEPT ![j] = ClaimsOf(batch[j])]
    /\ pc' = [pc EXCEPT ![j] = "claims"]
    /\ UNCHANGED <<database, arguments, results, export, shared, counts>>

(* clear_batch and get_claims_for_batch. *)
ClearBatch(j) ==
    /\ pc[j] = "begin"
    /\ writer = NoJob
    /\ writer' = j
    /\ draft' = {p \in payments : p.batch # batch[j]}
    /\ newCharges' = {q \in charges : q.batch # batch[j]}
    /\ todo' = [todo EXCEPT ![j] = ClaimsOf(batch[j])]
    /\ pc' = [pc EXCEPT ![j] = "claims"]
    /\ UNCHANGED <<database, arguments, results, export, shared, counts>>

(* "database is locked" after the five seconds of sqlite3.connect. *)
LockTimeout(j) ==
    /\ pc[j] = "begin"
    /\ writer # NoJob
    /\ Abandon(j, "failed")

(* A slip for EarlierClaimBearsDeductible: ORDER BY claim_id, as shipped. *)
BeforeById(c, d) == c < d

(* ORDER BY loss_date, received_date, claim_id *)
Before(c, d) ==
    \/ Claim[c].loss < Claim[d].loss
    \/ /\ Claim[c].loss = Claim[d].loss
       /\ \/ Claim[c].received < Claim[d].received
          \/ Claim[c].received = Claim[d].received /\ c < d

(* A slip for StartedRunEnds: the claim stays in the list. *)
NextClaimAgain(j, c) ==
    /\ pc[j] = "claims"
    /\ c \in todo[j] /\ \A d \in todo[j] \ {c} : Before(c, d)
    /\ todo' = todo

NextClaim(j, c) ==
    /\ pc[j] = "claims"
    /\ c \in todo[j] /\ \A d \in todo[j] \ {c} : Before(c, d)
    /\ todo' = [todo EXCEPT ![j] = @ \ {c}]

AdjudicateUncovered(j) ==
    /\ \E c \in todo[j] :
        /\ NextClaim(j, c)
        /\ ~Covered(c)
        /\ results' = [results EXCEPT ![j] = @ \cup {Uncovered(c)}]
    /\ UNCHANGED <<database, transaction, pc, arguments, export, shared, counts>>

AdjudicateCovered(j) ==
    /\ \E c \in todo[j] :
        /\ NextClaim(j, c)
        /\ Covered(c) /\ c \notin Defective
        /\ \E v \in {VersionFor(c)}, prior \in {Prior(draft, c)} :
           \E attributed \in {Attributed(c, v, prior)} :
           \E row \in {PaymentFor(c, batch[j], v, prior, attributed)} :
           \E charge \in {ChargeFor(c, batch[j], asOf[j], row.indemnity)} :
            /\ draft' = Record(draft, row)
            /\ newCharges' = Record(newCharges, charge)
            /\ results' = [results EXCEPT ![j] = @ \cup {Adjudicated(c, row, charge)}]
    /\ UNCHANGED <<database, writer, pc, arguments, export, shared, counts>>

(* A KeyError out of value_item or prompt_pay_rule. *)
AdjudicateRaises(j) ==
    /\ pc[j] = "claims"
    /\ \E c \in todo[j] :
        /\ \A d \in todo[j] \ {c} : Before(c, d)
        /\ Covered(c) /\ c \in Defective
    /\ Abandon(j, "failed")

Commit(j) ==
    /\ pc[j] = "claims"
    /\ todo[j] = {}
    /\ payments' = draft /\ charges' = newCharges
    /\ writer' = NoJob
    /\ draft' = {} /\ newCharges' = {}
    /\ pc' = [pc EXCEPT ![j] = "open"]
    /\ UNCHANGED <<arguments, todo, results, export, shared, counts>>

-----------------------------------------------------------------------------
(* write_export: open("w") truncates, and each handle writes at its own    *)
(* offset, when its buffer is full and when it is closed.  What two        *)
(* handles leave of one file may be the rows of one of them, or rows of    *)
(* both, or the tail of the longer text behind the shorter.                *)

Writing(j, b) == pc[j] = "close" /\ batch[j] = b

OpenExport(j) ==
    LET others == {k \in Jobs \ {j} : Writing(k, batch[j])}
    IN  /\ pc[j] = "open"
        /\ export' = [export EXCEPT ![batch[j]] = Truncated]
        /\ shared' = [k \in Jobs |-> CASE k = j -> others # {}
                                       [] k # j -> shared[k] \/ k \in others]
        /\ pc' = [pc EXCEPT ![j] = "close"]
        /\ UNCHANGED <<database, transaction, arguments, todo, results, counts>>

(* A full buffer is written into a file that another job has open too, or  *)
(* has finished.                                                           *)
FlushExport(j) ==
    /\ pc[j] = "close" /\ shared[j]
    /\ export' = [export EXCEPT ![batch[j]] = Mixed]
    /\ UNCHANGED <<database, transaction, job, shared, counts>>

(* A slip for ExportMirrorsLedger: rows for paid claims only. *)
CloseExportPaidOnly(j) ==
    /\ pc[j] = "close"
    /\ export' = [export EXCEPT ![batch[j]] =
                      Written({res \in results[j] : res.status = "paid"})]
    /\ pc' = [pc EXCEPT ![j] = "done"]
    /\ results' = [results EXCEPT ![j] = {}]
    /\ UNCHANGED <<database, transaction, arguments, todo, shared, counts>>

CloseExport(j) ==
    /\ pc[j] = "close"
    /\ \E file \in {Written(results[j])} \cup {f \in {Mixed} : shared[j]} :
           export' = [export EXCEPT ![batch[j]] = file]
    /\ pc' = [pc EXCEPT ![j] = "done"]
    /\ results' = [results EXCEPT ![j] = {}]
    /\ UNCHANGED <<database, transaction, arguments, todo, shared, counts>>

-----------------------------------------------------------------------------

Kill(j) == Running(j) /\ Abandon(j, "killed")

JobStep(j) ==
    \/ ClearBatch(j) \/ LockTimeout(j)
    \/ AdjudicateUncovered(j) \/ AdjudicateCovered(j) \/ AdjudicateRaises(j)
    \/ Commit(j) \/ OpenExport(j) \/ FlushExport(j) \/ CloseExport(j)

Next ==
    \E j \in Jobs :
        \/ \E b \in RunBatches : Start(j, b)
        \/ JobStep(j)
        \/ Kill(j)

(* A started process is scheduled until it ends. *)
Spec == Init /\ [][Next]_vars /\ \A j \in Jobs : WF_vars(JobStep(j))

=============================================================================
