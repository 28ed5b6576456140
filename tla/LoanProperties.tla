--------------------------- MODULE LoanProperties ---------------------------
(***************************************************************************)
(* What `pyledger run` and `pyledger recon` promise of an LNOUT dataset.   *)
(***************************************************************************)
EXTENDS LoanBatch, LoanLegacy

(***************************************************************************)
(* Every stage of a job with the data it has in that stage; what is on     *)
(* disk is cells of LNOUT records and gaps.                                *)
(***************************************************************************)
TypeOK ==
    /\ pc \in [Jobs -> Ended \cup {"load", "details", "close", "raised"}]
    /\ input \in [Jobs -> Inputs]
    /\ alone \in [Jobs -> BOOLEAN]
    /\ runs \in [Jobs -> 0 .. MaxRuns]
    /\ \A j \in Jobs :
        /\ next[j] \in 1 .. Len(input[j].master) + 1 \/ ~Writing(j)
        /\ DOMAIN totals[j] = DOMAIN NoTotals
        /\ Writing(j) => offset[j] + Len(buffer[j]) <= 2 * (Len(input[j].master) + 1)
    /\ \A i \in DOMAIN file :
        \/ file[i] = Nul
        \/ \E layout \in {LnoutDetail, LnoutTrailer} :
            DOMAIN file[i] \in {DOMAIN FrontHalf(layout), DOMAIN BackHalf(layout)}

-----------------------------------------------------------------------------
(* The mainframe's file for an input, record by record of the master. *)

LegacyAfter(in) ==
    LET after[k \in 0 .. Len(in.master)] ==
            IF k = 0 THEN [cells |-> <<>>, totals |-> LegacyNothing]
            ELSE IF IsClosed(in.master[k]) THEN after[k - 1]
            ELSE [cells |-> after[k - 1].cells \o CellsOf(LegacyDetail(in.master[k], in)),
                  totals |-> LegacyTotals(after[k - 1].totals, LegacyResult(in.master[k], in))]
    IN  after

LegacyFile(in) ==
    LET all == LegacyAfter(in)[Len(in.master)]
    IN  all.cells \o CellsOf(LegacyTrailer(all.totals))

RecordsOf(dataset) == {Records(dataset)[k] : k \in DOMAIN Records(dataset)}

LegacyFiles == {LegacyFile(in) : in \in {i \in Inputs : Loads[i]}}

(***************************************************************************)
(* `pyledger recon` may read the output at any moment, while jobs write    *)
(* it, after a kill, or after two of them overlapped.  When it reports     *)
(* MATCH the file has the mainframe's records, all of them and no others,  *)
(* and its trailer: split_records and reconcile accept nothing half done.  *)
(***************************************************************************)
CleanMeansSame ==
    \A legacy \in LegacyFiles : Clean(legacy, file) =>
        /\ Len(file) = Len(legacy)
        /\ RecordsOf(file) = RecordsOf(legacy)

-----------------------------------------------------------------------------

Finished(j) == pc[j] = "done" /\ alone[j]

OpenAccounts(in) == Kept(in.master, {k \in DOMAIN in.master : ~IsClosed(in.master[k])})

SumOver(seq, Value(_)) == SumFunction([k \in DOMAIN seq |-> Value(seq[k])])

(* The entries of an account are within its paid item, added up anyhow. *)
EntriesFit(in, raw) ==
    LET counted == Counted(OnAccount(in.trans, raw.account))
    IN  SumOver(counted, LAMBDA t : t.amount.digits) < Width.money

(***************************************************************************)
(* README of the port and LND-4127: the candidate LNOUT is to be the       *)
(* mainframe's to the byte.  A run that ends without another job at the    *)
(* file leaves exactly that, whatever was killed before it and wherever    *)
(* its buffer was cut: every store, rounding, century, sign, boundary and  *)
(* total is LNACCR01's.  LNACCR01 adds the entries of an account as they   *)
(* arrive and the port in posting order: beyond the item's width the sums  *)
(* may part, so the entries of each account are taken to be within it.     *)
(***************************************************************************)
ByteIdentical ==
    \A j \in Jobs :
        (Finished(j) /\ \A raw \in ToSet(OpenAccounts(input[j])) : EntriesFit(input[j], raw))
            => file = LegacyFile(input[j])

(***************************************************************************)
(* test_trailer_invariants: the trailer of such a run counts, hashes and   *)
(* sums the details the file holds, read back with their signs, although   *)
(* each total is truncated to its item at every account.  A signed total   *)
(* is meant to hold whatever the details show.                             *)
(***************************************************************************)
TrailerAddsUp ==
    \A j \in Jobs : Finished(j) =>
        LET open == OpenAccounts(input[j])
            details == SubSeq(Records(file), 1, Len(open))
            trailer == Last(Records(file))
            Balance(rec) == DecodeField(rec[1].balance, LnoutDetail.balance)
            Accrued(rec) == DecodeField(rec[1].accrued, LnoutDetail.accrued)
        IN  /\ Len(file) = 2 * Len(open) + 2 /\ OfType(file, "D") = DOMAIN open
            /\ \A k \in DOMAIN open : details[k][1].account.digits = open[k].account
            /\ trailer[1].count.digits = Len(open) % Width.count
            /\ trailer[1].hash.digits =
                    SumOver(details, LAMBDA rec : rec[1].account.digits) % Width.hash
            /\ trailer[1].totFees.digits =
                    SumOver(details, LAMBDA rec : rec[1].lateFee.digits) % Width.money
            /\ SumOver(details, LAMBDA rec : rec[1].accrued.digits) < Width.money
                => DecodeField(trailer[1].totAccrued, LnoutTrailer.totAccrued) =
                       SumOver(details, Accrued)
            /\ SumOver(details, LAMBDA rec : rec[1].balance.digits) < Width.total
                => DecodeField(trailer[2].totBalance, LnoutTrailer.totBalance) =
                       SumOver(details, Balance)

(***************************************************************************)
(* A launched job comes to an end: its file closed, or failed, or killed.  *)
(***************************************************************************)
RunEnds == \A j \in Jobs : Running(j) ~> pc[j] \in {"done", "failed", "killed"}

=============================================================================
