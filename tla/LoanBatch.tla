------------------------------ MODULE LoanBatch ------------------------------
(***************************************************************************)
(* `pyledger run`: jobs that read their datasets, walk the loan master and *)
(* stream LNOUT to one output file.  Nothing locks or renames the file:    *)
(* opening it truncates it, the buffer goes to disk piece by piece at the  *)
(* job's own offset, an exception closes it as it stands.  A job may be    *)
(* killed at every step, and jobs may overlap.                             *)
(***************************************************************************)
EXTENDS LoanRecon

CONSTANTS
    Jobs,
    Inputs,     \* what a run may be given: master, trans, rates, asof, torn
    MaxRuns     \* bound on the runs of one job

ASSUME RunsAssumption == MaxRuns \in Nat

ASSUME InputsAssumption == Inputs # {}

(* What LNMAST, LNTRAN and RATETBL can hold: an item has as many digits as *)
(* its PICTURE, and none but an amount has a sign; a table of at most nine *)
(* tiers.                                                                  *)
Amounts(kind) == [digits : 0 .. Width[kind] - 1, zone : STRING]

LnmastRecords ==
    [account : 0 .. Width.account - 1, product : STRING, status : STRING,
     orig : Dates, due : Dates, lastAccrual : Dates, principal : Amounts("money"),
     paymentDue : Amounts("amount"), grace : Nat, waive : STRING]

LntranRecords ==
    [account : 0 .. Width.account - 1, date : Dates, seq : Nat, type : STRING,
     amount : Amounts("amount"), void : STRING]

RatetblRows ==
    [upper : Nat, rate : Nat, latePct : Nat, feeMin : 0 .. Width.fee - 1,
     feeMax : 0 .. Width.fee - 1]

ASSUME ItemsAssumption == \A in \in Inputs :
    /\ in.master \in Seq(LnmastRecords)
    /\ in.trans \in Seq(LntranRecords)
    /\ in.rates.count \in 0 .. Width.tier - 1 /\ in.rates.tiers \in Seq(RatetblRows)
    /\ in.asof \in Dates

(* LM-PMT-DUE-AMT is unsigned. *)
ASSUME PaymentDueAssumption == \A in \in Inputs :
    \A k \in DOMAIN in.master : in.master[k].paymentDue.zone # "D"

(* Years are of two digits, and the as-of date is near enough to them that *)
(* a number of days is within the five digits LNACCR01 keeps of it.        *)
ASSUME PeriodAssumption == \A in \in Inputs :
    \A k \in DOMAIN in.master :
        Magnitude(IntegerOfDate(in.asof) - RollForward(FromYymmdd(in.master[k].due))) < Width.period

VARIABLES
    file,       \* the output dataset on disk, a sequence of cells
    pc,         \* where a job stands
    input,      \* what it was given
    next,       \* position in the master
    totals,     \* BatchTotals
    buffer,     \* cells written and not yet on disk
    offset,     \* cells of the file this job has put on disk
    alone,      \* no other job has had the file open since this one opened it
    runs

job == <<pc, input, next, totals, buffer, offset>>
vars == <<file, job, alone, runs>>

-----------------------------------------------------------------------------
(* load_master and process_account *)

Account(raw) ==
    [account |-> raw.account, product |-> raw.product, status |-> raw.status,
     orig |-> FromYymmdd(raw.orig), due |-> FromYymmdd(raw.due),
     lastAccrual |-> FromYymmdd(raw.lastAccrual),
     principal |-> DecodeField(raw.principal, Lnmast.principal),
     paymentDue |-> DecodeField(raw.paymentDue, Lnmast.paymentDue), grace |-> raw.grace,
     waive |-> raw.waive = "Y"]

IsClosed(raw) == raw.status = "Z"

(* The four loaders end without an exception. *)
Loads == [in \in Inputs |->
    /\ ~in.torn
    /\ RatesLoad(in.rates)
    /\ \A k \in DOMAIN in.trans : Decodable(in.trans[k].amount, Lntran.amount)
    /\ \A k \in DOMAIN in.master :
        /\ Decodable(in.master[k].principal, Lnmast.principal)
        /\ Decodable(in.master[k].paymentDue, Lnmast.paymentDue)]

(* load_transactions, once for each input. *)
Posted == [in \in Inputs |-> PostingOrder(in.trans)]

Entries(in, raw) == OnAccount(Posted[in], raw.account)

ProcessAccount(account, paid, rates, asof) ==
    LET balance == ApplyPayments(account.principal, paid)
        ix == FindTier(rates, balance)
        tier == rates.tiers[ix]
        ratePerDay == DailyRate(tier, account.product)
        days == AccrualDays(account.product, account.lastAccrual, asof)
        late == DaysLate(account, paid, asof)
    IN  [account |-> account.account, product |-> account.product, balance |-> balance,
         tier |-> ix, rate |-> ratePerDay, accrDays |-> days,
         accrued |-> AccruedInterest(balance, ratePerDay, days), daysLate |-> late,
         lateFee |-> LateFee(account, tier, late, asof),
         status |-> StatusLetter(late, account.grace)]

(* By input and position in the master. *)
Results ==
    [in \in Inputs |-> [k \in DOMAIN in.master |->
        LET raw == in.master[k]
        IN  ProcessAccount(Account(raw), PaidInPeriod(Entries(in, raw)), in.rates, in.asof)]]

-----------------------------------------------------------------------------
(* BatchTotals and the records of writer.py. *)

NoTotals == [count |-> 0, hash |-> 0, totAccrued |-> 0, totFees |-> 0, totBalance |-> 0]

Accumulate(tot, result) ==
    [count |-> tot.count + 1,
     hash |-> (tot.hash + result.account) % Width.hash,
     totAccrued |-> FitToPic(tot.totAccrued + result.accrued, LnoutTrailer.totAccrued),
     totFees |-> FitToPic(tot.totFees + result.lateFee, LnoutTrailer.totFees),
     totBalance |-> FitToPic(tot.totBalance + result.balance, LnoutTrailer.totBalance)]

DetailRecord(result, asof) ==
    EncodeRecord(LnoutDetail, [f \in DOMAIN LnoutDetail |->
        CASE f = "asof" -> ToYyyymmdd(asof) [] f = "recType" -> "D" [] OTHER -> result[f]])

TrailerRecord(tot) ==
    EncodeRecord(LnoutTrailer, [f \in DOMAIN LnoutTrailer |->
        IF f = "recType" THEN "T" ELSE tot[f]])

-----------------------------------------------------------------------------

Ended == {"idle", "done", "failed", "killed"}

Running(j) == pc[j] \notin Ended

(* The LnoutWriter of the job is open. *)
Writing(j) == pc[j] \in {"details", "close", "raised"}

Init ==
    /\ file = <<>>
    /\ pc = [j \in Jobs |-> "idle"]
    /\ input = [j \in Jobs |-> CHOOSE in \in Inputs : TRUE]
    /\ next = [j \in Jobs |-> 1]
    /\ totals = [j \in Jobs |-> NoTotals]
    /\ buffer = [j \in Jobs |-> <<>>]
    /\ offset = [j \in Jobs |-> 0]
    /\ alone = [j \in Jobs |-> FALSE]
    /\ runs = [j \in Jobs |-> 0]

Launch(j, in) ==
    /\ ~Running(j)
    /\ runs[j] < MaxRuns
    /\ runs' = [runs EXCEPT ![j] = @ + 1]
    /\ input' = [input EXCEPT ![j] = in]
    /\ pc' = [pc EXCEPT ![j] = "load"]
    /\ UNCHANGED <<file, next, totals, buffer, offset, alone>>

LoadFails(j) ==
    /\ pc[j] = "load"
    /\ ~Loads[input[j]]
    /\ pc' = [pc EXCEPT ![j] = "failed"]
    /\ UNCHANGED <<file, input, next, totals, buffer, offset, alone, runs>>

(* The inputs are in memory; open(.., "wb") truncates the output. *)
Open(j) ==
    /\ pc[j] = "load"
    /\ Loads[input[j]]
    /\ file' = <<>>
    /\ next' = [next EXCEPT ![j] = 1]
    /\ totals' = [totals EXCEPT ![j] = NoTotals]
    /\ buffer' = [buffer EXCEPT ![j] = <<>>]
    /\ offset' = [offset EXCEPT ![j] = 0]
    /\ alone' = [k \in Jobs |-> k = j /\ ~\E other \in Jobs \ {j} : Writing(other)]
    /\ pc' = [pc EXCEPT ![j] = "details"]
    /\ UNCHANGED <<input, runs>>

AtAccount(j) == pc[j] = "details" /\ next[j] <= Len(input[j].master)

Raw(j) == input[j].master[next[j]]

(* A slip for TypeOK: the walk does not move on. *)
Stay(j) == next' = next

Advance(j) == next' = [next EXCEPT ![j] = @ + 1]

SkipClosed(j) ==
    /\ AtAccount(j) /\ IsClosed(Raw(j))
    /\ Advance(j)
    /\ UNCHANGED <<file, pc, input, totals, buffer, offset, alone, runs>>

WriteDetail(j) ==
    /\ AtAccount(j) /\ ~IsClosed(Raw(j))
    /\ ~UnknownType(Entries(input[j], Raw(j)))
    /\ LET result == Results[input[j]][next[j]]
       IN  /\ buffer' = [buffer EXCEPT ![j] = @ \o CellsOf(DetailRecord(result, input[j].asof))]
           /\ totals' = [totals EXCEPT ![j] = Accumulate(@, result)]
    /\ Advance(j)
    /\ UNCHANGED <<file, pc, input, offset, alone, runs>>

(* paid_in_period raises: the with statement closes the file. *)
RaiseUnknown(j) ==
    /\ AtAccount(j) /\ ~IsClosed(Raw(j))
    /\ UnknownType(Entries(input[j], Raw(j)))
    /\ pc' = [pc EXCEPT ![j] = "raised"]
    /\ UNCHANGED <<file, input, next, totals, buffer, offset, alone, runs>>

WriteTrailer(j) ==
    /\ pc[j] = "details" /\ next[j] > Len(input[j].master)
    /\ buffer' = [buffer EXCEPT ![j] = @ \o CellsOf(TrailerRecord(totals[j]))]
    /\ pc' = [pc EXCEPT ![j] = "close"]
    /\ UNCHANGED <<file, input, next, totals, offset, alone, runs>>

(* A write(2) of the cells at the job's offset: a gap reads as NUL. *)
Overlaid(cells, from) ==
    [i \in 1 .. Max({Len(file), from + Len(cells)}) |->
        IF i \in from + 1 .. from + Len(cells) THEN cells[i - from]
        ELSE IF i <= Len(file) THEN file[i] ELSE Nul]

(* A slip for RunEnds: the rest is kept for a buffer that fills again. *)
FlushWhenFull(j) ==
    /\ Writing(j) /\ Len(buffer[j]) >= 4
    /\ file' = Overlaid(buffer[j], offset[j])
    /\ offset' = [offset EXCEPT ![j] = @ + Len(buffer[j])]
    /\ buffer' = [buffer EXCEPT ![j] = <<>>]
    /\ UNCHANGED <<pc, input, next, totals, alone, runs>>

(* The full buffer goes out wherever it is cut, the rest on close. *)
Flush(j) ==
    /\ Writing(j) /\ buffer[j] # <<>>
    /\ \E n \in 1 .. Len(buffer[j]) :
        /\ file' = Overlaid(SubSeq(buffer[j], 1, n), offset[j])
        /\ offset' = [offset EXCEPT ![j] = @ + n]
        /\ buffer' = [buffer EXCEPT ![j] = SubSeq(@, n + 1, Len(@))]
    /\ UNCHANGED <<pc, input, next, totals, alone, runs>>

(* __exit__, with or without an exception. *)
Close(j) ==
    /\ pc[j] \in {"close", "raised"} /\ buffer[j] = <<>>
    /\ pc' = [pc EXCEPT ![j] = IF pc[j] = "close" THEN "done" ELSE "failed"]
    /\ UNCHANGED <<file, input, next, totals, buffer, offset, alone, runs>>

Kill(j) ==
    /\ Running(j)
    /\ pc' = [pc EXCEPT ![j] = "killed"]
    /\ buffer' = [buffer EXCEPT ![j] = <<>>]
    /\ UNCHANGED <<file, input, next, totals, offset, alone, runs>>

JobStep(j) ==
    \/ Close(j) \/ Flush(j)
    \/ WriteTrailer(j) \/ SkipClosed(j) \/ RaiseUnknown(j) \/ WriteDetail(j)
    \/ LoadFails(j) \/ Open(j)

Next ==
    \E j \in Jobs :
        \/ \E in \in Inputs : Launch(j, in)
        \/ JobStep(j)
        \/ Kill(j)

(* A launched process is scheduled until it ends. *)
Spec == Init /\ [][Next]_vars /\ \A j \in Jobs : WF_vars(JobStep(j))

=============================================================================
