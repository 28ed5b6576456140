------------------------------ MODULE LoanRecon ------------------------------
(***************************************************************************)
(* LNOUT datasets on disk and their comparison, pyledger/recon.py.  A file *)
(* is a sequence of cells, two for each 80-byte record: its front (account *)
(* to late fee, counters to fee total) and its back (the rest, the record  *)
(* type and the terminator).  A write may stop between two cells, a write  *)
(* past the end of a truncated file leaves cells of NUL bytes.             *)
(***************************************************************************)
EXTENDS LoanTerms

FrontFields == {"account", "product", "asof", "balance", "accrued", "lateFee",
                "count", "hash", "totAccrued", "totFees"}

FrontHalf(rec) == Restrict(rec, DOMAIN rec \cap FrontFields)

BackHalf(rec) == Restrict(rec, DOMAIN rec \ FrontFields)

Nul == [nul |-> "nul"]

CellsOf(rec) == <<FrontHalf(rec), BackHalf(rec)>>

-----------------------------------------------------------------------------
(* split_records *)

Records(file) == [k \in 1 .. Len(file) \div 2 |-> <<file[2 * k - 1], file[2 * k]>>]

RecordType(rec) == IF "recType" \in DOMAIN rec[2] THEN rec[2].recType ELSE "nul"

(* The first ten bytes, whatever the record holds there. *)
KeyOf(rec) == Restrict(rec[1], DOMAIN rec[1] \cap {"account", "count", "hash", "nul"})

(* The places of the records of a type. *)
OfType(file, type) ==
    {k \in 1 .. Len(file) \div 2 : RecordType(Records(file)[k]) = type}

Keys(file) == {KeyOf(Records(file)[k]) : k \in OfType(file, "D")}

(* details: a later record of the same account replaces the earlier. *)
DetailFor(file, key) ==
    Records(file)[Max({k \in OfType(file, "D") : KeyOf(Records(file)[k]) = key})]

NoDuplicate(file) == Cardinality(Keys(file)) = Cardinality(OfType(file, "D"))

OneTrailer(file) == Cardinality(OfType(file, "T")) = 1

StructureOk(file) ==
    /\ Len(file) % 2 = 0
    /\ OfType(file, "D") \cup OfType(file, "T") = 1 .. Len(file) \div 2
    /\ NoDuplicate(file)
    /\ OneTrailer(file)

-----------------------------------------------------------------------------
(* reconcile: exit status 0 of `pyledger recon`. *)

Missing(legacy, candidate) == Keys(legacy) \ Keys(candidate)

Extra(legacy, candidate) == Keys(candidate) \ Keys(legacy)

Mismatched(legacy, candidate) ==
    {key \in Keys(legacy) \cap Keys(candidate) :
        DetailFor(legacy, key) # DetailFor(candidate, key)}

Trailers(file) == {Records(file)[k] : k \in OfType(file, "T")}

(* A slip for CleanMeansSame: the report stops at the details. *)
TrailersUnread(legacy, candidate) == FALSE

TrailersDiffer(legacy, candidate) ==
    /\ OneTrailer(legacy) /\ OneTrailer(candidate)
    /\ Trailers(legacy) # Trailers(candidate)

Clean(legacy, candidate) ==
    /\ StructureOk(candidate) /\ StructureOk(legacy)
    /\ Missing(legacy, candidate) = {} /\ Extra(legacy, candidate) = {}
    /\ Mismatched(legacy, candidate) = {}
    /\ ~TrailersDiffer(legacy, candidate)

=============================================================================
