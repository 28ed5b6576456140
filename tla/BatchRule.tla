------------------------------ MODULE BatchRule ------------------------------
(***************************************************************************)
(* Rule B3 of the reconciliation matcher: one transfer that pays several   *)
(* invoices of one customer.  FindBatch is the search the application      *)
(* ships (recon/matching/batch.py), an enumeration of subsets with a cap;  *)
(* Section4Batch is the rule docs/matching_rules.md defines, a contiguous  *)
(* oldest-first run.  Both return the set of winning batches: empty, or a  *)
(* singleton.                                                              *)
(***************************************************************************)
EXTENDS Integers, FiniteSets, FiniteSetsExt

CONSTANTS
    InvoiceIds,     \* primary keys of the invoices table
    Invoice,        \* Invoice[i]: the immutable columns of row i
    Tolerance,      \* amount_tolerance_cents
    BatchMinRun,    \* batch_min_run
    BatchMaxRun,    \* batch_max_run
    BatchWindow,    \* batch_window_days
    BatchSubsetCap  \* BATCH_SUBSET_CAP, the PR-418 hotfix

ASSUME InvoiceIdsAssumption == InvoiceIds \subseteq Nat /\ IsFiniteSet(InvoiceIds)

ASSUME InvoiceAssumption ==
    \A i \in InvoiceIds : Invoice[i].due \in Int /\ Invoice[i].amount \in Int

ASSUME BatchAssumption == BatchMinRun \in Nat \ {0} /\ BatchMaxRun \in Nat

-----------------------------------------------------------------------------

Abs(n) == IF n < 0 THEN -n ELSE n

(* The oldest-first order of open invoices: (due_date, id). *)
Older(i, j) ==
    \/ Invoice[i].due < Invoice[j].due
    \/ Invoice[i].due = Invoice[j].due /\ i < j

IsOldest(i, S) == i \in S /\ \A j \in S \ {i} : Older(i, j)

Oldest(S) == CHOOSE i \in S : IsOldest(i, S)

BatchTotal(C) == SumFunction([i \in C |-> Invoice[i].amount])

Span(C) == LET dues == {Invoice[i].due : i \in C} IN Max(dues) - Min(dues)

(* What the shipped search and the rule ask alike of a batch C. *)
PaysFor(C, amount) ==
    /\ Cardinality(C) \in BatchMinRun..BatchMaxRun
    /\ Abs(BatchTotal(C) - amount) <= Tolerance
    /\ Span(C) <= BatchWindow

-----------------------------------------------------------------------------
(* The shipped search. *)

(* itertools.combinations, called for growing sizes: shorter tuples first, *)
(* tuples of one size by the oldest invoice in which they differ.          *)
EnumeratedBefore(C, D) ==
    \/ Cardinality(C) < Cardinality(D)
    \/ Cardinality(C) = Cardinality(D) /\ Oldest(SymDiff(C, D)) \in C

FindBatch(open, amount) ==
    IF Cardinality(open) < BatchMinRun \/ Cardinality(open) > BatchSubsetCap
    THEN {}
    ELSE LET paying == {C \in SUBSET open : PaysFor(C, amount)}
         IN  {C \in paying : \A D \in paying \ {C} : EnumeratedBefore(C, D)}

-----------------------------------------------------------------------------
(* Section 4 of docs/matching_rules.md. *)

(* The contiguous slices of the oldest-first order, from a to b inclusive. *)
Slices(open) == {{x \in open : ~Older(x, a) /\ ~Older(b, x)} : a, b \in open}

(* Earliest start first; among runs with one start, the shortest. *)
Section4Prefers(C, D) ==
    \/ Older(Oldest(C), Oldest(D))
    \/ Oldest(C) = Oldest(D) /\ Cardinality(C) < Cardinality(D)

Section4Batch(open, amount) ==
    LET runs == {C \in Slices(open) : PaysFor(C, amount)}
    IN  {C \in runs : \A D \in runs \ {C} : Section4Prefers(C, D)}

=============================================================================
