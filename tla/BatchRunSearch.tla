--------------------------- MODULE BatchRunSearch ---------------------------
(***************************************************************************)
(* The run search of the reference solution (find_batch in                 *)
(* solution/solve.sh), step by step: an outer loop over the start of the   *)
(* run, an inner loop that extends it, prefix sums for the total, and two  *)
(* early exits from the inner loop.  The module asks whether those exits   *)
(* ever cut off the run that section 4 of docs/matching_rules.md selects.  *)
(***************************************************************************)
EXTENDS BatchRule

CONSTANT Payments   \* the credit amounts a customer may transfer

ASSUME SearchAssumption == Payments \cup {Tolerance, BatchWindow} \subseteq Int

(* What the exit on the total relies on. *)
ASSUME AmountsArePositive == \A x \in InvoiceIds : Invoice[x].amount > 0

VARIABLES
    open,       \* the customer's available invoices
    amount,     \* the payment
    i,          \* index of the run's first invoice, 0-based as in the code
    j,          \* index of the run's last invoice
    pc,         \* "search" | "found" | "exhausted"
    answer      \* the batch returned, {} for None

vars == <<open, amount, i, j, pc, answer>>

(* invs = oldest_first(invoices): the position of x in it, 0-based. *)
Rank(x) == Cardinality({y \in open : Older(y, x)})

At(k) == CHOOSE x \in open : Rank(x) = k

N == Cardinality(open)

Slice(a, b) == {x \in open : Rank(x) \in a..b}

(* prefix[b + 1] - prefix[a] *)
RunTotal(a, b) == BatchTotal(Slice(a, b))

RunSpan(a, b) == Invoice[At(b)].due - Invoice[At(a)].due

LastStart == N - BatchMinRun

(* range(i + batch_min_run - 1, min(n, i + batch_max_run)) *)
LastEnd(a) == Min({N, a + BatchMaxRun}) - 1

(* The types, with the ranges the two loop variables keep to. *)
TypeOK ==
    /\ open \subseteq InvoiceIds
    /\ amount \in Payments
    /\ i \in 0..Max({0, LastStart + 1})
    /\ j \in (i + BatchMinRun - 1)..Max({N, i + BatchMinRun - 1})
    /\ pc \in {"search", "found", "exhausted"}
    /\ answer \subseteq open

Init ==
    /\ open \in SUBSET InvoiceIds
    /\ amount \in Payments
    /\ i = 0
    /\ j = BatchMinRun - 1
    /\ pc = "search"
    /\ answer = {}

(* A slip for Terminates: the outer loop variable is not advanced. *)
SameStart ==
    /\ j' = i + BatchMinRun
    /\ UNCHANGED <<open, amount, i, pc, answer>>

(* A slip for TypeOK: the next run starts where this one ended. *)
StartAtEnd ==
    /\ i' = j
    /\ j' = j + BatchMinRun - 1
    /\ UNCHANGED <<open, amount, pc, answer>>

(* Either break of the inner loop, or its range running out: the next start. *)
NextStart ==
    /\ i' = i + 1
    /\ j' = i + BatchMinRun
    /\ UNCHANGED <<open, amount, pc, answer>>

Exhausted ==
    /\ pc = "search"
    /\ i > LastStart
    /\ pc' = "exhausted"
    /\ UNCHANGED <<open, amount, i, j, answer>>

InLoop == pc = "search" /\ i <= LastStart

(* A slip in an exit: the run stops where its total is within the tolerance. *)
TooDearWithoutTolerance == RunTotal(i, j) >= amount

TooLong == RunSpan(i, j) > BatchWindow

TooDear == RunTotal(i, j) > amount + Tolerance

RangeEnds == InLoop /\ j > LastEnd(i) /\ NextStart

BreakOnSpan == InLoop /\ j <= LastEnd(i) /\ TooLong /\ NextStart

BreakOnTotal == InLoop /\ j <= LastEnd(i) /\ ~TooLong /\ TooDear /\ NextStart

Found ==
    /\ InLoop /\ j <= LastEnd(i) /\ ~TooLong /\ ~TooDear
    /\ Abs(RunTotal(i, j) - amount) <= Tolerance
    /\ pc' = "found"
    /\ answer' = Slice(i, j)
    /\ UNCHANGED <<open, amount, i, j>>

Extend ==
    /\ InLoop /\ j <= LastEnd(i) /\ ~TooLong /\ ~TooDear
    /\ Abs(RunTotal(i, j) - amount) > Tolerance
    /\ j' = j + 1
    /\ UNCHANGED <<open, amount, i, pc, answer>>

Next == Exhausted \/ RangeEnds \/ BreakOnSpan \/ BreakOnTotal \/ Found \/ Extend

Spec == Init /\ [][Next]_vars /\ WF_vars(Next)

-----------------------------------------------------------------------------
(***************************************************************************)
(* The search returns the batch section 4 selects, and None when there is  *)
(* none: the exits on span and total never cut off the winning run         *)
(* (find_batch in solution/solve.sh against docs/matching_rules.md, B3).   *)
(***************************************************************************)
AnswerIsSection4 ==
    /\ pc = "found" => Section4Batch(open, amount) = {answer}
    /\ pc = "exhausted" => Section4Batch(open, amount) = {}

(* The search comes to an end for every customer and payment. *)
Terminates == <>(pc \in {"found", "exhausted"})

=============================================================================
