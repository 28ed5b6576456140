--------------------------- MODULE ReconProperties ---------------------------
(***************************************************************************)
(* What the reconciliation job owes its readers: the finance desk, who     *)
(* reads the reports, and the close jobs, who read the ledger.  Stated     *)
(* over ReconPipeline; the README of the recon application (Output         *)
(* contract, Persistence contract) and docs/matching_rules.md are the      *)
(* yardstick.                                                              *)
(***************************************************************************)
EXTENDS ReconPipeline

PaidInvoices == {i \in InvoiceIds : status[i] = "paid"}

Places ==
    Ended \cup {"nextLine", "references", "customers", "decide", "bankLine", "mark",
                "openFile", "closeFile"}

Rows == [line : LineIds, invoice : InvoiceIds, rule : Rules]

(* A candidate consists of invoices of S, at least one. *)
IsProposal(c, S) == c.rule \in Rules /\ c.invoices \subseteq S /\ c.invoices # {}

Results ==
    {res \in [line : LineIds, rule : Rules \cup {"none"}, invoices : SUBSET InvoiceIds,
              reason : Reasons \cup {"none"}] :
        /\ IsMatched(res) <=> res.reason = "none"
        /\ IsMatched(res) <=> res.invoices # {}}

(* The types of the ledger and of a runner's memory. *)
TypeOK ==
    /\ status \in [InvoiceIds -> {"open", "paid"}]
    /\ matchResults \subseteq Rows
    /\ bankLines \subseteq LineIds
    /\ pc \in [Runs -> Places]
    /\ todo \in [Runs -> SUBSET LineIds]
    /\ line \in [Runs -> LineIds \cup {0}]
    /\ unread \in [Runs -> SUBSET InvoiceIds]
    /\ step \in [Runs -> 1..4]
    /\ DOMAIN candidates = Runs
    /\ \A r \in Runs : \A c \in candidates[r] : IsProposal(c, InvoiceIds)
    /\ unavailable \in [Runs -> BOOLEAN]
    /\ consumed \in [Runs -> SUBSET InvoiceIds]
    /\ result \in [Runs -> Results \cup {NoResult}]
    /\ unmarked \in [Runs -> SUBSET InvoiceIds]
    /\ results \in [Runs -> SUBSET Results]
    /\ launches \in [Runs -> 0..MaxLaunches]
    /\ statement \in [Runs -> SUBSET (LineIds \cup {BadRow})]
    /\ rowsAtLaunch \in [Runs -> SUBSET Rows]

-----------------------------------------------------------------------------
(* The ledger. *)

(***************************************************************************)
(* An invoice is paid exactly when the ERP export said so or some row of   *)
(* match_results names it, at every moment another process may look and    *)
(* after a kill at any step: repository.mark_matched commits the UPDATE    *)
(* and the INSERT of one invoice together.                                 *)
(***************************************************************************)
PaidIffRecorded == PaidInvoices = PaidAtImport \cup {row.invoice : row \in matchResults}

(***************************************************************************)
(* Every row of match_results belongs to a stored bank line, kills or not: *)
(* run_pipeline calls insert_bank_line before mark_matched.                *)
(***************************************************************************)
PostedLinesRecorded == \A row \in matchResults : row.line \in bankLines

(***************************************************************************)
(* Section 6: an invoice is paid by one line, over all runs, reruns after  *)
(* a kill included, and never when the ERP export had it paid.             *)
(***************************************************************************)
OneInvoiceOneMatch ==
    /\ \A row, other \in matchResults : row.invoice = other.invoice => row = other
    /\ \A row \in matchResults : row.invoice \notin PaidAtImport

(***************************************************************************)
(* "match_results is append-only: run never deletes or rewrites rows       *)
(* written by earlier runs"; a paid invoice is never reopened and a bank   *)
(* line never vanishes.                                                    *)
(***************************************************************************)
HistoryOnlyGrows ==
    [][/\ matchResults \subseteq matchResults'
       /\ PaidInvoices \subseteq PaidInvoices'
       /\ bankLines \subseteq bankLines']_vars

(***************************************************************************)
(* A single runner, killed and relaunched at will, is an append-only book: *)
(* it records a line first, and each of its commits posts one invoice that *)
(* was open until then.                                                    *)
(***************************************************************************)
ImplementsBook == Book!Spec

-----------------------------------------------------------------------------
(* The runner and its ledger. *)

Posted(res) ==
    \A i \in res.invoices :
        \E row \in matchResults : row.line = res.line /\ row.invoice = i

(***************************************************************************)
(* Write-through: whatever a runner counts as processed is already in the  *)
(* ledger, bank line and all its postings, so a kill loses at most the     *)
(* line in hand (the loop of run_pipeline).                                *)
(***************************************************************************)
ProcessedLinesPersisted ==
    \A r \in Runs : \A res \in results[r] : res.line \in bankLines /\ Posted(res)

Reported(r, file) == files[r][file].body

ReportedMatches(r) == Reported(r, "matches")

ReportedLines(r) == {res.line : res \in ReportedMatches(r) \cup Reported(r, "unmatched")}

PairsOf(S) == UNION {{<<res.line, i>> : i \in res.invoices} : res \in S}

(***************************************************************************)
(* A run that ends well leaves three complete files that agree with each   *)
(* other, with its statement and with the ledger: every statement line is  *)
(* in one of the two lists and in bank_lines, the matched pairs are the    *)
(* rows this run added and no others, and the counters of summary.json     *)
(* count the lists (write_reports, summarize; Output contract).            *)
(***************************************************************************)
ReportMirrorsLedger ==
    \A r \in Runs : pc[r] = "done" =>
        LET added == matchResults \ rowsAtLaunch[r]
            summary == CHOOSE s \in Reported(r, "summary") : TRUE
        IN  /\ \A f \in DOMAIN files[r] : files[r][f].state = "written"
            /\ ReportedLines(r) = statement[r]
            /\ statement[r] \subseteq bankLines
            /\ PairsOf(ReportedMatches(r)) = {<<row.line, row.invoice>> : row \in added}
            /\ summary.lines = Cardinality(statement[r])
            /\ summary.matchedLines = Cardinality(ReportedMatches(r))
            /\ summary.matchedInvoices = Cardinality(added)
            /\ summary.matchedLines + summary.unmatchedLines = summary.lines
            /\ \A rule \in Rules :
                   summary.byRule[rule] =
                       Cardinality({row.line : row \in {row \in added : row.rule = rule}})

-----------------------------------------------------------------------------
(* The decision. *)

Available(r) == {i \in InvoiceIds : IsAvailable(r, i)}

OfCustomer(c, S) == {i \in S : Invoice[i].customer = c}

(* Rule B3 of section 4: a contiguous run of the customer's invoices.      *)
Section4RuleB3(l, available) ==
    {Candidate("B3", C, Abs(BatchTotal(C) - Line[l].amount), 0) :
        C \in Section4Batch(available, Line[l].amount)}

(* Sections 4 and 5 read at one instant: what each rule proposes for line  *)
(* l when S is available.                                                  *)
Proposals(rule, l, S) ==
    CASE rule = "A1" -> UNION {ExactCandidates(i, l) : i \in S}
      [] rule = "A2" -> UNION {FuzzyCandidates(i, l) : i \in S}
      [] rule = "B1" -> RuleB1(l, OfCustomer(ByIban(l), S))
      [] rule = "B2" -> RuleB2(l, OfCustomer(ByName(l), S))
      [] rule = "B3" -> Section4RuleB3(l, OfCustomer(ByIbanOrName(l), S))

(* Of one rule's candidates, the smallest (difference, distance, due, id). *)
Smallest(c, S) ==
    \A d \in S \ {c} :
        \/ c.difference < d.difference
        \/ c.difference = d.difference /\ c.distance < d.distance
        \/ /\ c.difference = d.difference /\ c.distance = d.distance
           /\ Older(Oldest(c.invoices), Oldest(d.invoices))

Section5(l, S) ==
    LET deciding == {rule \in Rules :
                        \A q \in Rules : RulePriority[q] < RulePriority[rule]
                                             => Proposals(q, l, S) = {}}
        smallest(rule) == {c \in Proposals(rule, l, S) : Smallest(c, Proposals(rule, l, S))}
    IN  UNION {{Matched(l, rule, c.invoices) : c \in smallest(rule)} : rule \in deciding}

Section7(l, S) ==
    Unmatched(l, CASE ~IsCredit(l) -> "DEBIT"
                   [] IsCredit(l) /\ \E i \in InvoiceIds \ S : NamedBy(i, l)
                        -> "INVOICE_CONSUMED"
                   [] OTHER -> "NO_CANDIDATE")

Section4To7(l, S) ==
    IF IsCredit(l) /\ Section5(l, S) # {} THEN Section5(l, S) ELSE {Section7(l, S)}

(* Line l comes down to rule B3, and the shipped search of batch.py, which *)
(* takes any subset up to its cap, answers otherwise than section 4: the   *)
(* fault of INCIDENT-2291, and the only departure from sections 4 to 7.    *)
SearchesDiffer(l, S) ==
    LET own == OfCustomer(ByIbanOrName(l), S)
    IN  /\ IsCredit(l)
        /\ \A rule \in Rules \ {"B3"} : Proposals(rule, l, S) = {}
        /\ FindBatch(own, Line[l].amount) # Section4Batch(own, Line[l].amount)

(***************************************************************************)
(* The ledger is read invoice by invoice and customer by customer, on a    *)
(* connection each, with state that lives from line to line (consumed);    *)
(* for a lone runner the outcome is still the one sections 4 to 7 give for *)
(* the ledger of one instant, reruns after a kill included, save where     *)
(* the shipped batch search is known to differ from section 4.             *)
(***************************************************************************)
DecisionFollowsRules ==
    \A r \in Runs : pc[r] = "bankLine" =>
        LET S == Available(r) \cup (result[r].invoices)
        IN  SearchesDiffer(line[r], S) \/ Section4To7(line[r], S) = {result[r]}

(* What sections 4 to 7 make of each line, whatever is available; nothing  *)
(* is said where the searches differ.                                      *)
Decisions ==
    {<<l, S, IF SearchesDiffer(l, S) THEN {} ELSE Section4To7(l, S)>> :
        l \in LineIds, S \in SUBSET InvoiceIds}

(* What was open when the run of r was launched. *)
OpenAtLaunch(r) == InvoiceIds \ (PaidAtImport \cup {row.invoice : row \in rowsAtLaunch[r]})

(* What the results of the lines that go before l leave of it. *)
LeftFor(r, l) ==
    OpenAtLaunch(r) \ UNION {res.invoices : res \in {res \in results[r] : Before(res.line, l)}}

(***************************************************************************)
(* Section 6: lines are decided in the order of booking date and line id,  *)
(* "not in file order": what a lone run says of a line is what sections 4  *)
(* to 7 say of it once the lines that go before it, and no others, have    *)
(* had their choice of what was open at launch (processing_order, and the  *)
(* consumed set of run_pipeline).  The rows already in the ledger when a   *)
(* killed run is started again count as paid.                              *)
(***************************************************************************)
RunFollowsSection6 ==
    \A r \in Runs : \A res \in results[r] :
        \E decision \in {{}, {res}} :
            <<res.line, LeftFor(r, res.line), decision>> \in Decisions

-----------------------------------------------------------------------------
(* Progress. *)

(***************************************************************************)
(* A launched run that nobody kills ends with its reports written, however *)
(* many other runners work on the ledger.                                  *)
(***************************************************************************)
UnkilledRunReports ==
    \A r \in Runs : Running(r) ~> pc[r] \in {"done", "killed"}

-----------------------------------------------------------------------------
(* What the documents say of the job, and the code does not do. *)

(***************************************************************************)
(* Section 4, B3: "All invoices of the run are matched to the line"; so no *)
(* reader of an idle ledger finds a batch payment with one invoice.        *)
(***************************************************************************)
BatchPaidTogether ==
    (\A r \in Runs : ~Running(r)) =>
        \A row \in matchResults : row.rule = "B3" =>
            Cardinality({other \in matchResults : other.line = row.line /\ other.rule = "B3"})
                >= BatchMinRun

=============================================================================
