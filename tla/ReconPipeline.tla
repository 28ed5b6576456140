---------------------------- MODULE ReconPipeline ----------------------------
(***************************************************************************)
(* `recon run` against a SQLite ledger (recon/pipeline, recon/store,       *)
(* recon/reporting).  A runner parses a whole statement, then takes its    *)
(* lines in (booking_date, line_id) order: it reads the ledger invoice by  *)
(* invoice and customer by customer, every read on a connection of its     *)
(* own, decides, stores the bank line in one commit and then pays each     *)
(* matched invoice in a commit of its own.  The report files come last.    *)
(* A watchdog may kill a runner between any two steps, an operator may     *)
(* launch it again, and several runners may work on one ledger.            *)
(***************************************************************************)
EXTENDS ReconMatching

CONSTANTS
    Runs,           \* job slots: a slot is relaunched, with the same out directory
    Statements,     \* statement files, as sequences of rows
    BadRow,         \* a row parse_statement rejects
    PaidAtImport,   \* invoices the ERP export already marks paid
    MaxLaunches     \* bound on launches of one slot

ASSUME PaidAtImportAssumption == PaidAtImport \subseteq InvoiceIds

ASSUME StatementsAssumption ==
    \A s \in Statements : \A k \in DOMAIN s : s[k] \in LineIds \cup {BadRow}

ASSUME MaxLaunchesAssumption == MaxLaunches \in Nat

VARIABLES
    (* The ledger, shared by all runners and durable. *)
    status, matchResults, bankLines,
    (* A runner's memory, lost when it ends. *)
    pc,             \* where the runner stands
    todo,           \* lines of the statement not yet taken
    line,           \* the line being processed
    unread,         \* invoices scan_references has not fetched yet
    step,           \* index of the customer rule, or of the report file
    candidates,     \* scan.candidates
    unavailable,    \* scan.unavailable_reference_seen
    consumed,       \* the pipeline's consumed set
    result,         \* the MatchResult of the line being processed
    unmarked,       \* invoices of it mark_matched has not committed yet
    results,        \* the MatchResults of the lines processed
    (* The out directory of a slot. *)
    files,
    (* History: launches so far; the lines the last one was given and the  *)
    (* rows it found in the ledger.                                        *)
    launches, statement, rowsAtLaunch

ledger == <<status, matchResults, bankLines>>
scan == <<unread, step, candidates, unavailable>>
memory == <<todo, line, scan, consumed, result, unmarked, results>>
history == <<launches, statement, rowsAtLaunch>>
vars == <<ledger, pc, memory, files, history>>

Book == INSTANCE ReconLedger

-----------------------------------------------------------------------------
(* Statement lines, results and report files. *)

LinesOf(s) == {s[k] : k \in DOMAIN s}

WellFormed(s) ==
    /\ BadRow \notin LinesOf(s)
    /\ \A k, m \in DOMAIN s : s[k] = s[m] => k = m

(* processing_order *)
Before(l, m) ==
    \/ Line[l].booking < Line[m].booking
    \/ Line[l].booking = Line[m].booking /\ l < m

Matched(l, rule, invoices) ==
    [line |-> l, rule |-> rule, invoices |-> invoices, reason |-> "none"]

Unmatched(l, reason) ==
    [line |-> l, rule |-> "none", invoices |-> {}, reason |-> reason]

IsMatched(res) == res.rule # "none"

NoResult == Unmatched(0, "none")

ReportFiles == <<"matches", "unmatched", "summary">>

Summary(S) ==
    LET matched == {res \in S : IsMatched(res)}
    IN  [lines |-> Cardinality(S),
         matchedLines |-> Cardinality(matched),
         unmatchedLines |-> Cardinality(S \ matched),
         matchedInvoices |-> SumFunction([res \in matched |-> Cardinality(res.invoices)]),
         matchedAmount |-> SumFunction([res \in matched |-> Line[res.line].amount]),
         byRule |-> [q \in Rules |-> Cardinality({res \in S : res.rule = q})],
         byReason |-> [q \in Reasons |-> Cardinality({res \in S : res.reason = q})]]

Content(file, S) ==
    CASE file = "matches" -> {res \in S : IsMatched(res)}
      [] file = "unmatched" -> {res \in S : ~IsMatched(res)}
      [] file = "summary" -> {Summary(S)}

Absent == [state |-> "absent", body |-> {}]
Truncated == [state |-> "truncated", body |-> {}]
Written(body) == [state |-> "written", body |-> body]

-----------------------------------------------------------------------------

Ended == {"idle", "done", "rejected", "killed"}

Running(r) == pc[r] \notin Ended

Init ==
    /\ Book!Init
    /\ pc = [r \in Runs |-> "idle"]
    /\ todo = [r \in Runs |-> {}]
    /\ line = [r \in Runs |-> 0]
    /\ unread = [r \in Runs |-> {}]
    /\ step = [r \in Runs |-> 1]
    /\ candidates = [r \in Runs |-> {}]
    /\ unavailable = [r \in Runs |-> FALSE]
    /\ consumed = [r \in Runs |-> {}]
    /\ result = [r \in Runs |-> NoResult]
    /\ unmarked = [r \in Runs |-> {}]
    /\ results = [r \in Runs |-> {}]
    /\ files = [r \in Runs |-> [f \in {"matches", "unmatched", "summary"} |-> Absent]]
    /\ launches = [r \in Runs |-> 0]
    /\ statement = [r \in Runs |-> {}]
    /\ rowsAtLaunch = [r \in Runs |-> {}]

(* The process is gone: nothing of its memory is left. *)
Forget(r) ==
    /\ todo' = [todo EXCEPT ![r] = {}]
    /\ line' = [line EXCEPT ![r] = 0]
    /\ unread' = [unread EXCEPT ![r] = {}]
    /\ step' = [step EXCEPT ![r] = 1]
    /\ candidates' = [candidates EXCEPT ![r] = {}]
    /\ unavailable' = [unavailable EXCEPT ![r] = FALSE]
    /\ consumed' = [consumed EXCEPT ![r] = {}]
    /\ result' = [result EXCEPT ![r] = NoResult]
    /\ unmarked' = [unmarked EXCEPT ![r] = {}]
    /\ results' = [results EXCEPT ![r] = {}]

NewLaunch(r, s) ==
    /\ ~Running(r)
    /\ launches[r] < MaxLaunches
    /\ launches' = [launches EXCEPT ![r] = @ + 1]
    /\ statement' = [statement EXCEPT ![r] = LinesOf(s)]
    /\ rowsAtLaunch' = [rowsAtLaunch EXCEPT ![r] = matchResults]

(* The whole file is parsed before the ledger is touched; the migration of *)
(* a ledger that is at the current version does nothing.                   *)
Launch(r, s) ==
    /\ NewLaunch(r, s)
    /\ WellFormed(s)
    /\ pc' = [pc EXCEPT ![r] = "nextLine"]
    /\ todo' = [todo EXCEPT ![r] = LinesOf(s)]
    /\ UNCHANGED <<ledger, line, scan, consumed, result, unmarked, results, files>>

(* StatementError: exit code 2. *)
Reject(r, s) ==
    /\ NewLaunch(r, s)
    /\ ~WellFormed(s)
    /\ pc' = [pc EXCEPT ![r] = "rejected"]
    /\ UNCHANGED <<ledger, memory, files>>

-----------------------------------------------------------------------------
(* process_line *)

(* A slip for UnkilledRunReports: the line is never crossed off. *)
TakeAgain(r, l) ==
    /\ pc[r] = "nextLine"
    /\ l \in todo[r] /\ \A m \in todo[r] \ {l} : Before(l, m)
    /\ todo' = todo
    /\ line' = [line EXCEPT ![r] = l]

(* A slip for RunFollowsSection6: line ids alone give the order. *)
TakeById(r, l) ==
    /\ pc[r] = "nextLine"
    /\ l \in todo[r] /\ \A m \in todo[r] \ {l} : l < m
    /\ todo' = [todo EXCEPT ![r] = @ \ {l}]
    /\ line' = [line EXCEPT ![r] = l]

Take(r, l) ==
    /\ pc[r] = "nextLine"
    /\ l \in todo[r] /\ \A m \in todo[r] \ {l} : Before(l, m)
    /\ todo' = [todo EXCEPT ![r] = @ \ {l}]
    /\ line' = [line EXCEPT ![r] = l]

(* A slip for DecisionFollowsRules: the flag of the line before is kept. *)
TakeCreditSameScan(r) ==
    /\ \E l \in todo[r] : Take(r, l) /\ IsCredit(l)
    /\ pc' = [pc EXCEPT ![r] = "references"]
    /\ unread' = [unread EXCEPT ![r] = InvoiceIds]
    /\ candidates' = [candidates EXCEPT ![r] = {}]
    /\ UNCHANGED <<ledger, step, unavailable, consumed, result, unmarked, results, files,
                   history>>

TakeCredit(r) ==
    /\ \E l \in todo[r] : Take(r, l) /\ IsCredit(l)
    /\ pc' = [pc EXCEPT ![r] = "references"]
    /\ unread' = [unread EXCEPT ![r] = InvoiceIds]
    /\ candidates' = [candidates EXCEPT ![r] = {}]
    /\ unavailable' = [unavailable EXCEPT ![r] = FALSE]
    /\ UNCHANGED <<ledger, step, consumed, result, unmarked, results, files, history>>

(* A slip for TypeOK: a reason code section 7 does not list. *)
TakeDebitOtherReason(r) ==
    /\ \E l \in todo[r] :
        /\ Take(r, l) /\ ~IsCredit(l)
        /\ result' = [result EXCEPT ![r] = Unmatched(l, "OUTGOING")]
    /\ pc' = [pc EXCEPT ![r] = "bankLine"]
    /\ UNCHANGED <<ledger, scan, consumed, unmarked, results, files, history>>

TakeDebit(r) ==
    /\ \E l \in todo[r] :
        /\ Take(r, l) /\ ~IsCredit(l)
        /\ result' = [result EXCEPT ![r] = Unmatched(l, "DEBIT")]
    /\ pc' = [pc EXCEPT ![r] = "bankLine"]
    /\ UNCHANGED <<ledger, scan, consumed, unmarked, results, files, history>>

(* A slip for OneInvoiceOneMatch: the status in the ledger is not asked. *)
IsUnconsumed(r, i) == i \notin consumed[r]

IsAvailable(r, i) == status[i] = "open" /\ i \notin consumed[r]

(* One get_invoice of scan_references, in ascending id order. *)
Fetch(r, i) ==
    /\ pc[r] = "references"
    /\ \A k \in unread[r] : i <= k
    /\ unread' = [unread EXCEPT ![r] = @ \ {i}]
    /\ UNCHANGED <<ledger, pc, todo, line, step, consumed, result, unmarked,
                   results, files, history>>

FetchAvailable(r) ==
    \E i \in unread[r] :
        /\ Fetch(r, i)
        /\ IsAvailable(r, i)
        /\ candidates' =
               [candidates EXCEPT ![r] = @ \cup ReferenceCandidates(i, line[r])]
        /\ UNCHANGED unavailable

FetchUnavailable(r) ==
    \E i \in unread[r] :
        /\ Fetch(r, i)
        /\ ~IsAvailable(r, i)
        /\ unavailable' = [unavailable EXCEPT ![r] = @ \/ NamedBy(i, line[r])]
        /\ UNCHANGED candidates

(* if scan.candidates: return scan *)
EndScan(r) ==
    /\ pc[r] = "references"
    /\ unread[r] = {}
    /\ pc' = [pc EXCEPT ![r] = IF candidates[r] = {} THEN "customers" ELSE "decide"]
    /\ step' = [step EXCEPT ![r] = 1]
    /\ UNCHANGED <<ledger, todo, line, unread, candidates, unavailable, consumed,
                   result, unmarked, results, files, history>>

(* One open_invoices_for_customer; the first rule with candidates decides. *)
ReadCustomer(r) ==
    /\ pc[r] = "customers"
    /\ LET rule == CustomerRules[step[r]]
           available == {i \in InvoiceIds : /\ Invoice[i].customer = CustomerFor(rule, line[r])
                                            /\ IsAvailable(r, i)}
       IN  candidates' =
               [candidates EXCEPT ![r] =
                   IF @ = {} THEN CustomerCandidates(rule, line[r], available) ELSE @]
    /\ step' = [step EXCEPT ![r] = @ + 1]
    /\ pc' = [pc EXCEPT ![r] = IF step[r] = Len(CustomerRules) THEN "decide" ELSE @]
    /\ UNCHANGED <<ledger, todo, line, unread, unavailable, consumed, result, unmarked,
                   results, files, history>>

DecideMatch(r) ==
    /\ pc[r] = "decide"
    /\ \E c \in candidates[r] :
        /\ IsBest(c, candidates[r])
        /\ result' = [result EXCEPT ![r] = Matched(line[r], c.rule, c.invoices)]
        /\ consumed' = [consumed EXCEPT ![r] = @ \cup c.invoices]
    /\ pc' = [pc EXCEPT ![r] = "bankLine"]
    /\ UNCHANGED <<ledger, todo, line, scan, unmarked, results, files, history>>

DecideNoMatch(r) ==
    /\ pc[r] = "decide"
    /\ candidates[r] = {}
    /\ result' = [result EXCEPT ![r] =
           Unmatched(line[r], IF unavailable[r] THEN "INVOICE_CONSUMED" ELSE "NO_CANDIDATE")]
    /\ pc' = [pc EXCEPT ![r] = "bankLine"]
    /\ UNCHANGED <<ledger, todo, line, scan, consumed, unmarked, results, files, history>>

-----------------------------------------------------------------------------
(* Persistence: insert_bank_line, then mark_matched. *)

(* A slip for ImplementsBook and PostedLinesRecorded: only the unmatched   *)
(* lines are stored.                                                       *)
InsertOnlyUnmatched(r) ==
    /\ pc[r] = "bankLine"
    /\ bankLines' = bankLines \cup (IF IsMatched(result[r]) THEN {} ELSE {line[r]})
    /\ unmarked' = [unmarked EXCEPT ![r] = result[r].invoices]
    /\ pc' = [pc EXCEPT ![r] = "mark"]
    /\ UNCHANGED <<status, matchResults, todo, line, scan, consumed, result, results,
                   files, history>>

InsertBankLine(r) ==
    /\ pc[r] = "bankLine"
    /\ bankLines' = bankLines \cup {line[r]}
    /\ unmarked' = [unmarked EXCEPT ![r] = result[r].invoices]
    /\ pc' = [pc EXCEPT ![r] = "mark"]
    /\ UNCHANGED <<status, matchResults, todo, line, scan, consumed, result, results,
                   files, history>>

(* A slip for HistoryOnlyGrows: the line alone as primary key. *)
UpsertByLine(rows, l, i, rule) ==
    {row \in rows : row.line # l} \cup {Book!Row(l, i, rule)}

(* INSERT OR REPLACE: the primary key is (line_id, invoice_id). *)
Upsert(rows, l, i, rule) ==
    {row \in rows : row.line # l \/ row.invoice # i} \cup {Book!Row(l, i, rule)}

(* A slip for PaidIffRecorded: one commit pays all, the rows come later. *)
MarkAllThenRecord(r) ==
    /\ pc[r] = "mark"
    /\ \E i \in unmarked[r] :
        /\ IsOldest(i, unmarked[r])
        /\ status' = [k \in InvoiceIds |-> IF k \in unmarked[r] THEN "paid" ELSE status[k]]
        /\ matchResults' = Upsert(matchResults, line[r], i, result[r].rule)
        /\ unmarked' = [unmarked EXCEPT ![r] = @ \ {i}]
    /\ UNCHANGED <<bankLines, pc, todo, line, scan, consumed, result, results, files,
                   history>>

(* One pass of the loop of mark_matched: the oldest invoice still to pay,  *)
(* its UPDATE and its INSERT in one commit.                                *)
MarkInvoice(r) ==
    /\ pc[r] = "mark"
    /\ \E i \in unmarked[r] :
        /\ IsOldest(i, unmarked[r])
        /\ status' = [status EXCEPT ![i] = "paid"]
        /\ matchResults' = Upsert(matchResults, line[r], i, result[r].rule)
        /\ unmarked' = [unmarked EXCEPT ![r] = @ \ {i}]
    /\ UNCHANGED <<bankLines, pc, todo, line, scan, consumed, result, results, files,
                   history>>

(* A slip for ProcessedLinesPersisted: the result is kept before the line  *)
(* is paid for.                                                            *)
EndLineEarly(r) ==
    /\ pc[r] = "mark"
    /\ results' = [results EXCEPT ![r] = @ \cup {result[r]}]
    /\ pc' = [pc EXCEPT ![r] = "nextLine"]
    /\ UNCHANGED <<ledger, todo, line, scan, consumed, result, unmarked, files, history>>

(* A slip for ReportMirrorsLedger: unmatched lines are not reported. *)
EndLineMatchedOnly(r) ==
    /\ pc[r] = "mark"
    /\ unmarked[r] = {}
    /\ results' = [results EXCEPT ![r] = @ \cup {res \in {result[r]} : IsMatched(res)}]
    /\ pc' = [pc EXCEPT ![r] = "nextLine"]
    /\ UNCHANGED <<ledger, todo, line, scan, consumed, result, unmarked, files, history>>

EndLine(r) ==
    /\ pc[r] = "mark"
    /\ unmarked[r] = {}
    /\ results' = [results EXCEPT ![r] = @ \cup {result[r]}]
    /\ pc' = [pc EXCEPT ![r] = "nextLine"]
    /\ UNCHANGED <<ledger, todo, line, scan, consumed, result, unmarked, files, history>>

-----------------------------------------------------------------------------
(* write_reports: open("w") truncates, the content is there once closed. *)

EndMatching(r) ==
    /\ pc[r] = "nextLine"
    /\ todo[r] = {}
    /\ pc' = [pc EXCEPT ![r] = "openFile"]
    /\ step' = [step EXCEPT ![r] = 1]
    /\ UNCHANGED <<ledger, todo, line, unread, candidates, unavailable, consumed,
                   result, unmarked, results, files, history>>

OpenFile(r) ==
    /\ pc[r] = "openFile"
    /\ files' = [files EXCEPT ![r][ReportFiles[step[r]]] = Truncated]
    /\ pc' = [pc EXCEPT ![r] = "closeFile"]
    /\ UNCHANGED <<ledger, memory, history>>

CloseFile(r) ==
    /\ pc[r] = "closeFile"
    /\ files' = [files EXCEPT ![r][ReportFiles[step[r]]] =
                     Written(Content(ReportFiles[step[r]], results[r]))]
    /\ \/ /\ step[r] < Len(ReportFiles)
          /\ pc' = [pc EXCEPT ![r] = "openFile"]
          /\ step' = [step EXCEPT ![r] = @ + 1]
          /\ UNCHANGED <<todo, line, unread, candidates, unavailable, consumed, result,
                         unmarked, results>>
       \/ /\ step[r] = Len(ReportFiles)
          /\ pc' = [pc EXCEPT ![r] = "done"]
          /\ Forget(r)
    /\ UNCHANGED <<ledger, history>>

-----------------------------------------------------------------------------
(* The watchdog's SIGKILL. *)
Kill(r) ==
    /\ Running(r)
    /\ pc' = [pc EXCEPT ![r] = "killed"]
    /\ Forget(r)
    /\ UNCHANGED <<ledger, files, history>>

RunStep(r) ==
    \/ TakeCredit(r) \/ TakeDebit(r)
    \/ FetchAvailable(r) \/ FetchUnavailable(r) \/ EndScan(r) \/ ReadCustomer(r)
    \/ DecideMatch(r) \/ DecideNoMatch(r)
    \/ InsertBankLine(r) \/ MarkInvoice(r) \/ EndLine(r)
    \/ EndMatching(r) \/ OpenFile(r) \/ CloseFile(r)

Next ==
    \E r \in Runs :
        \/ \E s \in Statements : Launch(r, s) \/ Reject(r, s)
        \/ RunStep(r)
        \/ Kill(r)

(* A launched process is scheduled until it ends; nobody is obliged to     *)
(* launch one or to kill one.                                              *)
Spec == Init /\ [][Next]_vars /\ \A r \in Runs : WF_vars(RunStep(r))

=============================================================================
