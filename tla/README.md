# TLA+ models of the repository's applications

The repository is a collection of *tasks*. Each task ships a complete small application under
`src/tasks/<task>/environment/app/`, its documentation and tests, and a reference solution
(`solution/solve.sh`) that replaces or patches parts of it. All four are programs with a
state worth modelling, and so is the harness in `scripts/` that validates the tasks; the directories
below `src/tasks/` are abbreviated as

| short name | task directory | program |
|---|---|---|
| recon | `recon-nightly-timeout-2291` | nightly matching of bank statement lines with open invoices on a SQLite ledger |
| claims | `claims-adjudication-audit-recalc` | monthly adjudication of insurance claims with a payment ledger in SQLite |
| bundlevault | `bundlevault-pentest-remediation` | firmware bundle registry behind a threading HTTP server |
| pyledger | `cobol-loan-accrual-port-parity` | Python port of the COBOL loan accrual batch LNACCR01 |

This directory holds the TLA+ modules, the TLC configurations and the TLAPS proofs about them. The
modules are translated from the code; the docs of each application (`matching_rules.md`,
`adjudication_rules.md`, the READMEs) are the yardstick of the properties.

## 1. Inventory

### 1.1 recon

**Run pipeline** (`recon/pipeline/run.py`, `stages.py`). `run_pipeline` parses the whole statement, migrates
the ledger, sorts the lines by `(booking_date, line_id)` and for each line: matches it, inserts the bank
line, marks the matched invoices paid, keeps the result. After the last line it writes the reports. Its
state is process memory: the lines left, the result in hand, the results kept, and a `consumed` set that
lives for the whole run. A watchdog (external) kills a job that is over time, and an operator starts it again.

**Ledger** (`recon/store/repository.py`, `schema.sql`). Tables `invoices` (status open/paid), `bank_lines`,
`match_results` keyed by `(line_id, invoice_id)`. *Every* call of the repository opens a connection of its
own and commits: `mark_matched` commits once per invoice of a result. Components communicate through these
tables only; downstream close jobs read them at any time.

**Matching rules** (`recon/matching/*.py`, `customers/master.py`). A1/A2 scan all invoices by reference
(exact, then up to a Levenshtein distance), B1/B2/B3 look at the open invoices of the customer identified
by IBAN or name; the best candidate by `(rule, difference, distance, due date, id)` wins. B3 searches a set
of invoices whose sum is the line's amount; the shipped search enumerates subsets under a cap, the rule and
the reference solution take contiguous oldest-first runs.

**Report files** (`recon/reporting/writer.py`): `matches.csv`, `unmatched.csv`, `summary.json`, written one
after the other from memory. **Parser and normalisation** (`statements/parser.py`, `matching/normalize.py`).
**Migrations, ledger loader, CLI** (`store/migrations.py`, `scripts/load_ledger.py`, `cli.py`).

*Hard:* a kill between any two commits; reruns; two jobs on one ledger, each deciding on reads it made
connection by connection; late bookings at the end of the file; the exits of the search loops.
*Correct when:* paid invoices and `match_results` account for each other at any time, an invoice is paid by
one line, history only grows, a decision is the one of the rules for the ledger of one instant, lines have their choice in
the order of section 6, the reports of a run that ends mirror what it wrote, a run ends.

### 1.2 claims

**Batch adjudication and payment ledger** (`adjudication/engine.py`, `payments/ledger.py`, `storage/`,
`reports/audit_export.py`, `cli.py`). `adjudicate` takes the claims received in one month, computes an
indemnity for each against what its *occurrence* (loss event) was already paid, upserts a row of `payments`
keyed by `(claim_id, batch)`, commits and writes an export. **Policy versions and coverage** (`policy/`)
choose the version in force on the loss date, sublimits, deductible, limit. **Valuation, deadlines,
interest** (`valuation/`, `calendar/`, `payments/scheduler.py`) are pure functions of the claim and of the payment date,
`--as-of`.
The reference solution rewrites the engine, ledger, lookup and coverage: one transaction per batch that
first deletes the batch's records. **As shipped** the engine reads its tables, the batch and the prior activity
of the first claim before any lock is held, because Python's `sqlite3` begins a transaction at the first INSERT;
`build-db` unlinks the database file and builds a new one.

*Hard:* an occurrence is spread over several claims and batches; any batch may be run again, early or late,
by two jobs at once, killed at any step, or fail on one claim half-way; the export is written after the
commit, into a file that another job may hold open; delay and interest depend on the `--as-of` of each run. *Correct when:* deductible, sublimits and limit are used up once per occurrence whatever the
order; a batch settles as a whole and once; a rerun changes nothing; a complete export shows the table.

### 1.3 bundlevault

**Ingest, registry, staging, audit** (`ingest.py`, `registry.py`, `staging.py`, `audit.py`, `versioning.py`,
`server.py`): an upload is decoded, its files staged on disk, its signature checked, published in SQLite if its
version is newer than the latest, and appended to an audit file. Requests run in threads of one server on one
data root, and the CLI may run beside it. **Container format** (`fwb/`, `keyring.py`, `auth.py`): parsing and
authentication of one byte string. *Hard:* check-then-insert of the newest version, staging before the check,
failure between the commit and the audit record, the race of two first requests to seed the database, version
comparison. *Correct when:* a rejected upload leaves nothing, published versions of a name only grow, each
publication has its audit record and its files. The reference solution verifies everything before the first
write, stages through `<version>.tmp`, and asks for version and revocation again when it inserts.

### 1.4 pyledger

**Accrual batch** (`batch.py`, `writer.py`, `transactions.py`, `__main__.py`): `pyledger run` loads four datasets,
opens the output (which truncates it), streams one detail record for each open account and a trailer through a
buffered file, and closes it, also when an unknown transaction type raises half-way. **Calculators** (`accrual.py`,
`dates.py`, `fees.py`, `rates.py`, `status.py`, `numeric.py`): pure. **Reconciliation** (`recon.py`) compares two
output files record by record. **Copybook codec** (`copybook.py`, `layouts.py`): zoned and packed fields of fixed
widths. **Dump** (`dump.py`) prints records. **LNACCR01** (`legacy/LNACCR01.cbl`) is the COBOL original.

*Hard:* COBOL widths (every store truncates, before the next statement uses it, and totals at every account), signs and
zones, the century window, grace days and tier boundaries, an output file that is cut, overlaid or left without a
trailer, duplicated records in the comparison.
*Correct when:* a comparison that finds no difference means the mainframe's file; a run that ends undisturbed leaves
LNACCR01's dataset to the byte, as the README of the port and the ticket LND-4127 demand; its trailer is that of its details.
As shipped the port departs from LNACCR01 in many places. The reference solution rewrites `numeric`, `copybook`, `layouts`, `models`,
`dates`, `accrual`, `fees`, `status` and `batch`, and leaves `transactions`, `rates`, `writer`, `recon` and `__main__` as they
are; the models follow the port with the reference solution applied.

### 1.5 harness

**Validation** (`scripts/validate_task.py`): for each task the format checks, a Docker image built from the task's
directory under a tag that is the task's name, a test run in a fresh container that must fail, `solve.sh` and a
second test run in another that must pass, and `summary.json` once all tasks are through. Every docker call is a
subprocess. Builds, scans, tests and `solve.sh` have a time limit; starting and removing containers, the snapshot, the diff, and the `cat` and `rm`
of the reward have none and may hang for ever. Giving up on a `docker exec` does not stop what it started, and
several calls (the scans, the snapshot, the diff, `cat`, `rm`) are made without a look at their return code.
**Acceptance** (`scripts/report_acceptance.py`) reads the summary that is there and prints a conclusion.
`scripts/harbor_validate.sh` loops over the external `harbor` command.

*Hard:* several runs share one daemon and one report directory; a reward that is baked into the image, left over
or written late; a docker call that fails, is lost or fails unseen; a summary that is truncated, overwritten or from another run.
*Correct when:* a PASS stands for a failing and a passing test run on a clean image, less only what a call that failed
unseen would have shown, and an accepted summary for one whole validation.

`PROJECT.json` lists every component with its status, and every hazard with its line.

## 2. Modules

| module | stands for | role |
|---|---|---|
| BatchRule | `matching/batch.py`, B3 of `matching_rules.md` | pure: shipped subset search, contiguous runs of the rule |
| BatchRunSearch | `find_batch` of recon's `solve.sh` | the two nested loops, prefix sums and early exits, step by step |
| BatchProofs | | theorems of BatchRunSearch |
| ReconMatching | `matching/`, `customers/master.py` | pure: rules A1 to B3, customer identification, ranking |
| ReconLedger | persistence contract of the recon README | abstract: an append-only book |
| ReconPipeline | `pipeline/`, `store/repository.py`, `reporting/writer.py` | the job, read by read and commit by commit |
| ReconProperties | recon README, `matching_rules.md`, `INCIDENT-2291.md` | properties of ReconPipeline |
| ReconProofs | | theorems of ReconPipeline |
| ClaimsTerms | `policy/`, `payments/`, schema | pure: claims, versions, records, what an occurrence has used up |
| ClaimsBook | section 8 of `adjudication_rules.md` | abstract: a batch settles as a whole, once |
| ClaimsReference | claims' `solve.sh`, `cli.py`, `audit_export.py` | jobs that adjudicate batches on one database |
| ClaimsProperties | `adjudication_rules.md` | properties of ClaimsReference |
| ClaimsProofs | | theorems of ClaimsReference |
| BundleRegistry | sections 7 and 8 of `FWB_FORMAT.md` | abstract: versions of a name ascend, a record per publication |
| BundleIngest | bundlevault's `solve.sh`, `server.py` | starts, upload threads, crashes on one data root |
| BundleProperties | `FWB_FORMAT.md`, `API.md` | properties of BundleIngest |
| BundleProofs | | theorems of BundleIngest |
| ShippedTerms | claims' `valuation/`, `calendar/`, `payments/`, `policy/`, `adjudication/` as shipped | pure: the result for one claim |
| ClaimsShipped | claims' `cli.py`, `engine.py`, `ledger.py`, `db.py`, `audit_export.py` as shipped | shells that run build-db and adjudicate on one path |
| ShippedProperties | the same | properties of ClaimsShipped |
| ShippedProofs | | theorems of ClaimsShipped |
| LoanCodec | `copybook.py`, `layouts.py`, `numeric.py` as pyledger's `solve.sh` leaves them | pure: PICTUREs, zones, truncation, record layouts |
| LoanTerms | pyledger's calculators as `solve.sh` leaves them, `transactions.py`, `rates.py` | pure: dates, posting order, tiers, interest, fees, status |
| LoanLegacy | `LNACCR01.cbl` | pure: what the mainframe computes for an account, and the records it writes |
| LoanRecon | `recon.py` | pure: records in a file, comparison of two files |
| LoanBatch | `batch.py` as `solve.sh` leaves it, `writer.py`, `__main__.py` | jobs that write one output file |
| LoanProperties | pyledger README, LND-4127, `LNACCR01.cbl` | properties of LoanBatch |
| LoanProofs | | theorems of LoanCodec, LoanTerms, LoanRecon and LoanBatch |
| HarnessTask | `validate_task.py`, `report_acceptance.py` | pure: checks on a task, a test run, a summary |
| HarnessValidation | `validate_task.py` | validations on one Docker daemon |
| HarnessProperties | the same | properties of HarnessValidation |
| HarnessProofs | | theorems of HarnessValidation |
| SumProofs | | lemmas about sums over finite sets |
| MCBatch, MCRecon, MCClaims, MCShipped, MCBundle, MCLoan, MCHarness | | values of the constants for TLC |

ReconPipeline EXTENDS ReconMatching, which EXTENDS BatchRule; it instantiates ReconLedger as `Book` with the
same three tables (the refinement mapping is the identity on them). ClaimsReference EXTENDS ClaimsTerms and
instantiates ClaimsBook as `Book`, mapping the set of payable claims of a batch to its covered claims. BundleIngest instantiates BundleRegistry as
`Registry` with the seed's rows and the rows its uploads would add. ClaimsShipped EXTENDS ShippedTerms;
LoanBatch EXTENDS LoanRecon, LoanTerms and LoanCodec, and LoanProperties composes it with LoanLegacy, the mainframe
whose file is the other side of the comparison; HarnessValidation EXTENDS HarnessTask.

**How a step of ReconPipeline corresponds to the code.** The granularity is the one of connections and
file operations, since those are the points where another process can see or change something.

| action | code |
|---|---|
| Launch, Reject | parse the statement; reject it as a whole, or sort it and start |
| TakeCredit, TakeDebit | the head of the loop: the next line in order; a debit is decided at once |
| FetchAvailable, FetchUnavailable | one `get_invoice` of `scan_references` |
| EndScan, ReadCustomer | `find_candidates`: reference candidates decide, else one `open_invoices_for_customer` for each of B1, B2, B3 |
| DecideMatch, DecideNoMatch | `decide`: the best candidate is consumed, or a reason code |
| InsertBankLine | `insert_bank_line`, one commit |
| MarkInvoice | one pass of the loop of `mark_matched`: UPDATE and INSERT OR REPLACE in one commit |
| EndLine, EndMatching | the result is kept; the loop ends |
| OpenFile, CloseFile | `open("w")` truncates a file, its content is there once closed |
| Kill | the watchdog's SIGKILL, at any step |

Amounts are small integers, dates are day numbers, references and tokens are given normalised (sequences of
digits, so that the edit distance is the real one), names and IBANs are model values. INSERT OR REPLACE is a
replacement by key. SQLite's own atomicity is assumed: a commit is a step.

**How a step of ClaimsReference corresponds to the code.** `run_batch` is one transaction whose first
statement is the DELETE of `clear_batch`, so it takes SQLite's write lock before it reads anything that it
uses: ClearBatch is that step, and `draft` is the table as the writer sees it. AdjudicateCovered,
AdjudicateUncovered and AdjudicateRaises are one pass of the loop over claims, with the upsert; Commit
publishes `draft` and frees the lock. OpenExport truncates the file and CloseExport ends it;
each handle writes at its own offset, so a file that two of them had open (`shared`) may be left with the rows of one, of
both, or with the tail of the longer text behind the shorter: it may then be "mixed" (FlushExport, CloseExport), and nothing is said of its rows. LockTimeout is the
`database is locked` error after the five seconds of `sqlite3.connect`. Kill ends a job at any step, and the
transaction is rolled back. What of a record depends on `--as-of` (`asOf`, one of the dates in AsOfs), its payment date and
interest, is kept beside the record in `charges` and `newCharges`, so that "the batch is as it was" can be said of the rest. The
cash value of a line item is an input. `alone` is a history variable: the job that has run since it began with no other beside it.
The reference solution is modelled here because it is the repository's own statement of what the program is to
do; the application as shipped is ClaimsShipped.

**How a step of BundleIngest corresponds to the code.** Open, RunSeed and LoadRevocations are `Registry.open` as
`make_server` calls it before the first request: whether to seed is decided by the existence of the database
file, and schema, seed script and revocations are three commits. Receive is a request that got past the token;
every request opens a connection of its own, which finds the database there. Verify, CheckRevoked and CheckLatest
are the checks of `ingest`; ClearTmp, WriteFile, ClearStage, Move and Cleanup are `stage_bundle`, one step for
each change of the directory; CheckRevoked and CheckLatest once more, and Insert, are `publish`; AppendRecord
is the audit trail. Crash may come between any two of them; Open starts the server again on what is left. A
bundle is a name, a version given by its rank, the set of its paths, and whether parsing, signature, key and vendor
are in order; the content of a file is the bundle it is from. Two history variables serve the properties: `cutOff`, a crash
fell into the start that created `registry.db`, and `before[r]`, what the data root held of r's bundle when the upload arrived. The reference solution is modelled, with the server
of the application, which it does not change.

**How a step of ClaimsShipped corresponds to the code.** A shell runs one command at a time. build-db is Unlink,
Create (`connect` on the path), InitSchema (`executescript`, which commits) and Load (every table in one
transaction). adjudicate is Exists, Connect (which creates the file if it has gone meanwhile), ReadTables (the
constructor of Adjudicator), ReadBatch, then for each claim by id AdjudicateNext, which reads the prior activity and
the result, and RecordPayment, whose first INSERT begins the transaction and takes the write lock; Commit is the end
of `with conn`, OpenExport, FlushExport and CloseExport the file, which two handles may leave "mixed" as above; a row
of the export has its delay and interest as of the job's payment date. AdjudicateRaises, NoSuchTable and LockTimeout end the command,
and the transaction is rolled back. `files` are all databases ever created and `path` says which of them the name
stands for, so that a job may go on with one that was unlinked. Amounts are cents; a float half way between two
cents goes to the neighbour that TiesUp says.

**How a step of LoanBatch corresponds to the code.** LoadFails and Open are the loaders and `open(.., "wb")`; SkipClosed,
WriteDetail and RaiseUnknown one pass of the loop of `run_batch`; WriteTrailer, Flush and Close the rest of LnoutWriter.
A record is two cells, a flush puts any number of buffered cells at the job's own offset, past the end of a truncated
file with NUL between (Overlaid). `alone` is a history variable: no other job has had the file open since this one
opened it. A record's fields go through EncodeField, so what is compared is digits and zone. LoanLegacy follows the
paragraphs of LNACCR01 for one account statement by statement, each COMPUTE and ADD truncated to the PICTURE it
is stored in before the next one reads it, and the entries in the order of arrival; `LegacyFile` in LoanProperties
is its dataset.

**How a step of HarnessValidation corresponds to the code.** Format, Build or BuildFails, Scan, StartBox, RunSolve, ExecTests,
ReadReward are the docker calls of `validate_task` in their order, once before and once after `solve.sh`; Raise is a
call that throws, which removes the container and ends the run; LateEffect is what a timed-out exec does later, when
its client has gone; NextTask, OpenSummary, CloseSummary are `main`. A checkout is the checks its files fail and the
ways its `test.sh` and `solve.sh` may end. A call whose return code nobody looks at may fail, and the script goes on with empty
output: both scans of the image find nothing, the snapshot of the app is not there to compare with, the diff counts no
lines, the reward is not read or not removed. Three history variables are fields of the report: `unseen`, the calls that failed
this way; `changed`, what `solve.sh` really changed; `ours`, no other checkout was built under the tag since.
`Accepted` is what report_acceptance.py would conclude if it ran in that state.

## 3. Runs

| run | instance | shows |
|---|---|---|
| recon_lone | one job slot, 3 launches, 8 statements, 5 invoices, 8 lines | one invoice one match, decisions of sections 4 to 7 and in the order of section 6 (save where the shipped batch search differs), reports that mirror the ledger, append-only history, ReconPipeline implements ReconLedger |
| recon_overlap | two slots, one launch each, 3 statements | what needs no coordination between jobs (PaidIffRecorded, PostedLinesRecorded, ProcessedLinesPersisted), and a launched run that is not killed ends with its reports |
| batch_run_search | 7 invoices, every subset of them, payments 8..32 | the loops with their exits find exactly the run the rule selects, and end |
| claims_batches | two jobs, three runs in all, three months, nine claims, one month as of two payment dates | per-occurrence terms, order of claims, whole and unique settlement (ClaimsReference implements ClaimsBook), exports with delays and interest, a started job ends |
| claims_shipped | two shells, one of them a builder, 3 commands, three months, five claims, two payment dates | a batch is in a database whole or not at all, a rerun repeats what was settled, an export of one job's rows has its records and is as of one date |
| bundle_uploads | two threads, two uploads each, two names, six bundles, two starts | a refusal leaves nothing, published files are whole, nothing revoked is published unless the first start was cut off, records, BundleIngest implements BundleRegistry, an upload ends |
| loan_batch | two jobs on one output, five inputs, two or three accounts, fields of two to four digits | recon never says MATCH of a file that is not the mainframe's, an undisturbed run leaves LNACCR01's dataset to the byte, its trailer is that of its details, a run ends |
| harness | two validations from two checkouts, two tasks, two faulty docker calls | a PASS stands for a failing and a passing test run on a clean image but for calls that failed unseen, an accepted summary for one whole validation |

Runs that show a difference between the code and what a document says of it (one finding each):

| run | document | code |
|---|---|---|
| bundle_overlap | section 7: newer than the latest "at publish time" | two threads check before either inserts, and the older version is published last |
| bundle_first_start | section 7: a pair in `data/revocations.json` is refused at publish time | a crash in the first start leaves a registry whose list is empty for good, and a revoked version is published |
| recon_half_batch | section 4: all invoices of the run are matched | a kill between two commits leaves half a batch, which no rerun completes |
| claims_history | section 8: a rerun replaces the records the batch produced | the rerun of a month of the imported history deletes a record that it does not produce again |

**Bounds and why they are enough.** *recon*: the five invoices give each rule a line that only it decides,
two rules that compete for one invoice, an invoice paid before the import, an ambiguous name and an ambiguous
IBAN, a batch of two that a third invoice alone would also pay, a line whose amount only a subset pays that is no run; the statements overlap (the same line in
two files), have a late booking at the end, a duplicate and a bad row. MaxLaunches 3 lets a statement be
killed, run again and followed by another. BatchSubsetCap keeps its shipped value. *batch search*: the due
dates and amounts meet the window, the tolerance and the shortest and longest run exactly, one below and one
above; seven invoices are more than the run length, so every exit is taken. *claims*: one occurrence has four
claims in three months, two of them in one month with the order of ids against the order of dates, a
deductible larger than the first claim, a sublimit used up by two claims; a second one nearly uses up its limit
in a month outside the runs; one claim is lost on the very day its version ended; one claim raises. MaxRuns counts the
runs of all jobs: three give a rerun of an early month after a later one, two jobs that overlap on one month with a third
run before or after them, and a rerun as of another date that is killed before its export (claims_history needs two). *bundle*: of the name with a seeded version there is an
older bundle, two builds of the next version with files that differ, and a revoked one; the other name has a
genuine bundle and one that is not. Two uploads and two starts are what it takes to send one build, crash at any
step (of the first start, of the staging, before the record), start again and send the other build. Each thread
of bundle_uploads has a name of its own, since bundle_overlap shows that uploads of one name must not overlap. The
bounds (MaxLaunches, MaxRuns, MaxUploads, MaxStarts, Faults, the sets of statements, months, inputs and bundles) are the only
ones: no other counter grows.

*claims as shipped*: three commands are a build, a run and a rerun, or two runs and a build between them, in every
overlap. The versions meet on the day a claim is received, a claim is received when none is in force, one claim of a
batch has no depreciation rule and raises after the other was recorded, one has a record of the history in its own
batch and one in an older batch. At most one shell runs build-db: two at once is not how the scripts are used. *loan*:
one run of each job is what it takes to overlap or to follow a killed one; the inputs are a month with a balance on a tier's
bound, half a cent of interest, an account late by just its grace days, a waived fee and a closed account (MCPlain); one
with a correction entry, a credit balance, a mortgage opened in 1999 whose period ends on a 31st, due on a Saturday
before a holiday, with a fee that does not fit its item (MCSeams); one whose entries go beyond the paid item (MCWide); one
that raises at the second account (MCUnknown); and one that does not load (MCTorn). Narrow widths make totals wrap. *harness*: one
checkout is in order, the other has a reward baked into its image and, in another task, no Dockerfile. Two faulty calls meet
each of: a failed build, an exception, a test run or a `solve.sh` that is given up, and a scan, a snapshot, a diff, a `cat` or a `rm` that
fails unseen; and the pair that together lets a left-over reward pass for the tests' own, a `cat` that does not see what
`solve.sh` wrote and a `rm` that does not remove it. PassMeansOracle names that pair, and what the scans and the snapshot would have shown, through
`unseen`; the theorems (section 4) hold for any number of faulty calls.

CHECK_DEADLOCK is FALSE because jobs stop when they are done and nobody has to start another.

**Fairness.** Weak fairness of `RunStep(r)` for each runner, of `JobStep(j)` for each job (ClaimsReference, LoanBatch), of
`RequestStep(r)` for each thread of the server
and of the search loop: a started process is scheduled until it ends. ClaimsShipped states none, since
its properties are about safety, and HarnessValidation none, since some docker calls have no time limit and may never
return. Nothing makes an operator launch, a watchdog kill or an
upload arrive. A job that waits for SQLite's lock does not wait for ever, since `sqlite3.connect` raises
after five seconds (LockTimeout is part of JobStep).

**Mutants.** Each property of a passing run has a mutant: an operator with a comment "A slip for ...", defined
next to the definition it changes, that the run refutes (an INSERT forgotten for matched lines, a status not
asked again, a result kept too early, prior activity of the claim instead of the occurrence, claims by id, a
batch that is not cleared, ...).

## 4. Proofs

TLC checks the instances of section 3; the theorems hold for every value of the constants that meets the named
assumptions. Every invariant and action property of the passing runs is the statement of a theorem, RunFollowsSection6 and
TrailerAddsUp excepted; some need a hypothesis
that the code does not enforce, such as one runner only, and say so below. What stays with TLC alone is in the last paragraph of this section. Each `*Proofs` module is laid out the same way: the inductive invariant as
a conjunction of named parts, one lemma per action or group of actions, a lemma that says what a step of one process
leaves alone of the others, and at the end the theorems.

**ReconProofs** (ReconPipeline; any ledger, statements, number of job slots and bound).

* TypesHold, PaidAccountedFor (PaidIffRecorded), PostingsHaveLines (PostedLinesRecorded) and KillLosesOneLine
  (ProcessedLinesPersisted) hold with any number of runners and kills. `Sound == TypeOK /\ LineInHand` says which line,
  step, result and unmarked invoices a runner holds at each place of its program; `WrittenThrough` adds what holds
  half-way through the postings of a line. The effect of one MarkInvoice on the table (MarkEffect, UpsertRows), and the
  fact that no other action touches the ledger (OtherSteps), carry them.
* LoneRunnerKeepsBook (`ImplementsBook`), LoneRunnerPaysOnce (OneInvoiceOneMatch) and LoneRunnerAppends
  (HistoryOnlyGrows) assume one job slot, `Runs = {r}`. The strengthening is `OpenInHand`: what a lone runner has read
  as open, proposed, decided and not yet marked is still open. It is exactly what a second runner breaks: two jobs that read
  an invoice open both post it.
* LoneRunnerDecides (DecisionFollowsRules), also for one slot. Section4To7 is read off `matching_rules.md`, with B3 a contiguous
  run of the customer's open invoices (lines 152-154). The shipped search takes any subset up to a cap, which is the fault of INCIDENT-2291; so the
  statement excepts the lines for which no other rule proposes anything and the two searches answer differently (SearchesDiffer),
  and no others. What the code decides with its own search is `Verdict`; VerdictIsSection4To7 closes the gap. The code decides on reads taken invoice by
  invoice; the rules of `matching_rules.md` speak of the ledger at one instant. `ScanInHand` is the bridge: what has been
  proposed so far is what the rules gone through so far propose for the ledger as it is now, less what is still unread.
  `Weighed` carries it over the rules in their order: once one proposes, the later ones cannot change the decision. That the
  edit distance is a natural number (so that the best candidate exists) needs its table, a recursive function, to be
  shown natural row by row, as a least counterexample.
* LoneRunnerReports (ReportMirrorsLedger), for one slot: what is kept in memory names the lines taken so far and the rows
  added for them, the three files are written from it, and the counts of the summary are cardinalities that grow by one
  with each line.

**BatchProofs** (BatchRunSearch; any set of open invoices, payment, tolerance, window and lengths of a run).
SearchTypes (TypeOK) and SearchFindsTheBatch (AnswerIsSection4): the search of the reference solution, which gives up a
start as soon as the window or the total is exceeded, answers with the batch of section 4 (of the runs that
pay, the one that starts earliest, and the shortest of these), or with none if there is none.
The oldest-first order numbers the invoices bijectively from 0 (AtRank), so runs are slices of it. `PassedPayNothing` says
that what the loops have gone past pays for nothing, whether it was looked at or cut off; an exit is right because span and
total only grow with the end of a slice (SpanGrows, TotalGrows). The second needs amounts to be positive
(AmountsArePositive), which `solve.sh:192` relies on.

**ClaimsProofs** (ClaimsReference; any claims, policies, history, number of jobs).

* TypeCorrect (TypeOK), for any history. No amount is negative because sums of the prior activity are subtracted under
  `clamp_non_negative` only.
* NeverBeyondTerms (WithinTerms), for a history that was itself paid within the terms (HistoryWithinTerms), whatever is run,
  months of the history included: a run that deletes its batch's records and writes new ones stays within what the remaining ones leave.
* DeductibleAbsorbedOnce, FirstReceivedBearsDeductible, BookImplemented (`ImplementsBook`) and ExportsMirror, for a settled history
  (HistorySettled) of months that are not run again (HistoryIsPast). The key is `Rightful`: every record of a month that is
  run equals what adjudicating its claim again would write, given the records of the other batches and of the claims before it
  in its own (`Earlier`). It survives what other batches add later, because a claim that left part of a term took
  all it was entitled to (RowStays): a later claim takes from what is left, and what was left when the earlier one took its
  share is still enough for the same share. So a rerun deletes its batch's records and writes the same ones again:
  while it is at it, its draft is part of the table (InProgress), and the commit changes nothing.
* ExportsMirror (ExportMirrorsLedger) says of a file whose rows are one job's that it has the table's records for the batch
  (ResultsInv) and the delays and interest of one payment date (DatesInv). The date need not be the table's: a rerun as of
  another date may have committed and died before its export. A job that ran by itself from its first statement to its end leaves an export that
  shows the table's payment dates and interest too (AloneInv).

The hypotheses are satisfied: MCClaims states them of its history and TLC evaluates them. HistoryIsPast is needed: without it
the rerun of an imported month does not give its records again (run claims_history).

**BundleProofs** (BundleIngest; any threads, bundles, number of uploads and starts).

* TypeCorrect (TypeOK), RevokedStaysOut (RevokedNotPublished) and RecordedUntilCrash (RecordedUnlessCrashed) hold however uploads overlap:
  `publish` asks for the revocation again, and revocations do not change after the first start. RevokedNotPublished speaks of the
  pairs of `data/revocations.json`, in the table or not; its one exception is a crash in the start that created the registry (`cutOff`), which
  bundle_first_start exhibits.
* FilesIntact (PublishedFilesIntact), RegistryImplemented (`ImplementsRegistry`) and LatestGrows assume that no two
  uploads of one name are handled at once (`Spec /\ []NoOverlap`). `UploadAlone` says what a thread has on disk at each stage
  of `stage_bundle`: until the move nothing of a published version is touched, and what the check found to be newer than the latest still is
  when it is inserted. bundle_overlap refutes LatestGrows' property without the hypothesis; in bundle_uploads each thread has a name of its own.
* RefusedLeavesNothing (RejectedLeavesNothing) assumes the same and no more. The property compares, in the step that refuses, what the
  data root holds of the bundle with what it held when the upload arrived (`before`). NothingTouched carries it: until the
  checks are through nothing is written, and once they are, an upload alone of its name is not refused any more. Two uploads of one name that
  overlap are outside it: `publish` may then refuse what is already staged.

**HarnessProofs** (HarnessValidation; any tasks, checkouts and number of runs on one daemon).

* TypeCorrect (TypeOK), PassIsOracle (PassMeansOracle) and AcceptanceIsOfOneRun (PassIsOfOneRun), for any number of faulty docker calls. `Sound`
  keeps the types and the lists; `Evidence` says, as long as no check of the report has failed, what the stages passed have shown: of
  whose image (Ours), what the scans saw (Scanned), what the run before and the run after `solve.sh` did (Before, After), what a
  report that is through has (Passed). Each says what holds or which call is in `unseen`, so no bound on the faults is needed: a reward in the box
  that is not of this run's tests means that the `cat` that looks for it and the `rm` before the tests both failed.

**ShippedProofs** (ClaimsShipped; any portfolio, history, number of shells and commands, payment dates).

* BatchesSettleWhole, RerunsRepeat, ExportsHaveRecords rest on one fact (PriorIsHistory): what a job counts as the prior
  activity of a claim is the history's, whatever has been adjudicated since, because a claim has one batch and `prior_activity`
  leaves the batch itself out. So the result for a claim depends on the payment date only, and only in its interest;
  Settlement(c, a) is that record. The invariant `Sound` says that every loaded database keeps the history no batch
  replaces and holds each batch whole, at one payment date (FileSound); that only the builder's file is without tables
  (Builds); that a lock is held through its holder's connection (Locks); and what an adjudicating job has at each place of
  its program (Adjudicates). Its part Drafted makes the late lock harmless: what is in a transaction beside the
  records of the job's own batch is what the file has, since nobody else writes the file until it ends, and what was read
  before the lock was the history's anyway. ExportsHold adds that what a job is about to export is recorded
  somewhere; it lasts because no step takes a record out of a database (TablesRepeat). It is about exports that one job's
  rows make up, not about what two handles left of one file, and it says the delays and the interest are of one payment date. It says
  less than a reader may hope: *some* database has the records, which after a rebuild under a running job need not be the one the path names.
* ShippedTypes (TypeOK): the amounts are natural numbers. Line by line a sublimit only takes away (SumFunctionPointwise), the deductible
  is no more than is covered, and a deadline in business days exists: two days after a day of a weekend comes a business day, so 2n + 3 days
  hold n of them (EnoughBusinessDays, by an injection). Only claims that can be adjudicated at all (`Payable`) have results.

**LoanProofs** (LoanCodec, LoanTerms, LoanRecon, LoanBatch; fields of every width, any inputs, jobs, runs).

* Comp3RoundTrip and DisplayRoundTrip: a field gives back what FitToPic made of the value, sign and all, in a nibble or zone that
  decoding accepts, for any integer. TotalsTruncateOnce: while nothing
  negative is added, truncating a total at every account is truncating the sum once.
* MatchMeansSame (CleanMeansSame), of whatever text is in the file: `recon` compares by account, so the proof counts. Every record
  of the mainframe's file has a partner, there are as many on both sides and no key twice, so there are no others (pigeonhole), and nothing torn or without a
  trailer gets as far as the comparison.
* LoanTypes (TypeOK): what is on disk is cells of records and gaps, and a job never writes past two cells for each account
  passed (Walk), with any overlap and any kill.
* UndisturbedRunWritesAll: a run that ends without another job at the file leaves the detail of every open account in master
  order, the trailer of their totals, and nothing else. `AloneInv`: as long as it is alone, the file followed by
  its buffer is the dataset so far, its offset is the end of the file, and nobody else has the file open; so it does not matter where
  the buffer is cut. The totals are named by their recurrence (RunOf).
* RollsToBusinessDay: the bound of RollForward's search suffices. Of one week more than there are holidays, one has a Monday that is
  no holiday (pigeonhole), so the loop of `roll_forward` ends, at the first business day on or after the date.
* SameResult: for every input that loads and every open account whose entries are within the paid item and of known types,
  `process_account` gives what the paragraphs of LNACCR01 give, field by field: the amount paid (SamePaid), tier, accrual days, daily rate, interest,
  due date, days late, fee and status (SameTier to SameStatus). The port adds the entries in posting order and the mainframe as
  they arrive. Sorting is named by the rank of an entry, InOrderIs shows that every rank has exactly one, KeptIs what a selection
  keeps, and neither order ever leaves the item, so both totals are the sum over the account's entries (ArrangedTotal). The other lemmas follow
  the stores: what the port fits to a PICTURE is what the COBOL item holds when the next statement reads it, with the rounding of
  a signed quotient (SameRounding) and the century window of two-digit years (SameWindow).
* ParityHolds (ByteIdentical): `AsLegacy` strengthens the invariant of UndisturbedRunWritesAll, the dataset so far is the mainframe's
  so far. SameDetail carries the equality of the results over to digits and zones, SameTotalsStep to the totals after each
  account, truncated alike, and SameTrailer to the trailer; a job gets to the details only with an input that loads (LoadedInv). Its premise is that the entries of each open account are
  within the paid item (EntriesFit): beyond it the two orders of addition may truncate differently, since `transactions.py:35` sorts, which
  the reference solution leaves as it is.

**SumProofs** holds what the others use of sums over finite sets: a sum of natural numbers is one, it does not depend on the order
of summation (SumRemove), grows with the set and with its summands. The community modules define a sum by a recursive
function that removes a chosen element. The library's induction theorems take an operator as a parameter, which no
installed prover can instantiate; so the lemmas are proved by a *least counterexample*: the subsets for which the claim
fails are a set, `WFMin` for the strict subset ordering of a finite set gives one all of whose proper subsets satisfy the claim
(Minimal), and one step of the recursion (SumStep) refutes it.

**Assumptions.** Each module names its own, TLC evaluates them on every run that extends it, and they are of three
kinds: identifiers that are compared or sorted are numbers (InvoiceIdsAssumption, LineIdsAssumption, ClaimIdsAssumption), data are finite
and of their type (InvoiceAssumption, LineAssumption, ReferenceAssumption, ClaimAssumption, VersionsAssumption,
DataAssumption, InputsAssumption, ItemsAssumption, HolidaysAssumption, HarnessAssumption, BundleAssumption), and bounds are natural numbers. Those that say more are:
amounts of invoices are positive; no term of a policy, sublimit, deadline or rate of interest is negative; the history has one record per claim
and batch, as the table's key demands; the claims of an occurrence have its policy, peril and date; at most one
shell runs build-db. Of pyledger's datasets, ItemsAssumption says that an item holds no more digits than its PICTURE, PaymentDueAssumption
that LM-PMT-DUE-AMT, which is unsigned, has no negative zone, and PeriodAssumption that the days between the as-of date and a due
date are within the five digits LNACCR01 keeps of them (years are of two digits, so this is about the as-of date).

*Only model-checked*: liveness (UnkilledRunReports, StartedRunEnds, UploadEnds, RunEnds, Terminates), which is
outside the prover's reach; RunFollowsSection6, which needs that the choices of a whole run, one line after another, are those of
a run that reads each line's ledger at once; and TrailerAddsUp, whose signed totals are claimed only while the sum of the
magnitudes fits the item (beyond it a total may leave its item and come back). Some forms in the pyledger modules are chosen for the prover: totals that are kept in an item are a recursive function (Totalled) and an order is given by
ranks (InOrder), where FoldLeft and SortSeq would leave the provers nothing to go on; and records are written field by field,
as `@@` cannot be expanded.

## 5. Not modelled, and why

* SQLite file locking between recon jobs beyond the atomicity of a commit: a job that meets a lock for five
  seconds raises, which for the ledger is a kill at that step.
* recon's migrations and ledger loader: a crash between `executescript` and the version row, and a loader that
  unlinks the database under a running job, are in the list of hazards without a property.
* Formats: CSV, amounts and dates as text, the statement grammar, token normalisation, the FWB container, PICTURE strings.
  They are sequential functions of one input.
* claims: `reconcile_audit.py`, which builds and runs in a scratch directory and compares seven rows.
* bundlevault: the `ingest` command beside a running server (it would open and seed the registry as a second
  process), GET requests, the comparison of version strings (versions are ranks). The application as shipped, which stages files before it verifies and compares versions as
  strings part by part, is what the reference solution replaces; its defects are what the task's tests look for.
* pyledger's `dump`, of the codec the parsing of PICTUREs and the character encodings, and the fixed sizes of LNACCR01's
  tables (its input is taken to fit them).
* harness: the wording of `summary.md` and of the acceptance report, `harbor_validate.sh`, which loops over an external
  command, and the tasks' own tests, which are the ways `test.sh` may end.

## 6. What reading the code for the models showed

Beside the findings of section 3, each of which a run exhibits, these were met and are not run:

* recon: the shipped B3 search (`matching/batch.py`) considers subsets that are no runs and gives up on customers with more
  open invoices than its cap, where section 4 of `matching_rules.md` knows contiguous runs only (SearchesDiffer). A killed run leaves
  paid invoices that no report of a later run names, and may leave a new `matches.csv` beside an old `summary.json`. Two jobs on one ledger
  that read an invoice open both post it; no document says that two may run at once.
* claims as shipped: the version is chosen by the date received, with an inclusive end and a fallback to the latest; prior
  activity is asked per claim, not per occurrence; claims are taken by id; no holidays; the first day counts. These
  are what `adjudication_rules.md` corrects and the reference solution replaces, so ShippedProperties says
  nothing of them. A job that opens a rebuilt database before it is loaded exports an empty month and exits with 0.
* claims, reference solution: a rerun as of another date that is killed between commit and export leaves a complete export whose
  interest is not the table's; two jobs with one `--out` may leave a file that is neither's.
* bundlevault: of two overlapping uploads of one name `publish` may refuse the one that is already staged, and its files stay; an
  upload that dies after the commit never gets its PUBLISH record.
* pyledger: entries beyond the paid item may leave the port and LNACCR01 with different sums; jobs that
  share `--out` overlay each other's records.
* harness: both scans of the image pass when docker fails; a left-over reward passes for the tests' own if the `cat` that looks for it and the
  `rm` fail; the tag is the task's name, so another checkout may move it between build and test; an older summary with a Pass, or one of a single
  task, is accepted as it stands.

## 7. Plan

In the order of what matters most to a reader of the code. Done: rule B3 and its search; the nightly job; adjudication by
the reference solution and as shipped; uploads by the reference solution; the accrual batch against LNACCR01; the
validation harness; the theorems about each of them (section 4). Left:

1. **ReconMigrations**: the crash between schema and version row; the loader under a running job.
2. **bundlevault**: the command line beside the server.
3. **recon with two slots**: what remains true of decisions and reports when jobs overlap but their statements do not compete.
4. **Proofs** of RunFollowsSection6 and TrailerAddsUp.
