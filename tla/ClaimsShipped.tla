---------------------------- MODULE ClaimsShipped ----------------------------
(***************************************************************************)
(* `tessera.cli build-db` and `tessera.cli adjudicate` as shipped, run by  *)
(* several shells on one path.  Python's sqlite3 begins a transaction at   *)
(* the first INSERT only: the tables, the claims of the batch and all that *)
(* is read for the first claim are read before the write lock is taken.    *)
(* build-db unlinks the file first, so a job that has it open goes on with *)
(* a database that no path names.  A command may be killed at every step.  *)
(***************************************************************************)
EXTENDS ShippedTerms

CONSTANTS
    Jobs,           \* operators' shells: each runs one command at a time
    NoJob,
    Builders,       \* the shell that runs build-db, a set of at most one
    RunBatches,     \* the batches operators run
    AsOfs,          \* the payment dates they give
    MaxRuns         \* bound on the commands started in all

ASSUME RunsAssumption ==
    /\ NoJob \notin Jobs /\ Builders \subseteq Jobs
    /\ \A j, k \in Builders : j = k
    /\ RunBatches \subseteq Batches /\ MaxRuns \in Nat /\ AsOfs \subseteq Int

VARIABLES
    files,      \* the database files ever created
    path,       \* which of them --db names, 0 for none
    pc,         \* where a shell's command stands
    args,       \* --batch and --as-of
    handle,     \* the file a command is connected to, 0 for none
    todo,       \* claims not yet adjudicated
    known,      \* whether the reference tables read were loaded
    inHand,     \* the result not yet recorded, a set of at most one
    results,    \* the results of the run
    draft,      \* the payments table inside the command's transaction
    export,     \* the export file of each batch
    shared,     \* whether another job has had the job's export open beside it
    runs        \* commands started

memory == <<todo, known, inHand, results, draft>>
exports == <<export, shared>>
vars == <<files, path, pc, args, handle, memory, exports, runs>>

-----------------------------------------------------------------------------

EmptyFile == [state |-> "empty", rows |-> {}, writer |-> NoJob]

Absent == [state |-> "absent", rows |-> {}]
Truncated == [state |-> "truncated", rows |-> {}]
Written(rows) == [state |-> "written", rows |-> rows]
Mixed == [state |-> "mixed", rows |-> {}]

NoArgs == <<>>

Ended == {"idle", "done", "refused", "failed", "killed"}

Running(j) == pc[j] \notin Ended

(* A database that was built before. *)
Init ==
    /\ files = <<[state |-> "loaded", rows |-> History, writer |-> NoJob]>>
    /\ path = 1
    /\ pc = [j \in Jobs |-> "idle"]
    /\ args = [j \in Jobs |-> NoArgs]
    /\ handle = [j \in Jobs |-> 0]
    /\ todo = [j \in Jobs |-> {}]
    /\ known = [j \in Jobs |-> FALSE]
    /\ inHand = [j \in Jobs |-> {}]
    /\ results = [j \in Jobs |-> {}]
    /\ draft = [j \in Jobs |-> {}]
    /\ export = [b \in Batches |-> Absent]
    /\ shared = [j \in Jobs |-> FALSE]
    /\ runs = 0

Goto(j, stage) == pc' = [pc EXCEPT ![j] = stage]

BatchOf(j) == args[j][1]

AsOf(j) == args[j][2]

File(j) == files[handle[j]]

InTransaction(j) == handle[j] # 0 /\ File(j).writer = j

(* sqlite3.connect opens what the path names, or creates it. *)
ConnectTo(j) ==
    IF path = 0
    THEN /\ files' = Append(files, EmptyFile)
         /\ path' = Len(files) + 1
         /\ handle' = [handle EXCEPT ![j] = Len(files) + 1]
    ELSE /\ handle' = [handle EXCEPT ![j] = path]
         /\ UNCHANGED <<files, path>>

(* The command ends: an open transaction is rolled back, its memory gone. *)
End(j, how) ==
    /\ Goto(j, how)
    /\ files' = IF InTransaction(j) THEN [files EXCEPT ![handle[j]].writer = NoJob] ELSE files
    /\ handle' = [handle EXCEPT ![j] = 0]
    /\ todo' = [todo EXCEPT ![j] = {}]
    /\ known' = [known EXCEPT ![j] = FALSE]
    /\ inHand' = [inHand EXCEPT ![j] = {}]
    /\ results' = [results EXCEPT ![j] = {}]
    /\ draft' = [draft EXCEPT ![j] = {}]
    /\ args' = [args EXCEPT ![j] = NoArgs]
    /\ UNCHANGED <<path, runs>>

Started(j) ==
    /\ ~Running(j) /\ runs < MaxRuns
    /\ runs' = runs + 1

-----------------------------------------------------------------------------
(* cmd_build_db *)

StartBuild(j) ==
    /\ j \in Builders /\ Started(j)
    /\ Goto(j, "unlink")
    /\ UNCHANGED <<files, path, args, handle, memory, exports>>

Unlink(j) ==
    /\ pc[j] = "unlink"
    /\ path' = 0
    /\ Goto(j, "create")
    /\ UNCHANGED <<files, args, handle, memory, exports, runs>>

Create(j) ==
    /\ pc[j] = "create"
    /\ ConnectTo(j)
    /\ Goto(j, "schema")
    /\ UNCHANGED <<args, memory, exports, runs>>

(* executescript, which commits. *)
InitSchema(j) ==
    /\ pc[j] = "schema"
    /\ files' = [files EXCEPT ![handle[j]].state = "schema"]
    /\ Goto(j, "load")
    /\ UNCHANGED <<path, args, handle, memory, exports, runs>>

(* load_data_dir: every table in one transaction; the connection is closed. *)
Load(j) ==
    /\ pc[j] = "load"
    /\ files' = [files EXCEPT ![handle[j]] =
                    [state |-> "loaded", rows |-> History, writer |-> @.writer]]
    /\ handle' = [handle EXCEPT ![j] = 0]
    /\ Goto(j, "done")
    /\ UNCHANGED <<path, args, memory, exports, runs>>

-----------------------------------------------------------------------------
(* cmd_adjudicate *)

StartAdjudicate(j) ==
    /\ Started(j)
    /\ args' \in {[args EXCEPT ![j] = a] : a \in RunBatches \X AsOfs}
    /\ Goto(j, "exists")
    /\ UNCHANGED <<files, path, handle, memory, exports>>

Exists(j) ==
    /\ pc[j] = "exists"
    /\ Goto(j, IF path = 0 THEN "refused" ELSE "connect")
    /\ UNCHANGED <<files, path, args, handle, memory, exports, runs>>

Connect(j) ==
    /\ pc[j] = "connect"
    /\ ConnectTo(j)
    /\ Goto(j, "tables")
    /\ UNCHANGED <<args, memory, exports, runs>>

(* Adjudicator(): the depreciation schedule and the prompt-pay rules. *)
ReadTables(j) ==
    /\ pc[j] = "tables" /\ File(j).state # "empty"
    /\ known' = [known EXCEPT ![j] = File(j).state = "loaded"]
    /\ Goto(j, "batch")
    /\ UNCHANGED <<files, path, args, handle, todo, inHand, results, draft, exports, runs>>

NoSuchTable(j) ==
    /\ pc[j] = "tables" /\ File(j).state = "empty"
    /\ End(j, "failed")
    /\ UNCHANGED exports

ReadBatch(j) ==
    /\ pc[j] = "batch"
    /\ todo' = [todo EXCEPT ![j] = IF File(j).state = "loaded" THEN ClaimsOf(BatchOf(j)) ELSE {}]
    /\ Goto(j, "claims")
    /\ UNCHANGED <<files, path, args, handle, known, inHand, results, draft, exports, runs>>

(* The payments table as the connection sees it. *)
RowsSeen(j) == IF InTransaction(j) THEN draft[j] ELSE File(j).rows

(* A slip for RerunRepeats: the rows of the batch itself are left in. *)
PriorOfAnyBatch(rows, c, b) == {p \in rows : p.claim = c}

(* prior_activity *)
PriorActivity(rows, c, b) == {p \in rows : p.claim = c /\ p.batch # b}

(* ORDER BY claim_id *)
AdjudicateNext(j) ==
    /\ pc[j] = "claims" /\ inHand[j] = {} /\ todo[j] # {}
    /\ LET c == Min(todo[j])
       IN  /\ known[j] /\ ~Raises(c)
           /\ inHand' = [inHand EXCEPT ![j] =
                {Adjudicate(c, PriorActivity(RowsSeen(j), c, BatchOf(j)), AsOf(j))}]
           /\ todo' = [todo EXCEPT ![j] = @ \ {c}]
    /\ UNCHANGED <<files, path, pc, args, handle, known, results, draft, exports, runs>>

AdjudicateRaises(j) ==
    /\ pc[j] = "claims" /\ inHand[j] = {} /\ todo[j] # {}
    /\ ~known[j] \/ Raises(Min(todo[j]))
    /\ End(j, "failed")
    /\ UNCHANGED exports

(* INSERT OR REPLACE on the unique key (claim_id, batch). *)
Record(rows, row) == {p \in rows : p.claim # row.claim \/ p.batch # row.batch} \cup {row}

(* A slip for BatchSettlesWhole: each payment is committed. *)
RecordAndCommit(j) ==
    /\ pc[j] = "claims" /\ File(j).writer = NoJob
    /\ \E res \in inHand[j] :
        /\ files' = [files EXCEPT ![handle[j]].rows = Record(@, PaymentOf(res, BatchOf(j), AsOf(j)))]
        /\ results' = [results EXCEPT ![j] = @ \cup {res}]
    /\ inHand' = [inHand EXCEPT ![j] = {}]
    /\ UNCHANGED <<path, pc, args, handle, todo, known, draft, exports, runs>>

(* The first one begins the transaction and takes the write lock. *)
RecordPayment(j) ==
    /\ pc[j] = "claims" /\ File(j).writer \in {NoJob, j}
    /\ \E res \in inHand[j] :
        /\ draft' = [draft EXCEPT ![j] = Record(RowsSeen(j), PaymentOf(res, BatchOf(j), AsOf(j)))]
        /\ results' = [results EXCEPT ![j] = @ \cup {res}]
    /\ inHand' = [inHand EXCEPT ![j] = {}]
    /\ files' = [files EXCEPT ![handle[j]].writer = j]
    /\ UNCHANGED <<path, pc, args, handle, todo, known, exports, runs>>

(* "database is locked" after the five seconds of sqlite3.connect. *)
LockTimeout(j) ==
    /\ pc[j] = "claims" /\ inHand[j] # {} /\ File(j).writer \notin {NoJob, j}
    /\ End(j, "failed")
    /\ UNCHANGED exports

(* A slip for ExportHasItsRecords: `with conn` is left out. *)
CloseOnly(j) ==
    /\ pc[j] = "claims" /\ inHand[j] = {} /\ todo[j] = {}
    /\ files' = IF InTransaction(j) THEN [files EXCEPT ![handle[j]].writer = NoJob] ELSE files
    /\ draft' = [draft EXCEPT ![j] = {}]
    /\ Goto(j, "open")
    /\ UNCHANGED <<path, args, handle, todo, known, inHand, results, exports, runs>>

Commit(j) ==
    /\ pc[j] = "claims" /\ inHand[j] = {} /\ todo[j] = {}
    /\ files' = IF InTransaction(j)
                THEN [files EXCEPT ![handle[j]] =
                        [state |-> @.state, rows |-> draft[j], writer |-> NoJob]]
                ELSE files
    /\ draft' = [draft EXCEPT ![j] = {}]
    /\ Goto(j, "open")
    /\ UNCHANGED <<path, args, handle, todo, known, inHand, results, exports, runs>>

(* write_export: open("w") truncates, and each handle writes at its own    *)
(* offset, when its buffer is full and when it is closed: of two jobs that *)
(* have one file open, either may overlay what the other wrote, in part.   *)
Writing(j, b) == pc[j] = "close" /\ BatchOf(j) = b

OpenExport(j) ==
    LET others == {k \in Jobs \ {j} : Writing(k, BatchOf(j))}
    IN  /\ pc[j] = "open"
        /\ export' = [export EXCEPT ![BatchOf(j)] = Truncated]
        /\ shared' = [k \in Jobs |-> CASE k = j -> others # {}
                                       [] k # j -> shared[k] \/ k \in others]
        /\ Goto(j, "close")
        /\ UNCHANGED <<files, path, args, handle, memory, runs>>

FlushExport(j) ==
    /\ pc[j] = "close" /\ shared[j]
    /\ export' = [export EXCEPT ![BatchOf(j)] = Mixed]
    /\ UNCHANGED <<files, path, pc, args, handle, memory, shared, runs>>

CloseExport(j) ==
    /\ pc[j] = "close"
    /\ \E file \in {Written(results[j])} \cup {f \in {Mixed} : shared[j]} :
           export' = [export EXCEPT ![BatchOf(j)] = file]
    /\ UNCHANGED shared
    /\ End(j, "done")

-----------------------------------------------------------------------------

Kill(j) == Running(j) /\ End(j, "killed") /\ UNCHANGED exports

JobStep(j) ==
    \/ Unlink(j) \/ Create(j) \/ InitSchema(j) \/ Load(j)
    \/ Exists(j) \/ Connect(j) \/ ReadTables(j) \/ NoSuchTable(j) \/ ReadBatch(j)
    \/ AdjudicateNext(j) \/ AdjudicateRaises(j) \/ RecordPayment(j) \/ LockTimeout(j)
    \/ Commit(j) \/ OpenExport(j) \/ FlushExport(j) \/ CloseExport(j)

Next == \E j \in Jobs : StartBuild(j) \/ StartAdjudicate(j) \/ JobStep(j) \/ Kill(j)

Spec == Init /\ [][Next]_vars

=============================================================================
