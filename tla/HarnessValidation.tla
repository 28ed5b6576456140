-------------------------- MODULE HarnessValidation --------------------------
(***************************************************************************)
(* Runs of scripts/validate_task.py on one Docker daemon, each over the    *)
(* task directories of its own checkout, and scripts/report_acceptance.py, *)
(* which may be run at any time.  Images are shared: a task's tag is       *)
(* its name's, whichever checkout it was built from.  A docker call may    *)
(* fail or pass its time limit, a run may be killed at every step, and     *)
(* what a timed-out `docker exec` started lives on in the container.       *)
(***************************************************************************)
EXTENDS HarnessTask

CONSTANTS
    Validators,
    Tasks,
    Names,          \* Names[v]: the tasks v validates, in order; at least one
    Checkout,       \* Checkout[v][t]: the directory of t in v's checkout
    Faults          \* TLC's bound on the docker calls that go wrong in all

ASSUME HarnessAssumption ==
    /\ Names \in [Validators -> Seq(Tasks)]
    /\ \A v \in Validators : Names[v] # <<>>
    /\ Faults \in Nat

(* pytest counts tests and test.sh does not exit with the status that      *)
(* Container.exec gives a timeout; solve.sh exits 0 when it is done.       *)
ASSUME RunsAssumption ==
    \A v \in Validators, t \in Tasks :
        /\ \A run \in Checkout[v][t].testRuns :
            /\ run.exit # TimedOut
            /\ run.counts \in [passed : Nat, failed : Nat, errors : Nat, collected : Nat]
        /\ \A run \in Checkout[v][t].solveRuns :
            /\ run.exit = 0 => run.app = "solved"
            /\ run.files \in Nat /\ run.loc \in Nat

VARIABLES
    image,      \* who built what a task's tag names, or None
    skipDocker, \* whether a validator was started with --skip-docker
    pc,         \* where a validator stands
    at,         \* index in Names
    phase,      \* "pre" or "post" apply
    box,        \* the container in use, a set of at most one
    res,        \* the test result in hand
    report,     \* the TaskReport in hand
    reports,
    summary,    \* summary.json of the report directory
    faults      \* docker calls that went wrong

progress == <<skipDocker, pc, at, phase>>
results == <<res, report, reports>>
vars == <<image, progress, box, results, summary, faults>>

-----------------------------------------------------------------------------

Task(v) == Names[v][at[v]]

Dir(v) == Checkout[v][Task(v)]

(* The directory the task's image was last built from. *)
Source(v) == Checkout[image[Task(v)]][Task(v)]

(* The last three are records of the run, not of the program: no other     *)
(* checkout was built under the tag since this one's image was; the files  *)
(* and lines solve.sh changed; the docker calls that failed without the    *)
(* script's looking at their return code.                                  *)
NewReport(t) ==
    [task |-> t, failed |-> {}, pre |-> {}, post |-> {}, loc |-> <<>>,
     ours |-> FALSE, changed |-> [files |-> 0, loc |-> 0], unseen |-> {}]

NoSummary == [state |-> "absent", by |-> None, reports |-> <<>>]

NoRun ==
    [exit |-> 0, counts |-> NoCounts, wrote |-> None, app |-> None, built |-> None, reward |-> None]

Init ==
    /\ image = [t \in Tasks |-> None]
    /\ skipDocker = [v \in Validators |-> FALSE]
    /\ pc = [v \in Validators |-> "idle"]
    /\ at = [v \in Validators |-> 1]
    /\ phase = [v \in Validators |-> "pre"]
    /\ box = [v \in Validators |-> {}]
    /\ res = [v \in Validators |-> NoRun]
    /\ report = [v \in Validators |-> NewReport(Names[v][1])]
    /\ reports = [v \in Validators |-> <<>>]
    /\ summary = NoSummary
    /\ faults = 0

Ended == {"idle", "done", "died", "killed"}

Running(v) == pc[v] \notin Ended

Goto(v, stage) == pc' = [pc EXCEPT ![v] = stage]

Fails(v, names) == report' = [report EXCEPT ![v].failed = @ \cup names]

(* The memory of a process is gone with it. *)
Forget(v) ==
    /\ phase' = [phase EXCEPT ![v] = "pre"]
    /\ at' = [at EXCEPT ![v] = 1]
    /\ res' = [res EXCEPT ![v] = NoRun]
    /\ report' = [report EXCEPT ![v] = NewReport(Names[v][1])]
    /\ reports' = [reports EXCEPT ![v] = <<>>]

Launch(v) ==
    /\ pc[v] = "idle"
    /\ \E skip \in BOOLEAN : skipDocker' = [skipDocker EXCEPT ![v] = skip]
    /\ Goto(v, "format")
    /\ UNCHANGED <<image, at, phase, box, results, summary, faults>>

-----------------------------------------------------------------------------
(* validate_task *)

Format(v) ==
    /\ pc[v] = "format"
    /\ LET failed == FormatFailures(Dir(v))
       IN  IF failed = {}
           THEN /\ Goto(v, IF skipDocker[v] THEN "next" ELSE "build")
                /\ UNCHANGED report
           ELSE /\ Goto(v, "next")
                /\ Fails(v, failed \cup {"docker-skipped-due-to-format-failures"})
    /\ UNCHANGED <<skipDocker, image, at, phase, box, res, reports, summary, faults>>

EnvBuildFailures(dir) ==
    {n \in {"docker-build(environment-context, as Harbor builds it)"} : ~dir.envBuilds}

(* build_image from the task root, then, under a tag of its own that       *)
(* nothing reads, from `environment`; whoever is past its own build of the *)
(* task now runs what this one built.                                      *)
Build(v) ==
    /\ pc[v] = "build"
    /\ image' = [image EXCEPT ![Task(v)] = v]
    /\ report' = [w \in Validators |->
            IF w = v THEN [report[v] EXCEPT !.ours = TRUE, !.failed = @ \cup EnvBuildFailures(Dir(v))]
            ELSE [report[w] EXCEPT !.ours = @ /\ report[w].task # Task(v)]]
    /\ Goto(v, "scan")
    /\ UNCHANGED <<skipDocker, at, phase, box, res, reports, summary, faults>>

BuildFails(v) ==
    /\ pc[v] = "build"
    /\ faults < Faults /\ faults' = faults + 1
    /\ Fails(v, {"docker-build(task-root-context)"})
    /\ Goto(v, "next")
    /\ UNCHANGED <<skipDocker, image, at, phase, box, res, reports, summary>>

(* leak_scan and stray_files_scan of the image the tag names now.  A scan  *)
(* that fails prints nothing and passes.                                   *)
ScanFailures(dir, lost) ==
    {n \in {"image-has-no-tests-or-solution"} : "leak_scan" \notin lost /\ dir.baked # None}
        \cup {n \in {"image-no-stray-files-outside-app"} :
                 "stray_files_scan" \notin lost /\ dir.strays}

Scan(v) ==
    /\ pc[v] = "scan"
    /\ \E lost \in SUBSET {"leak_scan", "stray_files_scan"} :
        /\ faults' = faults + Cardinality(lost) /\ faults' <= Faults
        /\ report' = [report EXCEPT ![v].failed = @ \cup ScanFailures(Source(v), lost),
                                    ![v].unseen = @ \cup ({"image"} \X lost)]
    /\ Goto(v, "start")
    /\ UNCHANGED <<skipDocker, image, at, phase, box, res, reports, summary>>

(* Container(tag): a fresh one, from the image the tag names now. *)
StartBox(v) ==
    /\ pc[v] = "start"
    /\ box' = [box EXCEPT ![v] = {[built |-> image[Task(v)], app |-> "original",
                                   reward |-> Source(v).baked, late |-> {}]}]
    /\ Goto(v, IF phase[v] = "pre" THEN "tests" ELSE "solve")
    /\ UNCHANGED <<skipDocker, image, at, phase, results, summary, faults>>

(* run_test_sh to the end of its exec.  Past the time limit the exit       *)
(* status is 124, no output is kept and test.sh still writes its reward;   *)
(* the rm of an older reward may fail unseen.                              *)
Wrote(run, timely) == IF timely THEN run.wrote ELSE None

TestResult(b, run, timely) ==
    [exit |-> IF timely THEN run.exit ELSE TimedOut,
     counts |-> IF timely THEN run.counts ELSE NoCounts,
     wrote |-> Wrote(run, timely), app |-> b.app, built |-> b.built, reward |-> None]

AfterTests(b, run, timely, cleared) ==
    [b EXCEPT !.reward = IF Wrote(run, timely) # None THEN Wrote(run, timely)
                         ELSE IF cleared THEN None ELSE @,
              !.late = IF timely THEN @ ELSE {[reward |-> run.wrote, app |-> b.app]}]

ExecTests(v) ==
    /\ pc[v] = "tests"
    /\ \E b \in box[v], run \in Dir(v).testRuns, timely \in BOOLEAN, cleared \in BOOLEAN :
        /\ timely \/ b.late = {}
        /\ cleared \/ b.reward # None
        /\ faults' = faults + (IF timely THEN 0 ELSE 1) + (IF cleared THEN 0 ELSE 1)
        /\ faults' <= Faults
        /\ res' = [res EXCEPT ![v] = TestResult(b, run, timely)]
        /\ box' = [box EXCEPT ![v] = {AfterTests(b, run, timely, cleared)}]
        /\ report' = [report EXCEPT ![v].unseen =
                          @ \cup {call \in {<<phase[v], "rm">>} : ~cleared}]
    /\ Goto(v, "read")
    /\ UNCHANGED <<skipDocker, image, at, phase, reports, summary>>

(* The reward is read, or the `cat` fails as if there were none; the       *)
(* container is removed and the checks recorded.                           *)
Checked(rep, when, result) ==
    IF when = "pre"
    THEN [rep EXCEPT !.pre = {result}, !.failed = @ \cup PreFailures(result)]
    ELSE [rep EXCEPT !.post = {result}, !.failed = @ \cup PostFailures(result)]

ReadReward(v) ==
    /\ pc[v] = "read"
    /\ \E b \in box[v], reward \in {None} \cup {b.reward : b \in box[v]} :
        /\ faults' = faults + (IF reward = b.reward THEN 0 ELSE 1) /\ faults' <= Faults
        /\ report' = [report EXCEPT ![v] =
                          Checked(@, phase[v], [res[v] EXCEPT !.reward = reward])]
    /\ box' = [box EXCEPT ![v] = {}]
    /\ Goto(v, IF phase[v] = "pre" THEN "start" ELSE "next")
    /\ phase' = [phase EXCEPT ![v] = "post"]
    /\ res' = [res EXCEPT ![v] = NoRun]
    /\ UNCHANGED <<skipDocker, image, at, reports, summary>>

(* solve.sh, the reward it may have left, the lines and files it changed.  *)
(* Of the docker calls around it only the exec of solve.sh has its status  *)
(* looked at: a `cat` that fails reads as no reward, without the snapshot  *)
(* diff counts the whole of /app, and what it prints may not be a number.  *)
AfterSolve(b, run) ==
    [b EXCEPT !.app = run.app,
              !.reward = IF run.wrote = None THEN @ ELSE run.wrote,
              !.late = IF run.exit = TimedOut
                       THEN {[reward |-> run.wrote, app |-> "solved"]} ELSE {}]

Counted(run, whole, lost) ==
    LET diff == IF "diff" \in lost THEN [files |-> 0, loc |-> 0]
                ELSE IF "snapshot" \in lost THEN whole
                ELSE run
    IN  [exit |-> run.exit, files |-> diff.files, loc |-> diff.loc]

Solved(rep, run, counted, found, lost) ==
    [rep EXCEPT !.loc = IF "diff" \in lost THEN <<>> ELSE <<counted.loc>>,
                !.failed = @ \cup SolveFailures(counted, found),
                !.changed = [files |-> run.files, loc |-> run.loc],
                !.unseen = @ \cup ({"post"} \X lost)]

RunSolve(v) ==
    /\ pc[v] = "solve"
    /\ \E b \in box[v], run \in Dir(v).solveRuns, lost \in SUBSET {"snapshot", "cat", "diff"} :
        LET reward == AfterSolve(b, run).reward
        IN  /\ faults' = faults + Cardinality(lost) /\ faults' <= Faults
            /\ "cat" \in lost => reward # None
            /\ box' = [box EXCEPT ![v] = {AfterSolve(b, run)}]
            /\ report' = [report EXCEPT ![v] =
                              Solved(@, run, Counted(run, Dir(v).whole, lost),
                                     IF "cat" \in lost THEN None ELSE reward, lost)]
    /\ Goto(v, "tests")
    /\ UNCHANGED <<skipDocker, image, at, phase, res, reports, summary>>

(* What a timed-out exec started ends in the container, unseen. *)
AfterLate(b, effect) ==
    [b EXCEPT !.app = effect.app, !.late = {},
              !.reward = IF effect.reward = None THEN @ ELSE effect.reward]

LateEffect(v) ==
    /\ \E b \in box[v] : \E effect \in b.late :
        box' = [box EXCEPT ![v] = {AfterLate(b, effect)}]
    /\ UNCHANGED <<image, progress, results, summary, faults>>

(* A slip for TypeOK: the exception passes the container by. *)
RaiseOpen(v) ==
    /\ pc[v] \in {"tests", "solve"}
    /\ faults < Faults /\ faults' = faults + 1
    /\ Goto(v, "died") /\ Forget(v)
    /\ UNCHANGED <<skipDocker, image, box, summary>>

(* A docker call past its limit, or one run with check=True that failed:   *)
(* the exception leaves the container to `finally`, if it is in the try,   *)
(* and ends the script.                                                    *)
Raise(v) ==
    /\ pc[v] \in {"format", "build", "scan", "start", "tests", "solve"}
    /\ faults < Faults /\ faults' = faults + 1
    /\ box' = [box EXCEPT ![v] = {}]
    /\ Goto(v, "died") /\ Forget(v)
    /\ UNCHANGED <<skipDocker, image, summary>>

-----------------------------------------------------------------------------
(* main *)

NextTask(v) ==
    /\ pc[v] = "next"
    /\ reports' = [reports EXCEPT ![v] = Append(@, report[v])]
    /\ IF at[v] < Len(Names[v])
       THEN /\ at' = [at EXCEPT ![v] = @ + 1]
            /\ report' = [report EXCEPT ![v] = NewReport(Names[v][at[v] + 1])]
            /\ Goto(v, "format")
       ELSE /\ Goto(v, "write")
            /\ report' = [report EXCEPT ![v] = NewReport(Names[v][1])]
            /\ UNCHANGED at
    /\ phase' = [phase EXCEPT ![v] = "pre"]
    /\ UNCHANGED <<skipDocker, image, box, res, summary, faults>>

OpenSummary(v) ==
    /\ pc[v] = "write"
    /\ summary' = [NoSummary EXCEPT !.state = "truncated"]
    /\ Goto(v, "close")
    /\ UNCHANGED <<skipDocker, image, at, phase, box, results, faults>>

(* Over a summary another run wrote since the file was opened, the text is *)
(* this run's with, if that was longer, the end of the other's.            *)
CloseSummary(v) ==
    /\ pc[v] = "close"
    /\ summary' \in {[state |-> state, by |-> v, reports |-> reports[v]] :
            state \in IF summary.state = "truncated" THEN {"written"} ELSE {"written", "garbled"}}
    /\ Goto(v, "done")
    /\ UNCHANGED <<skipDocker, image, at, phase, box, results, faults>>

ExitStatus(v) == IF pc[v] = "done" /\ AllPassed(reports[v]) THEN 0 ELSE 1

Kill(v) ==
    /\ Running(v)
    /\ Goto(v, "killed") /\ Forget(v)
    /\ box' = [box EXCEPT ![v] = {}]
    /\ UNCHANGED <<skipDocker, image, summary, faults>>

(* What report_acceptance.py concludes when it is run now; json.loads      *)
(* raises on any other text.                                               *)
Accepted ==
    {Conclusion(summary.reports) : state \in {summary.state} \cap {"written"}}

Step(v) ==
    \/ Format(v) \/ Build(v) \/ BuildFails(v) \/ Scan(v)
    \/ StartBox(v) \/ ExecTests(v) \/ ReadReward(v) \/ RunSolve(v) \/ Raise(v)
    \/ NextTask(v) \/ OpenSummary(v) \/ CloseSummary(v)

Next ==
    \E v \in Validators : Launch(v) \/ Step(v) \/ LateEffect(v) \/ Kill(v)

(* No fairness: the docker calls without a time limit (mkdir, cat and rm   *)
(* among them) may never return, and a validation need not end.            *)
Spec == Init /\ [][Next]_vars

=============================================================================
