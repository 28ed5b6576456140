---------------------------- MODULE HarnessProofs ----------------------------
(***************************************************************************)
(* Theorems about validate_task.py, for any number of runs on one Docker   *)
(* daemon, any tasks and checkouts.  What a PASS is worth is carried by    *)
(* one invariant: as long as no check has failed, the report holds what    *)
(* the stages passed so far have shown.                                    *)
(***************************************************************************)
EXTENDS HarnessProperties, FiniteSetTheorems, SequenceTheorems, TLAPS

-----------------------------------------------------------------------------
(* The inductive invariants. *)

(* The records as their fields. *)
IsReport(rep) ==
    rep = [task |-> rep.task, failed |-> rep.failed, pre |-> rep.pre, post |-> rep.post,
           loc |-> rep.loc, ours |-> rep.ours, changed |-> rep.changed, unseen |-> rep.unseen]

IsBox(b) ==
    b = [built |-> b.built, app |-> b.app, reward |-> b.reward, late |-> b.late]

IsRun(run) ==
    /\ run = [exit |-> run.exit, counts |-> run.counts, wrote |-> run.wrote, app |-> run.app,
              built |-> run.built, reward |-> run.reward]
    /\ run.counts \in [passed : Nat, failed : Nat, errors : Nat, collected : Nat]

InBox == {"tests", "solve", "read"}

Stages == Ended \cup InBox \cup {"format", "build", "scan", "start", "next", "write", "close"}

Functions ==
    /\ image \in [Tasks -> Validators \cup {None}]
    /\ skipDocker \in [Validators -> BOOLEAN]
    /\ pc \in [Validators -> Stages]
    /\ phase \in [Validators -> {"pre", "post"}]
    /\ at \in [Validators -> Nat]
    /\ box = [v \in Validators |-> box[v]]
    /\ res = [v \in Validators |-> res[v]]
    /\ report = [v \in Validators |-> report[v]]
    /\ reports = [v \in Validators |-> reports[v]]
    /\ faults \in 0 .. Faults
    /\ summary.state \in {"absent", "truncated", "written", "garbled"}

(* A container is held inside the two try blocks. *)
Held(v) ==
    /\ \A b \in box[v] : IsBox(b)
    /\ IF pc[v] \in InBox THEN \E b : box[v] = {b} ELSE box[v] = {}
    /\ IsRun(res[v])
    /\ IsReport(report[v])

(* The reports so far are of the first names, the one in hand of the next. *)
Listed(v) ==
    /\ at[v] \in 1 .. Len(Names[v])
    /\ \E S : reports[v] \in Seq(S)
    /\ \A k \in DOMAIN reports[v] : reports[v][k].task = Names[v][k]
    /\ pc[v] \in InBox \cup {"idle", "format", "build", "scan", "start", "next"} =>
           Len(reports[v]) = at[v] - 1 /\ report[v].task = Task(v)
    /\ pc[v] \in {"write", "close", "done"} =>
           Len(reports[v]) = Len(Names[v]) /\ at[v] = Len(Names[v])
    /\ pc[v] \in {"idle", "died", "killed"} => reports[v] = <<>>

(* A run that skips docker counts no line. *)
Skipped(v) ==
    skipDocker[v] \/ pc[v] = "idle" =>
        /\ pc[v] \in Ended \cup {"format", "next", "write", "close"}
        /\ report[v].loc = <<>>
        /\ \A k \in DOMAIN reports[v] : reports[v][k].loc = <<>>

(* What the checks on a test run before and after solve.sh let through. *)
FailsBefore(v, rep, pre) ==
    /\ pre.app = "original" /\ pre.exit \notin {0, TimedOut} /\ pre.reward = "0"
    /\ pre.counts.failed + pre.counts.errors > 0
    /\ pre.counts \in [passed : Nat, failed : Nat, errors : Nat, collected : Nat]
    /\ rep.ours => pre.built = v

PassesAfter(v, rep, post) ==
    /\ post.app = "solved" /\ post.exit = 0 /\ post.reward = "1"
    /\ post.wrote = "1" \/ {<<"post", "cat">>, <<"post", "rm">>} \subseteq rep.unseen
    /\ post.counts.failed + post.counts.errors = 0 /\ post.counts.passed > 0
    /\ post.counts \in [passed : Nat, failed : Nat, errors : Nat, collected : Nat]
    /\ rep.ours => post.built = v

FullOracle(v, rep) ==
    /\ \E pre \in rep.pre : FailsBefore(v, rep, pre)
    /\ \E post \in rep.post : PassesAfter(v, rep, post)
    /\ ImageIsClean(v, rep) /\ SolutionCounts(rep)

(* The image is this checkout's until another is built under its tag. *)
Ours(v) ==
    report[v].ours =>
        /\ report[v].task = Task(v)
        /\ image[Task(v)] = v
        /\ \A b \in box[v] : b.built = v
        /\ pc[v] = "read" => res[v].built = v
        /\ pc[v] \notin {"idle", "format", "build"}

(* Past the scans it is clean, or one of them failed unseen. *)
Scanned(v) ==
    report[v].failed = {} /\ pc[v] \in InBox \cup {"start", "next"} =>
        ImageIsClean(v, report[v])

(* Before solve.sh the container has the image's app, whatever is late. *)
Before(v) ==
    phase[v] = "pre" /\ pc[v] \in InBox =>
        /\ pc[v] # "solve"
        /\ \A b \in box[v] : b.app = "original" /\ \A e \in b.late : e.app = "original"
        /\ pc[v] = "read" => /\ res[v].app = "original"
                             /\ res[v].exit = TimedOut => res[v].counts = NoCounts

(* After it, when nothing has failed, the app is solved, nothing is late,  *)
(* and a reward not of the tests was left unread and unremoved by docker   *)
(* calls that failed.                                                      *)
After(v) ==
    phase[v] = "post" /\ report[v].failed = {} =>
        /\ pc[v] \in InBox \cup {"start", "next"}
        /\ \E pre \in report[v].pre : FailsBefore(v, report[v], pre)
        /\ pc[v] = "tests" => \A b \in box[v] :
               /\ b.app = "solved" /\ b.late = {}
               /\ b.reward # None => <<"post", "cat">> \in report[v].unseen
        /\ pc[v] = "solve" => \A b \in box[v] : b.late = {}
        /\ pc[v] = "read" /\ res[v].exit = 0 => \A b \in box[v] :
               /\ res[v].app = "solved" /\ b.late = {}
               /\ \/ b.reward = res[v].wrote
                  \/ {<<"post", "cat">>, <<"post", "rm">>} \subseteq report[v].unseen
        /\ pc[v] \in {"tests", "read", "next"} => SolutionCounts(report[v])

(* A report in hand that comes out with docker has passed both. *)
Passed(v) ==
    ~skipDocker[v] =>
        /\ pc[v] = "next" /\ Ok(report[v]) => FullOracle(v, report[v])
        /\ \A k \in DOMAIN reports[v] : Ok(reports[v][k]) => FullOracle(v, reports[v][k])

(* A summary is of a run that came to its end. *)
SummaryIsOfOne ==
    summary.state = "written" =>
        \E v \in Validators : pc[v] = "done" /\ summary.reports = reports[v]

Kept(v) == Held(v) /\ Listed(v) /\ Skipped(v)

Shown(v) == Ours(v) /\ Scanned(v) /\ Before(v) /\ After(v) /\ Passed(v)

Sound == Functions /\ \A v \in Validators : Kept(v)

Evidence == \A v \in Validators : Shown(v)

-----------------------------------------------------------------------------
(* Records and checks. *)

LEMMA ReportFields ==
    ASSUME NEW t
    PROVE  /\ IsReport(NewReport(t)) /\ NewReport(t).task = t /\ NewReport(t).failed = {}
           /\ NewReport(t).loc = <<>> /\ ~NewReport(t).ours /\ NewReport(t).unseen = {}
PROOF
  BY DEF IsReport, NewReport

LEMMA RunFields ==
    IsRun(NoRun) /\ NoCounts \in [passed : Nat, failed : Nat, errors : Nat, collected : Nat]
PROOF
  BY DEF IsRun, NoRun, NoCounts, Summary

(* What a run after which no check failed looks like. *)
LEMMA PreChecks ==
    ASSUME NEW run, PreFailures(run) = {}
    PROVE  run.exit # 0 /\ run.reward = "0" /\ run.counts.failed + run.counts.errors # 0
PROOF
  BY DEF PreFailures

LEMMA PostChecks ==
    ASSUME NEW run, PostFailures(run) = {}
    PROVE  /\ run.exit = 0 /\ run.reward = "1" /\ run.counts.passed # 0
           /\ ~(run.counts.failed + run.counts.errors > 0)
PROOF
  BY DEF PostFailures

LEMMA SolveChecks ==
    ASSUME NEW run, NEW found, SolveFailures(run, found) = {}
    PROVE  run.exit = 0 /\ found = None /\ ~(run.files < 3) /\ ~(run.loc <= 100)
PROOF
  BY DEF SolveFailures

(* The calls that failed around one command are counted. *)
LEMMA LostAreCounted ==
    ASSUME NEW x, NEW y, NEW z, NEW lost \in SUBSET {x, y, z}
    PROVE  Cardinality(lost) \in Nat
PROOF
<1>1. IsFiniteSet({x, y, z})
  <2>1. IsFiniteSet({x})
    BY FS_Singleton
  <2>2. IsFiniteSet({x} \cup {y})
    BY <2>1, FS_AddElement
  <2>3. IsFiniteSet(({x} \cup {y}) \cup {z})
    BY <2>2, FS_AddElement
  <2>4. {x, y, z} = ({x} \cup {y}) \cup {z}
    OBVIOUS
  <2> QED
    BY <2>3, <2>4
<1> QED
  BY <1>1, FS_Subset, FS_CardinalityType

-----------------------------------------------------------------------------
(* What one validator does to another: a Build takes the tag away. *)

Undisturbed(v) ==
    /\ \A w \in Validators : w # v =>
        /\ skipDocker'[w] = skipDocker[w] /\ pc'[w] = pc[w] /\ phase'[w] = phase[w]
        /\ at'[w] = at[w] /\ box'[w] = box[w] /\ res'[w] = res[w] /\ reports'[w] = reports[w]
        /\ IsReport(report'[w])
        /\ report'[w].task = report[w].task /\ report'[w].failed = report[w].failed
        /\ report'[w].pre = report[w].pre /\ report'[w].post = report[w].post
        /\ report'[w].loc = report[w].loc
        /\ report'[w].changed = report[w].changed /\ report'[w].unseen = report[w].unseen
        /\ report'[w].ours => /\ report[w].ours
                              /\ image'[report[w].task] = image[report[w].task]

LEMMA OthersKept ==
    ASSUME NEW v \in Validators, Undisturbed(v), NEW w \in Validators, w # v
    PROVE  (Kept(w) => Kept(w)') /\ (Shown(w) => Shown(w)')
PROOF
<1> DEFINE rep == report[w]
           new == report'[w]
<1>0. /\ skipDocker'[w] = skipDocker[w] /\ pc'[w] = pc[w] /\ phase'[w] = phase[w]
      /\ at'[w] = at[w] /\ box'[w] = box[w] /\ res'[w] = res[w] /\ reports'[w] = reports[w]
      /\ IsReport(new) /\ new.task = rep.task /\ new.failed = rep.failed
      /\ new.pre = rep.pre /\ new.post = rep.post /\ new.loc = rep.loc
      /\ new.changed = rep.changed /\ new.unseen = rep.unseen
      /\ new.ours => rep.ours /\ image'[rep.task] = image[rep.task]
  BY DEF Undisturbed
<1> HIDE DEF rep, new
<1>1. Held(w) => Held(w)'
  BY <1>0 DEF Held, new
<1>2. Listed(w) => Listed(w)'
  BY <1>0 DEF Listed, Task, rep, new
<1>3. Skipped(w) => Skipped(w)'
  BY <1>0 DEF Skipped, rep, new
<1>4. Ours(w) => Ours(w)'
  BY <1>0 DEF Ours, Task, rep, new
<1>5. Before(w) => Before(w)'
  BY <1>0 DEF Before
<1>6. After(w) => After(w)'
  BY <1>0 DEF After, FailsBefore, SolutionCounts, rep, new
<1>7. Passed(w) => Passed(w)'
  <2>1. FullOracle(w, rep) => FullOracle(w, new)
    BY <1>0 DEF FullOracle, FailsBefore, PassesAfter, ImageIsClean, SolutionCounts
  <2> QED
    BY <1>0, <2>1 DEF Passed, Ok, FullOracle, FailsBefore, PassesAfter, ImageIsClean,
       SolutionCounts, rep, new
<1>8. Scanned(w) => Scanned(w)'
  BY <1>0 DEF Scanned, ImageIsClean, rep, new
<1> QED
  BY <1>1, <1>2, <1>3, <1>4, <1>5, <1>6, <1>7, <1>8 DEF Kept, Shown

-----------------------------------------------------------------------------
(* Types, containers and the list of reports. *)

LEMMA FirstName ==
    ASSUME NEW v \in Validators
    PROVE  Names[v] \in Seq(Tasks) /\ Len(Names[v]) \in Nat /\ 1 \in 1 .. Len(Names[v])
PROOF
  BY HarnessAssumption

LEMMA TaskIsTask ==
    ASSUME NEW v \in Validators, Listed(v)
    PROVE  Task(v) \in Tasks
PROOF
  BY FirstName DEF Listed, Task

LEMMA SoundInit ==
    Init => Sound
PROOF
<1> SUFFICES ASSUME Init
             PROVE  Sound
  OBVIOUS
<1>1. Functions
  BY HarnessAssumption DEF Init, Functions, Stages, Ended, NoSummary
<1>2. ASSUME NEW v \in Validators
      PROVE  Kept(v)
  <2>1. Held(v)
    BY ReportFields, RunFields DEF Init, Held, InBox
  <2>2. Listed(v)
    <3>1. <<>> \in Seq({})
      OBVIOUS
    <3> QED
      BY <3>1, FirstName, ReportFields DEF Init, Listed, Task, InBox
  <2>3. Skipped(v)
    BY ReportFields DEF Init, Skipped, Ended
  <2> QED
    BY <2>1, <2>2, <2>3 DEF Kept
<1> QED
  BY <1>1, <1>2 DEF Sound

(* What a step of v has to say of v itself. *)
Own(v) == Functions' /\ Undisturbed(v) /\ Held(v)' /\ Listed(v)' /\ Skipped(v)'

LEMMA SameList ==
    ASSUME NEW v \in Validators, Kept(v),
           reports'[v] = reports[v], at'[v] = at[v], report'[v].task = report[v].task,
           pc[v] \in InBox \cup {"idle", "format", "build", "scan", "start", "next"},
           pc'[v] \in InBox \cup {"format", "build", "scan", "start", "next"}
    PROVE  Listed(v)'
PROOF
  BY DEF Kept, Listed, Task, InBox

LEMMA FailsFields ==
    ASSUME Sound, NEW v \in Validators, NEW names, Fails(v, names)
    PROVE  /\ report' = [w \in Validators |-> report'[w]]
           /\ IsReport(report'[v]) /\ report'[v].failed = report[v].failed \cup names
           /\ report'[v].task = report[v].task /\ report'[v].loc = report[v].loc
           /\ report'[v].pre = report[v].pre /\ report'[v].post = report[v].post
           /\ report'[v].ours = report[v].ours /\ report'[v].unseen = report[v].unseen
           /\ \A w \in Validators : w # v => report'[w] = report[w]
PROOF
<1>1. report = [w \in Validators |-> report[w]] /\ IsReport(report[v])
  BY DEF Sound, Functions, Kept, Held
<1>2. report' = [report EXCEPT ![v].failed = @ \cup names]
  BY DEF Fails
<1> QED
  BY <1>1, <1>2 DEF IsReport

LEMMA GotoStage ==
    ASSUME Functions, NEW v \in Validators, NEW p \in Stages, Goto(v, p)
    PROVE  /\ pc' \in [Validators -> Stages] /\ pc'[v] = p
           /\ \A w \in Validators : w # v => pc'[w] = pc[w]
PROOF
  BY DEF Functions, Goto

(* The reports of the others are reports, and theirs if the tag is. *)
LEMMA OthersReports ==
    ASSUME Sound, NEW v \in Validators,
           \A w \in Validators : w # v => report'[w] = report[w], image' = image
    PROVE  \A w \in Validators : w # v =>
               /\ IsReport(report'[w])
               /\ report'[w].ours => image'[report[w].task] = image[report[w].task]
PROOF
  BY DEF Sound, Kept, Held

LEMMA LaunchOwn ==
    ASSUME Sound, NEW v \in Validators, Launch(v)
    PROVE  Own(v)
PROOF
<1> USE DEF Sound, Functions, results
<1>0. "format" \in Stages /\ Kept(v)
  BY DEF Stages
<1>1. Functions'
  BY <1>0, GotoStage DEF Launch
<1>2. Undisturbed(v)
  BY <1>0, GotoStage, OthersReports DEF Launch, Undisturbed
<1>3. Held(v)'
  BY <1>0, GotoStage DEF Launch, Kept, Held, InBox
<1>4. Listed(v)'
  BY <1>0, GotoStage, SameList DEF Launch
<1>5. Skipped(v)'
  BY <1>0, GotoStage DEF Launch, Kept, Skipped, Ended
<1> QED
  BY <1>1, <1>2, <1>3, <1>4, <1>5 DEF Own

LEMMA FormatOwn ==
    ASSUME Sound, NEW v \in Validators, Format(v)
    PROVE  Own(v)
PROOF
<1> USE DEF Sound, Functions
<1> DEFINE bad == FormatFailures(Dir(v)) \cup {"docker-skipped-due-to-format-failures"}
<1>0. /\ {"next", "build"} \subseteq Stages /\ Kept(v)
      /\ pc[v] = "format"
      /\ UNCHANGED <<skipDocker, image, at, phase, box, res, reports, summary, faults>>
  BY DEF Stages, Format
<1>1. \/ /\ Goto(v, IF skipDocker[v] THEN "next" ELSE "build") /\ report' = report
      \/ Goto(v, "next") /\ Fails(v, bad)
  BY DEF Format
<1> HIDE DEF bad
<1>2. /\ pc' \in [Validators -> Stages] /\ pc'[v] \in {"next", "build"}
      /\ skipDocker[v] => pc'[v] = "next"
      /\ \A w \in Validators : w # v => pc'[w] = pc[w]
  BY <1>0, <1>1, GotoStage
<1>3. /\ report' = [w \in Validators |-> report'[w]] /\ IsReport(report'[v])
      /\ report'[v].task = report[v].task /\ report'[v].loc = report[v].loc
      /\ \A w \in Validators : w # v => report'[w] = report[w]
  <2>1. CASE report' = report
    BY <1>0, <2>1 DEF Kept, Held
  <2> QED
    BY <1>1, <2>1, FailsFields
<1>4. Functions'
  BY <1>0, <1>2, <1>3
<1>5. Undisturbed(v)
  BY <1>0, <1>2, <1>3, OthersReports DEF Undisturbed
<1>6. Held(v)'
  BY <1>0, <1>2, <1>3 DEF Kept, Held, InBox
<1>7. Listed(v)'
  BY <1>0, <1>2, <1>3, SameList
<1>8. Skipped(v)'
  BY <1>0, <1>2, <1>3 DEF Kept, Skipped
<1> QED
  BY <1>4, <1>5, <1>6, <1>7, <1>8 DEF Own

LEMMA BuildOwn ==
    ASSUME Sound, NEW v \in Validators, Build(v)
    PROVE  Own(v)
PROOF
<1> USE DEF Sound, Functions
<1>0. /\ "scan" \in Stages /\ Kept(v) /\ pc[v] = "build" /\ Goto(v, "scan")
      /\ UNCHANGED <<skipDocker, at, phase, box, res, reports, summary, faults>>
  BY DEF Stages, Build
<1>1. Task(v) \in Tasks
  BY <1>0, TaskIsTask DEF Kept
<1>2. /\ pc' \in [Validators -> Stages] /\ pc'[v] = "scan"
      /\ \A w \in Validators : w # v => pc'[w] = pc[w]
  BY <1>0, GotoStage
<1>3. report' = [w \in Validators |->
            IF w = v THEN [report[v] EXCEPT !.ours = TRUE, !.failed = @ \cup EnvBuildFailures(Dir(v))]
            ELSE [report[w] EXCEPT !.ours = @ /\ report[w].task # Task(v)]]
  BY DEF Build
<1>4. /\ IsReport(report'[v]) /\ report'[v].task = report[v].task
      /\ report'[v].loc = report[v].loc
  <2>1. report'[v] = [report[v] EXCEPT !.ours = TRUE, !.failed = @ \cup EnvBuildFailures(Dir(v))]
    BY <1>3
  <2>2. IsReport(report[v])
    BY <1>0 DEF Kept, Held
  <2> QED
    BY <2>1, <2>2 DEF IsReport
<1>5. image' \in [Tasks -> Validators \cup {None}]
      /\ \A t \in Tasks : t # Task(v) => image'[t] = image[t]
  BY <1>1 DEF Build
<1>6. ASSUME NEW w \in Validators, w # v
      PROVE  /\ IsReport(report'[w])
             /\ report'[w].task = report[w].task /\ report'[w].failed = report[w].failed
             /\ report'[w].pre = report[w].pre /\ report'[w].post = report[w].post
             /\ report'[w].loc = report[w].loc
             /\ report'[w].changed = report[w].changed /\ report'[w].unseen = report[w].unseen
             /\ report'[w].ours => report[w].ours /\ report[w].task # Task(v)
  <2>1. report'[w] = [report[w] EXCEPT !.ours = @ /\ report[w].task # Task(v)]
    BY <1>3, <1>6
  <2>2. IsReport(report[w])
    BY DEF Kept, Held
  <2> QED
    BY <2>1, <2>2 DEF IsReport
<1>7. Functions'
  <2>1. report' = [w \in Validators |-> report'[w]]
    BY <1>3
  <2> QED
    BY <1>0, <1>2, <1>5, <2>1
<1>8. Undisturbed(v)
  <2>1. ASSUME NEW w \in Validators, w # v, report'[w].ours
        PROVE  image'[report[w].task] = image[report[w].task]
    <3>1. report[w].task # Task(v)
      BY <1>6, <2>1
    <3> QED
      BY <1>5, <3>1 DEF Build
  <2> QED
    BY <1>0, <1>2, <1>6, <2>1 DEF Undisturbed
<1>9. Held(v)'
  BY <1>0, <1>2, <1>4 DEF Kept, Held, InBox
<1>10. Listed(v)'
  BY <1>0, <1>2, <1>4, SameList
<1>11. Skipped(v)'
  BY <1>0, <1>2 DEF Kept, Skipped, Ended
<1> QED
  BY <1>7, <1>8, <1>9, <1>10, <1>11 DEF Own

(* BuildFails and Scan add to what has failed. *)
(* The scans: what they report, what fails unseen. *)
LEMMA ScanFacts ==
    ASSUME Sound, NEW v \in Validators, Scan(v)
    PROVE  \E lost \in SUBSET {"leak_scan", "stray_files_scan"} :
               /\ faults' \in 0 .. Faults
               /\ report' = [w \in Validators |-> report'[w]]
               /\ IsReport(report'[v])
               /\ report'[v].failed = report[v].failed \cup ScanFailures(Source(v), lost)
               /\ report'[v].unseen = report[v].unseen \cup ({"image"} \X lost)
               /\ report'[v].task = report[v].task /\ report'[v].loc = report[v].loc
               /\ report'[v].ours = report[v].ours
               /\ \A w \in Validators : w # v => report'[w] = report[w]
PROOF
<1>1. PICK lost \in SUBSET {"leak_scan", "stray_files_scan"} :
        /\ faults' = faults + Cardinality(lost) /\ faults' <= Faults
        /\ report' = [report EXCEPT ![v].failed = @ \cup ScanFailures(Source(v), lost),
                                    ![v].unseen = @ \cup ({"image"} \X lost)]
  BY DEF Scan
<1>2. Cardinality(lost) \in Nat
  <2>1. lost \in SUBSET {"leak_scan", "stray_files_scan", "stray_files_scan"}
    OBVIOUS
  <2> QED
    BY <2>1, LostAreCounted
<1>3. faults' \in 0 .. Faults
  BY <1>1, <1>2, HarnessAssumption DEF Sound, Functions
<1>4. report = [w \in Validators |-> report[w]] /\ IsReport(report[v])
  BY DEF Sound, Functions, Kept, Held
<1>5. report'[v] = [report[v] EXCEPT !.failed = @ \cup ScanFailures(Source(v), lost),
                                     !.unseen = @ \cup ({"image"} \X lost)]
  BY <1>1, <1>4
<1>6. /\ report' = [w \in Validators |-> report'[w]]
      /\ \A w \in Validators : w # v => report'[w] = report[w]
  BY <1>1, <1>4
<1>7. /\ IsReport(report'[v])
      /\ report'[v].failed = report[v].failed \cup ScanFailures(Source(v), lost)
      /\ report'[v].unseen = report[v].unseen \cup ({"image"} \X lost)
      /\ report'[v].task = report[v].task /\ report'[v].loc = report[v].loc
      /\ report'[v].ours = report[v].ours
  BY <1>4, <1>5 DEF IsReport
<1> QED
  BY <1>3, <1>6, <1>7

LEMMA CheckOwn ==
    ASSUME Sound, NEW v \in Validators, BuildFails(v) \/ Scan(v)
    PROVE  Own(v)
PROOF
<1> USE DEF Sound, Functions
<1>0. /\ {"next", "start"} \subseteq Stages /\ Kept(v) /\ pc[v] \in {"build", "scan"}
      /\ UNCHANGED <<skipDocker, image, at, phase, box, res, reports, summary>>
  BY DEF Stages, BuildFails, Scan
<1>1. PICK p : /\ p \in {"next", "start"} /\ Goto(v, p) /\ faults' \in 0 .. Faults
               /\ report' = [w \in Validators |-> report'[w]] /\ IsReport(report'[v])
               /\ report'[v].task = report[v].task
               /\ \A w \in Validators : w # v => report'[w] = report[w]
  <2>1. CASE BuildFails(v)
    <3>1. /\ Fails(v, {"docker-build(task-root-context)"}) /\ Goto(v, "next")
          /\ faults' \in 0 .. Faults
      BY <2>1, HarnessAssumption DEF BuildFails
    <3> QED
      BY <3>1, FailsFields
  <2>2. CASE Scan(v)
    <3>1. Goto(v, "start")
      BY <2>2 DEF Scan
    <3> QED
      BY <2>2, <3>1, ScanFacts
  <2> QED
    BY <2>1, <2>2
<1>2. /\ pc' \in [Validators -> Stages] /\ pc'[v] \in {"next", "start"}
      /\ \A w \in Validators : w # v => pc'[w] = pc[w]
  BY <1>0, <1>1, GotoStage
<1>3. /\ report' = [w \in Validators |-> report'[w]] /\ IsReport(report'[v])
      /\ report'[v].task = report[v].task /\ faults' \in 0 .. Faults
      /\ \A w \in Validators : w # v => report'[w] = report[w]
  BY <1>1
<1>4. Functions'
  BY <1>0, <1>2, <1>3
<1>5. Undisturbed(v)
  BY <1>0, <1>2, <1>3, OthersReports DEF Undisturbed
<1>6. Held(v)'
  BY <1>0, <1>2, <1>3 DEF Kept, Held, InBox
<1>7. Listed(v)'
  BY <1>0, <1>2, <1>3, SameList
<1>8. Skipped(v)'
  BY <1>0, <1>2 DEF Kept, Skipped, Ended
<1> QED
  BY <1>4, <1>5, <1>6, <1>7, <1>8 DEF Own

LEMMA StartBoxOwn ==
    ASSUME Sound, NEW v \in Validators, StartBox(v)
    PROVE  Own(v)
PROOF
<1> USE DEF Sound, Functions, results
<1>0. /\ {"tests", "solve"} \subseteq Stages /\ Kept(v) /\ pc[v] = "start"
      /\ Goto(v, IF phase[v] = "pre" THEN "tests" ELSE "solve")
      /\ UNCHANGED <<skipDocker, image, at, phase, results, summary, faults>>
  BY DEF Stages, StartBox, InBox
<1>1. /\ pc' \in [Validators -> Stages] /\ pc'[v] \in {"tests", "solve"}
      /\ \A w \in Validators : w # v => pc'[w] = pc[w]
  BY <1>0, GotoStage
<1>2. /\ box' = [w \in Validators |-> box'[w]]
      /\ \A w \in Validators : w # v => box'[w] = box[w]
      /\ box'[v] = {[built |-> image[Task(v)], app |-> "original",
                     reward |-> Source(v).baked, late |-> {}]}
  BY DEF StartBox
<1>3. Functions'
  BY <1>0, <1>1, <1>2
<1>4. Undisturbed(v)
  BY <1>0, <1>1, <1>2, OthersReports DEF Undisturbed
<1>5. Held(v)'
  <2> DEFINE b == [built |-> image[Task(v)], app |-> "original",
                   reward |-> Source(v).baked, late |-> {}]
  <2>1. IsBox(b)
    BY DEF IsBox
  <2>2. box'[v] = {b}
    BY <1>2
  <2> HIDE DEF b
  <2> QED
    BY <1>0, <1>1, <2>1, <2>2 DEF Kept, Held, InBox
<1>6. Listed(v)'
  BY <1>0, <1>1, SameList DEF InBox
<1>7. Skipped(v)'
  BY <1>0, <1>1 DEF Kept, Skipped, Ended
<1> QED
  BY <1>3, <1>4, <1>5, <1>6, <1>7 DEF Own

LEMMA OneBox ==
    ASSUME Sound, NEW v \in Validators, pc[v] \in InBox
    PROVE  \E b : box[v] = {b} /\ IsBox(b)
PROOF
  BY DEF Sound, Kept, Held

LEMMA SolveFields ==
    ASSUME NEW b, IsBox(b), NEW run, NEW new, new = AfterSolve(b, run)
    PROVE  /\ IsBox(new) /\ new.built = b.built /\ new.app = run.app
           /\ run.exit # TimedOut => new.late = {}
PROOF
  BY DEF IsBox, AfterSolve

LEMMA LateFields ==
    ASSUME NEW b, IsBox(b), NEW effect, NEW new, new = AfterLate(b, effect)
    PROVE  IsBox(new) /\ new.built = b.built /\ new.app = effect.app /\ new.late = {}
PROOF
  BY DEF IsBox, AfterLate

LEMMA ResultFields ==
    ASSUME NEW b, NEW run, NEW timely \in BOOLEAN,
           run.counts \in [passed : Nat, failed : Nat, errors : Nat, collected : Nat],
           NEW r, r = TestResult(b, run, timely)
    PROVE  /\ IsRun(r)
           /\ r.exit = IF timely THEN run.exit ELSE TimedOut
           /\ r.counts = IF timely THEN run.counts ELSE NoCounts
           /\ r.wrote = Wrote(run, timely) /\ r.app = b.app /\ r.built = b.built
PROOF
<1> DEFINE exit == IF timely THEN run.exit ELSE TimedOut
           counts == IF timely THEN run.counts ELSE NoCounts
<1>1. counts \in [passed : Nat, failed : Nat, errors : Nat, collected : Nat]
  BY RunFields
<1>2. r = [exit |-> exit, counts |-> counts, wrote |-> Wrote(run, timely), app |-> b.app,
           built |-> b.built, reward |-> None]
  BY DEF TestResult
<1> HIDE DEF exit, counts
<1>3. IsRun(r) /\ r.exit = exit /\ r.counts = counts
      /\ r.wrote = Wrote(run, timely) /\ r.app = b.app /\ r.built = b.built
  BY <1>1, <1>2 DEF IsRun
<1> QED
  BY <1>3 DEF exit, counts

LEMMA CheckedFields ==
    ASSUME NEW rep, IsReport(rep), NEW when, NEW run, NEW new, new = Checked(rep, when, run)
    PROVE  /\ IsReport(new) /\ new.task = rep.task /\ new.loc = rep.loc /\ new.ours = rep.ours
           /\ new.unseen = rep.unseen /\ new.changed = rep.changed
           /\ when = "pre" => /\ new.pre = {run}
                              /\ new.failed = rep.failed \cup PreFailures(run)
           /\ when # "pre" => /\ new.pre = rep.pre /\ new.post = {run}
                              /\ new.failed = rep.failed \cup PostFailures(run)
PROOF
<1>1. CASE when = "pre"
  BY <1>1 DEF IsReport, Checked
<1>2. CASE when # "pre"
  BY <1>2 DEF IsReport, Checked
<1> QED
  BY <1>1, <1>2

LEMMA SolvedFields ==
    ASSUME NEW rep, IsReport(rep), NEW run, NEW counted, NEW found, NEW lost,
           NEW new, new = Solved(rep, run, counted, found, lost)
    PROVE  /\ IsReport(new) /\ new.task = rep.task /\ new.ours = rep.ours
           /\ new.pre = rep.pre /\ new.post = rep.post
           /\ new.failed = rep.failed \cup SolveFailures(counted, found)
           /\ new.changed = [files |-> run.files, loc |-> run.loc]
           /\ new.unseen = rep.unseen \cup ({"post"} \X lost)
PROOF
<1> DEFINE loc == IF "diff" \in lost THEN <<>> ELSE <<counted.loc>>
<1>1. new = [rep EXCEPT !.loc = loc, !.failed = @ \cup SolveFailures(counted, found),
                        !.changed = [files |-> run.files, loc |-> run.loc],
                        !.unseen = @ \cup ({"post"} \X lost)]
  BY DEF Solved
<1> HIDE DEF loc
<1> QED
  BY <1>1 DEF IsReport

LEMMA SolvedKeeps ==
    ASSUME NEW rep, IsReport(rep), NEW run, NEW counted, NEW found, NEW lost
    PROVE  /\ IsReport(Solved(rep, run, counted, found, lost))
           /\ Solved(rep, run, counted, found, lost).task = rep.task
PROOF
<1> DEFINE new == Solved(rep, run, counted, found, lost)
           loc == IF "diff" \in lost THEN <<>> ELSE <<counted.loc>>
<1>1. new = [rep EXCEPT !.loc = loc, !.failed = @ \cup SolveFailures(counted, found),
                        !.changed = [files |-> run.files, loc |-> run.loc],
                        !.unseen = @ \cup ({"post"} \X lost)]
  BY DEF Solved
<1> HIDE DEF loc, new
<1>2. IsReport(new) /\ new.task = rep.task
  BY <1>1 DEF IsReport
<1> QED
  BY <1>2, Zenon DEF new

(* What the checks count is what changed, or the snapshot was not taken,   *)
(* or nothing could be counted.                                            *)
LEMMA CountedFields ==
    ASSUME NEW run, NEW whole, NEW lost, NEW counted, counted = Counted(run, whole, lost)
    PROVE  /\ counted.exit = run.exit
           /\ "diff" \in lost => counted.files = 0
           /\ lost \cap {"diff", "snapshot"} = {} =>
                  counted.files = run.files /\ counted.loc = run.loc
PROOF
  BY DEF Counted

LEMMA RunsAreRuns ==
    ASSUME Sound, NEW v \in Validators
    PROVE  /\ \A run \in Dir(v).testRuns :
               /\ run.exit # TimedOut
               /\ run.counts \in [passed : Nat, failed : Nat, errors : Nat, collected : Nat]
           /\ \A run \in Dir(v).solveRuns :
               (run.exit = 0 => run.app = "solved") /\ run.files \in Nat /\ run.loc \in Nat
PROOF
  BY TaskIsTask, RunsAssumption DEF Sound, Kept, Dir

(* A test run: its result, the reward it leaves, and what comes late. *)
Execution(v, b, new, run, timely, cleared) ==
    /\ timely \in BOOLEAN /\ cleared \in BOOLEAN
    /\ box[v] = {b} /\ box'[v] = {new}
    /\ IsBox(new) /\ new.built = b.built /\ new.app = b.app
    /\ cleared => new.reward = Wrote(run, timely)
    /\ timely => new.late = b.late
    /\ ~timely => \A e \in new.late : e.app = b.app
    /\ IsReport(report'[v])
    /\ report'[v].task = report[v].task /\ report'[v].failed = report[v].failed
    /\ report'[v].pre = report[v].pre /\ report'[v].post = report[v].post
    /\ report'[v].loc = report[v].loc /\ report'[v].ours = report[v].ours
    /\ report'[v].changed = report[v].changed /\ report[v].unseen \subseteq report'[v].unseen
    /\ ~cleared => <<phase[v], "rm">> \in report'[v].unseen
    /\ run \in Dir(v).testRuns /\ run.exit # TimedOut
    /\ run.counts \in [passed : Nat, failed : Nat, errors : Nat, collected : Nat]
    /\ timely \/ b.late = {}
    /\ cleared \/ b.reward # None
    /\ faults' = faults + (IF timely THEN 0 ELSE 1) + (IF cleared THEN 0 ELSE 1)
    /\ faults' <= Faults
    /\ res'[v] = TestResult(b, run, timely)

LEMMA ExecFacts ==
    ASSUME Sound, NEW v \in Validators, ExecTests(v)
    PROVE  \E b, new, run, timely, cleared : Execution(v, b, new, run, timely, cleared)
PROOF
<1>1. pc[v] = "tests"
  BY DEF ExecTests
<1>2. PICK b : box[v] = {b} /\ IsBox(b)
  BY <1>1, OneBox DEF InBox
<1>3. PICK run \in Dir(v).testRuns, timely \in BOOLEAN, cleared \in BOOLEAN :
        /\ timely \/ b.late = {}
        /\ cleared \/ b.reward # None
        /\ faults' = faults + (IF timely THEN 0 ELSE 1) + (IF cleared THEN 0 ELSE 1)
        /\ faults' <= Faults
        /\ res' = [res EXCEPT ![v] = TestResult(b, run, timely)]
        /\ box' = [box EXCEPT ![v] = {AfterTests(b, run, timely, cleared)}]
        /\ report' = [report EXCEPT ![v].unseen =
                          @ \cup {call \in {<<phase[v], "rm">>} : ~cleared}]
  BY <1>2 DEF ExecTests
<1>4. /\ box'[v] = {AfterTests(b, run, timely, cleared)}
      /\ res'[v] = TestResult(b, run, timely)
  BY <1>3 DEF Sound, Functions
<1>5. /\ run.exit # TimedOut
      /\ run.counts \in [passed : Nat, failed : Nat, errors : Nat, collected : Nat]
  BY RunsAreRuns
<1>6. PICK new : new = AfterTests(b, run, timely, cleared)
  OBVIOUS
<1>7. new = [built |-> b.built, app |-> b.app,
             reward |-> IF Wrote(run, timely) # None THEN Wrote(run, timely)
                        ELSE IF cleared THEN None ELSE b.reward,
             late |-> IF timely THEN b.late ELSE {[reward |-> run.wrote, app |-> b.app]}]
  <2>1. IsBox(b)
    BY <1>2
  <2> QED
    BY <1>6, <2>1 DEF IsBox, AfterTests
<1>8. IsBox(new) /\ new.built = b.built /\ new.app = b.app
  BY <1>7 DEF IsBox
<1>9. cleared => new.reward = Wrote(run, timely)
  BY <1>7
<1>10. (timely => new.late = b.late) /\ (~timely => \A e \in new.late : e.app = b.app)
  BY <1>7
<1>11. box'[v] = {new}
  BY <1>4, <1>6
<1> DEFINE calls == {call \in {<<phase[v], "rm">>} : ~cleared}
<1>12. report'[v] = [report[v] EXCEPT !.unseen = @ \cup calls]
  BY <1>3 DEF Sound, Functions
<1>13. ~cleared => <<phase[v], "rm">> \in calls
  OBVIOUS
<1>14. IsReport(report[v])
  BY DEF Sound, Kept, Held
<1> HIDE DEF calls
<1>15. /\ IsReport(report'[v])
       /\ report'[v].task = report[v].task /\ report'[v].failed = report[v].failed
       /\ report'[v].pre = report[v].pre /\ report'[v].post = report[v].post
       /\ report'[v].loc = report[v].loc /\ report'[v].ours = report[v].ours
       /\ report'[v].changed = report[v].changed
       /\ report'[v].unseen = report[v].unseen \cup calls
  BY <1>12, <1>14 DEF IsReport
<1>16. Execution(v, b, new, run, timely, cleared)
  BY <1>2, <1>3, <1>4, <1>5, <1>8, <1>9, <1>10, <1>11, <1>13, <1>15 DEF Execution
<1> QED
  BY <1>16

LEMMA ExecTestsOwn ==
    ASSUME Sound, NEW v \in Validators, ExecTests(v)
    PROVE  Own(v)
PROOF
<1> USE DEF Sound, Functions
<1>0. /\ "read" \in Stages /\ Kept(v) /\ pc[v] = "tests" /\ Goto(v, "read")
      /\ UNCHANGED <<skipDocker, image, at, phase, reports, summary>>
  BY DEF Stages, ExecTests, InBox
<1>1. /\ pc' \in [Validators -> Stages] /\ pc'[v] = "read"
      /\ \A w \in Validators : w # v => pc'[w] = pc[w]
  BY <1>0, GotoStage
<1>2. PICK b, new, run, timely, cleared : Execution(v, b, new, run, timely, cleared)
  BY ExecFacts
<1>3. /\ box'[v] = {new} /\ IsBox(new)
      /\ IsReport(report'[v]) /\ report'[v].task = report[v].task
      /\ report'[v].loc = report[v].loc
  BY <1>2 DEF Execution
<1>4. IsRun(res'[v]) /\ faults' \in 0 .. Faults
  <2>1. IsRun(res'[v])
    BY <1>2, ResultFields DEF Execution
  <2> QED
    BY <1>2, <2>1, HarnessAssumption DEF Execution
<1>5. /\ box' = [w \in Validators |-> box'[w]] /\ res' = [w \in Validators |-> res'[w]]
      /\ report' = [w \in Validators |-> report'[w]]
      /\ \A w \in Validators : w # v =>
             box'[w] = box[w] /\ res'[w] = res[w] /\ report'[w] = report[w]
  BY DEF ExecTests
<1>6. Functions'
  BY <1>0, <1>1, <1>4, <1>5
<1>7. Undisturbed(v)
  BY <1>0, <1>1, <1>4, <1>5, OthersReports DEF Undisturbed
<1>8. Held(v)'
  BY <1>0, <1>1, <1>3, <1>4 DEF Kept, Held, InBox
<1>9. Listed(v)'
  BY <1>0, <1>1, <1>3, SameList DEF InBox
<1>10. Skipped(v)'
  BY <1>0, <1>1 DEF Kept, Skipped, Ended
<1> QED
  BY <1>6, <1>7, <1>8, <1>9, <1>10 DEF Own

(* The result in hand with its reward, and the checks on it. *)
LEMMA ReadFacts ==
    ASSUME Sound, NEW v \in Validators, ReadReward(v)
    PROVE  \E b, run :
               /\ box[v] = {b} /\ IsBox(b) /\ IsRun(run)
               /\ run.reward \in {b.reward, None} /\ faults' \in 0 .. Faults
               /\ run.exit = res[v].exit /\ run.counts = res[v].counts
               /\ run.wrote = res[v].wrote /\ run.app = res[v].app /\ run.built = res[v].built
               /\ report'[v] = Checked(report[v], phase[v], run)
               /\ IsReport(report[v])
               /\ \A w \in Validators : w # v => report'[w] = report[w]
               /\ report' = [w \in Validators |-> report'[w]]
PROOF
<1>1. pc[v] = "read" /\ IsRun(res[v]) /\ IsReport(report[v])
  BY DEF Sound, ReadReward, Kept, Held
<1>2. PICK b : box[v] = {b} /\ IsBox(b)
  BY <1>1, OneBox DEF InBox
<1>a. PICK reward \in {None, b.reward} :
          /\ faults' = faults + (IF reward = b.reward THEN 0 ELSE 1) /\ faults' <= Faults
          /\ report' = [report EXCEPT ![v] = Checked(@, phase[v], [res[v] EXCEPT !.reward = reward])]
  BY <1>2 DEF ReadReward
<1> DEFINE run == [res[v] EXCEPT !.reward = reward]
<1>3. /\ report' = [report EXCEPT ![v] = Checked(@, phase[v], run)]
      /\ faults' \in 0 .. Faults
  BY <1>a, HarnessAssumption DEF Sound, Functions
<1>4. /\ IsRun(run) /\ run.reward \in {b.reward, None}
      /\ run.exit = res[v].exit /\ run.counts = res[v].counts
      /\ run.wrote = res[v].wrote /\ run.app = res[v].app /\ run.built = res[v].built
  BY <1>1 DEF IsRun
<1> HIDE DEF run
<1>5. /\ report'[v] = Checked(report[v], phase[v], run)
      /\ \A w \in Validators : w # v => report'[w] = report[w]
      /\ report' = [w \in Validators |-> report'[w]]
  BY <1>3 DEF Sound, Functions
<1> QED
  BY <1>1, <1>2, <1>3, <1>4, <1>5

LEMMA ReadRewardOwn ==
    ASSUME Sound, NEW v \in Validators, ReadReward(v)
    PROVE  Own(v)
PROOF
<1> USE DEF Sound, Functions
<1>0. /\ {"start", "next"} \subseteq Stages /\ Kept(v) /\ pc[v] = "read"
      /\ Goto(v, IF phase[v] = "pre" THEN "start" ELSE "next")
      /\ UNCHANGED <<skipDocker, image, at, reports, summary>>
  BY DEF Stages, ReadReward, InBox
<1>1. /\ pc' \in [Validators -> Stages] /\ pc'[v] \in {"start", "next"}
      /\ \A w \in Validators : w # v => pc'[w] = pc[w]
  BY <1>0, GotoStage
<1>2. /\ box' = [w \in Validators |-> box'[w]] /\ res' = [w \in Validators |-> res'[w]]
      /\ phase' \in [Validators -> {"pre", "post"}]
      /\ box'[v] = {} /\ res'[v] = NoRun
      /\ \A w \in Validators : w # v =>
             box'[w] = box[w] /\ res'[w] = res[w] /\ phase'[w] = phase[w]
  BY DEF ReadReward
<1>3. IsReport(report'[v]) /\ report'[v].task = report[v].task
  BY ReadFacts, CheckedFields
<1>4. /\ report' = [w \in Validators |-> report'[w]] /\ faults' \in 0 .. Faults
      /\ \A w \in Validators : w # v => report'[w] = report[w]
  BY ReadFacts
<1>5. Functions'
  BY <1>0, <1>1, <1>2, <1>4
<1>6. Undisturbed(v)
  BY <1>0, <1>1, <1>2, <1>4, OthersReports DEF Undisturbed
<1>7. Held(v)'
  BY <1>0, <1>1, <1>2, <1>3, RunFields DEF Kept, Held, InBox
<1>8. Listed(v)'
  BY <1>0, <1>1, <1>3, SameList DEF InBox
<1>9. Skipped(v)'
  BY <1>0, <1>1 DEF Kept, Skipped, Ended
<1> QED
  BY <1>5, <1>6, <1>7, <1>8, <1>9 DEF Own

(* solve.sh: what it makes of the app, and what is late only if it was     *)
(* given up.                                                               *)
LEMMA SolveFacts ==
    ASSUME Sound, NEW v \in Validators, RunSolve(v)
    PROVE  \E b, new, run, counted, found, lost :
               /\ box[v] = {b} /\ IsBox(b) /\ box'[v] = {new}
               /\ new = AfterSolve(b, run)
               /\ run.exit = 0 => run.app = "solved"
               /\ run.files \in Nat /\ run.loc \in Nat
               /\ found = None /\ new.reward # None => "cat" \in lost
               /\ faults' \in 0 .. Faults
               /\ counted = Counted(run, Dir(v).whole, lost)
               /\ report'[v] = Solved(report[v], run, counted, found, lost)
               /\ IsReport(report[v])
               /\ \A w \in Validators : w # v => report'[w] = report[w] /\ box'[w] = box[w]
               /\ report' = [w \in Validators |-> report'[w]]
               /\ box' = [w \in Validators |-> box'[w]]
PROOF
<1>1. pc[v] = "solve" /\ IsReport(report[v])
  BY DEF RunSolve, Sound, Kept, Held
<1>2. PICK b : box[v] = {b} /\ IsBox(b)
  BY <1>1, OneBox DEF InBox
<1>3. PICK run \in Dir(v).solveRuns, lost \in SUBSET {"snapshot", "cat", "diff"} :
        /\ faults' = faults + Cardinality(lost) /\ faults' <= Faults
        /\ "cat" \in lost => AfterSolve(b, run).reward # None
        /\ box' = [box EXCEPT ![v] = {AfterSolve(b, run)}]
        /\ report' = [report EXCEPT ![v] =
                          Solved(@, run, Counted(run, Dir(v).whole, lost),
                                 IF "cat" \in lost THEN None ELSE AfterSolve(b, run).reward, lost)]
  BY <1>2 DEF RunSolve
<1> DEFINE new == AfterSolve(b, run)
           counted == Counted(run, Dir(v).whole, lost)
           found == IF "cat" \in lost THEN None ELSE new.reward
<1>4. /\ found = None /\ new.reward # None => "cat" \in lost
      /\ faults' \in 0 .. Faults
  <2>1. Cardinality(lost) \in Nat
    BY LostAreCounted
  <2>2. faults \in Nat /\ faults' = faults + Cardinality(lost) /\ faults' <= Faults
    BY <1>3, HarnessAssumption DEF Sound, Functions
  <2>3. faults' \in 0 .. Faults
    BY <2>1, <2>2, HarnessAssumption
  <2> QED
    BY <2>3
<1>5. /\ box'[v] = {new} /\ report'[v] = Solved(report[v], run, counted, found, lost)
      /\ \A w \in Validators : w # v => report'[w] = report[w] /\ box'[w] = box[w]
      /\ report' = [w \in Validators |-> report'[w]] /\ box' = [w \in Validators |-> box'[w]]
  BY <1>3 DEF Sound, Functions
<1>6. (run.exit = 0 => run.app = "solved") /\ run.files \in Nat /\ run.loc \in Nat
  BY RunsAreRuns
<1> HIDE DEF new, found, counted
<1>7. new = AfterSolve(b, run) /\ counted = Counted(run, Dir(v).whole, lost)
  BY DEF new, counted
<1> QED
  BY <1>1, <1>2, <1>4, <1>5, <1>6, <1>7

LEMMA RunSolveOwn ==
    ASSUME Sound, NEW v \in Validators, RunSolve(v)
    PROVE  Own(v)
PROOF
<1> USE DEF Sound, Functions
<1>0. /\ "tests" \in Stages /\ Kept(v) /\ pc[v] = "solve" /\ Goto(v, "tests")
      /\ UNCHANGED <<skipDocker, image, at, phase, res, reports, summary>>
  BY DEF Stages, RunSolve, InBox
<1>1. /\ pc' \in [Validators -> Stages] /\ pc'[v] = "tests"
      /\ \A w \in Validators : w # v => pc'[w] = pc[w]
  BY <1>0, GotoStage
<1>2. PICK b, new, run, counted, found, lost :
               /\ IsBox(b) /\ box'[v] = {new} /\ new = AfterSolve(b, run)
               /\ faults' \in 0 .. Faults
               /\ report'[v] = Solved(report[v], run, counted, found, lost)
               /\ IsReport(report[v])
               /\ \A w \in Validators : w # v => report'[w] = report[w] /\ box'[w] = box[w]
               /\ report' = [w \in Validators |-> report'[w]]
               /\ box' = [w \in Validators |-> box'[w]]
  BY SolveFacts
<1>3. IsBox(new) /\ IsReport(report'[v]) /\ report'[v].task = report[v].task
  <2>1. IsBox(new)
    BY <1>2, SolveFields
  <2>2. IsReport(report[v]) /\ report'[v] = Solved(report[v], run, counted, found, lost)
    BY <1>2
  <2>3. IsReport(report'[v]) /\ report'[v].task = report[v].task
    <3>1. PICK rep, kept : rep = report[v] /\ kept = report'[v]
      OBVIOUS
    <3>2. IsReport(rep) /\ kept = Solved(rep, run, counted, found, lost)
      BY <2>2, <3>1
    <3> HIDE DEF Sound, Functions
    <3>3. IsReport(Solved(rep, run, counted, found, lost))
          /\ Solved(rep, run, counted, found, lost).task = rep.task
      BY <3>2, SolvedKeeps
    <3>4. IsReport(kept) /\ kept.task = rep.task
      BY <3>2, <3>3
    <3> QED
      BY <3>1, <3>4
  <2> QED
    BY <2>1, <2>3
<1>4. Functions'
  BY <1>0, <1>1, <1>2
<1>5. Undisturbed(v)
  BY <1>0, <1>1, <1>2, OthersReports DEF Undisturbed
<1>6. Held(v)'
  BY <1>0, <1>1, <1>2, <1>3 DEF Kept, Held, InBox
<1>7. Listed(v)'
  BY <1>0, <1>1, <1>3, SameList DEF InBox
<1>8. Skipped(v)'
  BY <1>0, <1>1 DEF Kept, Skipped, Ended
<1> QED
  BY <1>4, <1>5, <1>6, <1>7, <1>8 DEF Own

LEMMA LateFacts ==
    ASSUME Sound, NEW v \in Validators, LateEffect(v)
    PROVE  /\ UNCHANGED <<image, progress, results, summary, faults>>
           /\ pc[v] \in InBox
           /\ \E b, new : \E effect \in b.late :
                  /\ box[v] = {b} /\ IsBox(b) /\ box'[v] = {new} /\ new = AfterLate(b, effect)
           /\ \A w \in Validators : w # v => box'[w] = box[w]
           /\ box' = [w \in Validators |-> box'[w]]
PROOF
<1>1. pc[v] \in InBox
  BY DEF LateEffect, Sound, Kept, Held
<1>2. PICK b : box[v] = {b} /\ IsBox(b)
  BY <1>1, OneBox
<1>3. PICK effect \in b.late : box' = [box EXCEPT ![v] = {AfterLate(b, effect)}]
  BY <1>2 DEF LateEffect
<1> DEFINE new == AfterLate(b, effect)
<1>4. /\ box'[v] = {new} /\ \A w \in Validators : w # v => box'[w] = box[w]
      /\ box' = [w \in Validators |-> box'[w]]
  BY <1>3 DEF Sound, Functions
<1>5. UNCHANGED <<image, progress, results, summary, faults>>
  BY DEF LateEffect
<1> QED
  BY <1>1, <1>2, <1>4, <1>5

LEMMA LateEffectOwn ==
    ASSUME Sound, NEW v \in Validators, LateEffect(v)
    PROVE  Own(v)
PROOF
<1> USE DEF Sound, Functions, progress, results
<1>1. PICK b, new : \E effect \in b.late :
          box[v] = {b} /\ IsBox(b) /\ box'[v] = {new} /\ new = AfterLate(b, effect)
  BY LateFacts
<1>2. IsBox(new)
  BY <1>1, LateFields
<1>3. Functions'
  BY LateFacts
<1>4. Undisturbed(v)
  BY LateFacts, OthersReports DEF Undisturbed
<1>5. Held(v)'
  BY <1>1, <1>2, LateFacts DEF Kept, Held
<1>6. Listed(v)'
  BY LateFacts DEF Kept, Listed, Task
<1>7. Skipped(v)'
  BY LateFacts DEF Kept, Skipped
<1> QED
  BY <1>3, <1>4, <1>5, <1>6, <1>7 DEF Own

(* A run that dies or is killed forgets what it had. *)
LEMMA EndFacts ==
    ASSUME Sound, NEW v \in Validators, Raise(v) \/ Kill(v)
    PROVE  /\ pc'[v] \in {"died", "killed"} /\ phase'[v] = "pre" /\ at'[v] = 1
           /\ res'[v] = NoRun /\ report'[v] = NewReport(Names[v][1]) /\ reports'[v] = <<>>
           /\ box'[v] = {} /\ Running(v)
           /\ UNCHANGED <<skipDocker, image, summary>>
           /\ faults' \in 0 .. Faults /\ (faults # 0 => faults' # 0)
           /\ Functions'
           /\ \A w \in Validators : w # v =>
                  /\ pc'[w] = pc[w] /\ phase'[w] = phase[w] /\ at'[w] = at[w]
                  /\ res'[w] = res[w] /\ report'[w] = report[w] /\ reports'[w] = reports[w]
                  /\ box'[w] = box[w]
PROOF
<1> USE DEF Sound, Functions
<1>1. /\ UNCHANGED <<skipDocker, image, summary>> /\ Running(v)
      /\ faults' \in 0 .. Faults /\ (faults # 0 => faults' # 0)
  BY HarnessAssumption DEF Raise, Kill, Running, Ended
<1>2. Forget(v) /\ box' = [box EXCEPT ![v] = {}]
      /\ (Goto(v, "died") \/ Goto(v, "killed"))
  BY DEF Raise, Kill
<1>3. {"died", "killed"} \subseteq Stages
  BY DEF Stages, Ended
<1>4. /\ pc' \in [Validators -> Stages] /\ pc'[v] \in {"died", "killed"}
      /\ \A w \in Validators : w # v => pc'[w] = pc[w]
  BY <1>2, <1>3, GotoStage
<1>5. /\ phase' \in [Validators -> {"pre", "post"}] /\ phase'[v] = "pre"
      /\ at' \in [Validators -> Nat] /\ at'[v] = 1
      /\ res' = [w \in Validators |-> res'[w]] /\ res'[v] = NoRun
      /\ reports' = [w \in Validators |-> reports'[w]] /\ reports'[v] = <<>>
      /\ box' = [w \in Validators |-> box'[w]] /\ box'[v] = {}
  BY <1>2 DEF Forget
<1>6. report' = [w \in Validators |-> report'[w]] /\ report'[v] = NewReport(Names[v][1])
  BY <1>2 DEF Forget
<1>7. \A w \in Validators : w # v =>
          /\ phase'[w] = phase[w] /\ at'[w] = at[w]
          /\ res'[w] = res[w] /\ report'[w] = report[w] /\ reports'[w] = reports[w]
          /\ box'[w] = box[w]
  BY <1>2 DEF Forget
<1>8. Functions'
  BY <1>1, <1>4, <1>5, <1>6
<1> QED
  BY <1>1, <1>4, <1>5, <1>6, <1>7, <1>8

LEMMA EndOwn ==
    ASSUME Sound, NEW v \in Validators, Raise(v) \/ Kill(v)
    PROVE  Own(v)
PROOF
<1>1. Undisturbed(v)
  BY EndFacts, OthersReports DEF Undisturbed
<1>2. Held(v)'
  BY EndFacts, ReportFields, RunFields DEF Held, InBox
<1>3. Listed(v)'
  <2>1. <<>> \in Seq({}) /\ DOMAIN <<>> = {}
    OBVIOUS
  <2>2. at'[v] \in 1 .. Len(Names[v])
    BY EndFacts, FirstName
  <2> QED
    BY <2>1, <2>2, EndFacts DEF Listed, InBox
<1>4. Skipped(v)'
  BY EndFacts, ReportFields DEF Skipped, Ended
<1> QED
  BY <1>1, <1>2, <1>3, <1>4, EndFacts DEF Own

LEMMA AppendReport ==
    ASSUME NEW S, NEW seq \in Seq(S), NEW rep, NEW new, new = Append(seq, rep)
    PROVE  /\ \E T : new \in Seq(T)
           /\ Len(new) = Len(seq) + 1 /\ Len(seq) \in Nat
           /\ DOMAIN seq = 1 .. Len(seq)
           /\ DOMAIN new = 1 .. (Len(seq) + 1)
           /\ new[Len(seq) + 1] = rep
           /\ \A k \in 1 .. Len(seq) : new[k] = seq[k]
PROOF
<1>1. seq \in Seq(S \cup {rep})
  OBVIOUS
<1>2. new \in Seq(S \cup {rep})
  BY <1>1
<1> QED
  BY <1>1, <1>2

(* The report is listed; the next task is taken, or the summary written. *)
LEMMA NextFacts ==
    ASSUME Sound, NEW v \in Validators, NextTask(v)
    PROVE  /\ pc[v] = "next" /\ reports'[v] = Append(reports[v], report[v]) /\ phase'[v] = "pre"
           /\ UNCHANGED <<skipDocker, image, box, res, summary, faults>>
           /\ \/ /\ at[v] < Len(Names[v]) /\ at'[v] = at[v] + 1 /\ pc'[v] = "format"
                 /\ report'[v] = NewReport(Names[v][at[v] + 1])
              \/ /\ ~(at[v] < Len(Names[v])) /\ at'[v] = at[v] /\ pc'[v] = "write"
                 /\ report'[v] = NewReport(Names[v][1])
           /\ Functions'
           /\ \A w \in Validators : w # v =>
                  /\ pc'[w] = pc[w] /\ phase'[w] = phase[w] /\ at'[w] = at[w]
                  /\ report'[w] = report[w] /\ reports'[w] = reports[w]
PROOF
<1> USE DEF Sound, Functions
<1>1. /\ pc[v] = "next" /\ UNCHANGED <<skipDocker, image, box, res, summary, faults>>
      /\ reports' = [reports EXCEPT ![v] = Append(@, report[v])]
      /\ phase' = [phase EXCEPT ![v] = "pre"]
      /\ {"format", "write"} \subseteq Stages
  BY DEF NextTask, Stages
<1>2. /\ reports'[v] = Append(reports[v], report[v])
      /\ reports' = [w \in Validators |-> reports'[w]]
      /\ phase' \in [Validators -> {"pre", "post"}] /\ phase'[v] = "pre"
      /\ \A w \in Validators : w # v => phase'[w] = phase[w] /\ reports'[w] = reports[w]
  BY <1>1
<1>3. CASE at[v] < Len(Names[v])
  <2>1. /\ at' = [at EXCEPT ![v] = @ + 1]
        /\ report' = [report EXCEPT ![v] = NewReport(Names[v][at[v] + 1])]
        /\ Goto(v, "format")
    BY <1>3 DEF NextTask
  <2>2. /\ pc' \in [Validators -> Stages] /\ pc'[v] = "format"
        /\ \A w \in Validators : w # v => pc'[w] = pc[w]
    BY <1>1, <2>1, GotoStage
  <2>3. /\ at' \in [Validators -> Nat] /\ at'[v] = at[v] + 1
        /\ \A w \in Validators : w # v => at'[w] = at[w]
    BY <2>1
  <2>4. /\ report' = [w \in Validators |-> report'[w]]
        /\ report'[v] = NewReport(Names[v][at[v] + 1])
        /\ \A w \in Validators : w # v => report'[w] = report[w]
    BY <2>1
  <2> QED
    BY <1>1, <1>2, <1>3, <2>2, <2>3, <2>4
<1>4. CASE ~(at[v] < Len(Names[v]))
  <2>1. /\ at' = at
        /\ report' = [report EXCEPT ![v] = NewReport(Names[v][1])]
        /\ Goto(v, "write")
    BY <1>4 DEF NextTask
  <2>2. /\ pc' \in [Validators -> Stages] /\ pc'[v] = "write"
        /\ \A w \in Validators : w # v => pc'[w] = pc[w]
    BY <1>1, <2>1, GotoStage
  <2>3. /\ report' = [w \in Validators |-> report'[w]]
        /\ report'[v] = NewReport(Names[v][1])
        /\ \A w \in Validators : w # v => report'[w] = report[w]
    BY <2>1
  <2> QED
    BY <1>1, <1>2, <1>4, <2>1, <2>2, <2>3
<1> QED
  BY <1>3, <1>4

LEMMA NextTaskOwn ==
    ASSUME Sound, NEW v \in Validators, NextTask(v)
    PROVE  Own(v)
PROOF
<1>0. Kept(v) /\ pc[v] = "next"
  BY NextFacts DEF Sound
<1>1. Undisturbed(v)
  BY NextFacts, OthersReports DEF Undisturbed
<1>2. Held(v)'
  BY <1>0, NextFacts, ReportFields DEF Kept, Held, InBox
<1>3. PICK S : reports[v] \in Seq(S)
  BY <1>0 DEF Kept, Listed
<1>4. /\ \E T : reports'[v] \in Seq(T)
      /\ Len(reports'[v]) = Len(reports[v]) + 1
      /\ DOMAIN reports[v] = 1 .. Len(reports[v])
      /\ DOMAIN reports'[v] = 1 .. (Len(reports[v]) + 1)
      /\ reports'[v][Len(reports[v]) + 1] = report[v]
      /\ \A k \in 1 .. Len(reports[v]) : reports'[v][k] = reports[v][k]
      /\ Len(reports[v]) \in Nat
  BY <1>3, NextFacts, AppendReport
<1>5. /\ at[v] \in 1 .. Len(Names[v]) /\ Len(Names[v]) \in Nat
      /\ Len(reports[v]) = at[v] - 1 /\ report[v].task = Names[v][at[v]]
  BY <1>0, FirstName DEF Kept, Listed, Task
<1>6. \A k \in DOMAIN reports'[v] : k \in DOMAIN reports[v] \/ k = at[v]
  BY <1>4, <1>5
<1>7. \A k \in DOMAIN reports'[v] : reports'[v][k].task = Names[v][k]
  <2>1. TAKE k \in DOMAIN reports'[v]
  <2>2. CASE k \in DOMAIN reports[v]
    BY <1>0, <1>4, <2>2 DEF Kept, Listed
  <2>3. CASE k = at[v]
    BY <1>4, <1>5, <2>3
  <2> QED
    BY <1>6, <2>2, <2>3
<1>8. Listed(v)'
  <2>1. CASE at[v] < Len(Names[v])
    <3>1. /\ at'[v] = at[v] + 1 /\ pc'[v] = "format"
          /\ report'[v].task = Names[v][at'[v]]
      BY <2>1, NextFacts, ReportFields
    <3>2. at'[v] \in 1 .. Len(Names[v]) /\ Len(reports'[v]) = at'[v] - 1
      BY <1>4, <1>5, <2>1, <3>1
    <3> QED
      BY <1>4, <1>7, <3>1, <3>2 DEF Listed, Task, InBox
  <2>2. CASE ~(at[v] < Len(Names[v]))
    <3>1. at'[v] = at[v] /\ pc'[v] = "write"
      BY <2>2, NextFacts
    <3>2. at[v] = Len(Names[v]) /\ Len(reports'[v]) = at[v]
      BY <1>4, <1>5, <2>2
    <3> QED
      BY <1>4, <1>5, <1>7, <3>1, <3>2 DEF Listed, InBox
  <2> QED
    BY <2>1, <2>2
<1>9. Skipped(v)'
  <2>1. report'[v].loc = <<>> /\ pc'[v] \in {"format", "write"} /\ skipDocker' = skipDocker
    BY NextFacts, ReportFields
  <2>2. skipDocker[v] => \A k \in DOMAIN reports'[v] : reports'[v][k].loc = <<>>
    <3>1. SUFFICES ASSUME skipDocker[v], NEW k \in DOMAIN reports'[v]
                   PROVE  reports'[v][k].loc = <<>>
      OBVIOUS
    <3>2. CASE k \in DOMAIN reports[v]
      BY <1>0, <1>4, <3>1, <3>2 DEF Kept, Skipped
    <3>3. CASE k = at[v]
      BY <1>0, <1>4, <1>5, <3>1, <3>3 DEF Kept, Skipped
    <3> QED
      BY <1>6, <3>2, <3>3
  <2> QED
    BY <2>1, <2>2 DEF Skipped, Ended
<1> QED
  BY <1>1, <1>2, <1>8, <1>9, NextFacts DEF Own

LEMMA SummaryOwn ==
    ASSUME Sound, NEW v \in Validators, OpenSummary(v) \/ CloseSummary(v)
    PROVE  Own(v)
PROOF
<1> USE DEF Sound, Functions, results
<1>0. /\ {"close", "done"} \subseteq Stages /\ Kept(v) /\ pc[v] \in {"write", "close"}
      /\ Goto(v, "close") \/ Goto(v, "done")
      /\ UNCHANGED <<skipDocker, image, at, phase, box, results, faults>>
  BY DEF Stages, Ended, OpenSummary, CloseSummary
<1>1. /\ pc' \in [Validators -> Stages] /\ pc'[v] \in {"close", "done"}
      /\ \A w \in Validators : w # v => pc'[w] = pc[w]
  BY <1>0, GotoStage
<1>2. summary'.state \in {"absent", "truncated", "written", "garbled"}
  <2>1. CASE OpenSummary(v)
    BY <2>1 DEF OpenSummary, NoSummary
  <2>2. CASE CloseSummary(v)
    BY <2>2 DEF CloseSummary
  <2> QED
    BY <2>1, <2>2
<1>3. Functions'
  BY <1>0, <1>1, <1>2
<1>4. Undisturbed(v)
  BY <1>0, <1>1, OthersReports DEF Undisturbed
<1>5. Held(v)'
  BY <1>0, <1>1 DEF Kept, Held, InBox
<1>6. Listed(v)'
  BY <1>0, <1>1 DEF Kept, Listed, InBox
<1>7. Skipped(v)'
  BY <1>0, <1>1 DEF Kept, Skipped, Ended
<1> QED
  BY <1>3, <1>4, <1>5, <1>6, <1>7 DEF Own

LEMMA StepOwn ==
    ASSUME Sound, NEW v \in Validators, Launch(v) \/ Step(v) \/ LateEffect(v) \/ Kill(v)
    PROVE  Own(v)
PROOF
  BY LaunchOwn, FormatOwn, BuildOwn, CheckOwn, StartBoxOwn, ExecTestsOwn, ReadRewardOwn,
     RunSolveOwn, LateEffectOwn, EndOwn, NextTaskOwn, SummaryOwn DEF Step

LEMMA SoundStep ==
    ASSUME Sound, [Next]_vars
    PROVE  Sound'
PROOF
<1>1. CASE UNCHANGED vars
  <2> USE <1>1 DEF vars, progress, results, Sound
  <2>1. Functions'
    BY DEF Functions
  <2>2. ASSUME NEW v \in Validators
        PROVE  Held(v)' /\ Listed(v)' /\ Skipped(v)'
    <3>1. Held(v)'
      BY DEF Kept, Held
    <3>2. Listed(v)'
      BY DEF Kept, Listed, Task
    <3>3. Skipped(v)'
      BY DEF Kept, Skipped
    <3> QED
      BY <3>1, <3>2, <3>3
  <2> QED
    BY <2>1, <2>2 DEF Kept
<1>2. ASSUME NEW v \in Validators, Launch(v) \/ Step(v) \/ LateEffect(v) \/ Kill(v)
      PROVE  Sound'
  <2>1. Own(v)
    BY <1>2, StepOwn
  <2>2. \A w \in Validators : w # v => Kept(w)'
    BY <2>1, OthersKept DEF Own, Sound
  <2> QED
    BY <2>1, <2>2 DEF Own, Sound, Kept
<1> QED
  BY <1>1, <1>2 DEF Next

(***************************************************************************)
(* Every stage has the data it needs, and a container is held exactly      *)
(* inside the two try blocks, whichever docker call fails and whenever a   *)
(* run dies, for any number of runs and faults.                            *)
(***************************************************************************)
THEOREM TypeCorrect ==
    Spec => []TypeOK
PROOF
<1>1. Sound => TypeOK
  <2> SUFFICES ASSUME Sound
               PROVE  TypeOK
    OBVIOUS
  <2>1. ASSUME NEW v \in Validators
        PROVE  /\ at[v] \in DOMAIN Names[v] /\ Len(reports[v]) <= at[v]
               /\ Cardinality(box[v]) = IF pc[v] \in {"tests", "solve", "read"} THEN 1 ELSE 0
    <3>1. Held(v) /\ Listed(v) /\ pc[v] \in Stages
      BY DEF Sound, Functions, Kept
    <3>2. Cardinality(box[v]) = IF pc[v] \in {"tests", "solve", "read"} THEN 1 ELSE 0
      BY <3>1, FS_EmptySet, FS_Singleton DEF Held, InBox
    <3>3. at[v] \in DOMAIN Names[v] /\ at[v] \in Nat /\ Len(<<>>) = 0
      BY <3>1, FirstName DEF Listed
    <3>4. Len(reports[v]) <= at[v]
      BY <3>1, <3>3, FirstName DEF Listed, Stages, InBox, Ended
    <3> QED
      BY <3>2, <3>3, <3>4
  <2> QED
    BY <2>1 DEF TypeOK, Sound, Functions, Stages, InBox
<1> QED
  BY <1>1, SoundInit, SoundStep, PTL DEF Spec

-----------------------------------------------------------------------------
(* What a report shows as long as no check has failed. *)

(* Until the image is started nothing has been shown. *)
LEMMA NothingYet ==
    ASSUME NEW v \in Validators, After(v), pc[v] \notin InBox \cup {"start", "next"}
    PROVE  phase[v] = "post" => report[v].failed # {}
PROOF
  BY DEF After

(* A step outside of the two containers that shows nothing new. *)
LEMMA QuietShown ==
    ASSUME NEW v \in Validators, Shown(v),
           phase'[v] = phase[v], at'[v] = at[v], reports'[v] = reports[v], box'[v] = {},
           report'[v].task = report[v].task, report[v].failed \subseteq report'[v].failed,
           report'[v].ours => /\ report'[v].task = Task(v) /\ image'[Task(v)] = v
                              /\ pc'[v] \notin {"idle", "format", "build"},
           Scanned(v)',
           pc[v] \notin InBox \cup {"start", "next"},
           pc'[v] \notin InBox,
           skipDocker'[v] = skipDocker[v] \/ reports[v] = <<>>,
           pc'[v] = "next" => skipDocker'[v] \/ report'[v].failed # {}
    PROVE  Shown(v)'
PROOF
<1>1. Ours(v)'
  BY DEF Ours, Task, InBox
<1>2. Before(v)'
  BY DEF Before
<1>3. After(v)'
  BY NothingYet DEF Shown, After
<1>4. Passed(v)'
  <2>1. DOMAIN <<>> = {}
    OBVIOUS
  <2> QED
    BY <2>1 DEF Shown, Passed, Ok
<1> QED
  BY <1>1, <1>2, <1>3, <1>4 DEF Shown

(* Before the scans nothing is claimed of the image. *)
LEMMA NotScanned ==
    ASSUME NEW v \in Validators,
           pc'[v] \notin InBox \cup {"start", "next"} \/ report'[v].failed # {} \/ ~report'[v].ours
    PROVE  Scanned(v)'
PROOF
  BY DEF Scanned, ImageIsClean

LEMMA EarlyShown ==
    ASSUME Sound, NEW v \in Validators, Shown(v),
           Launch(v) \/ Format(v) \/ Build(v) \/ BuildFails(v)
    PROVE  Shown(v)'
PROOF
<1> USE DEF Sound, Functions, results
<1>0. Held(v) /\ Listed(v) /\ Task(v) \in Tasks /\ IsReport(report[v])
  BY TaskIsTask DEF Kept, Held
<1>1. CASE Launch(v)
  <2>1. /\ UNCHANGED <<image, at, phase, box, results>> /\ pc'[v] = "format" /\ pc[v] = "idle"
    BY <1>1, GotoStage DEF Launch, Stages
  <2>2. reports[v] = <<>> /\ box[v] = {}
    BY <1>0, <2>1 DEF Listed, Held, InBox
  <2> QED
    BY <2>1, <2>2, QuietShown, NotScanned DEF Shown, Ours, InBox
<1>2. CASE Format(v)
  <2>1. /\ UNCHANGED <<skipDocker, image, at, phase, box, reports>> /\ pc[v] = "format"
    BY <1>2 DEF Format
  <2> DEFINE bad == FormatFailures(Dir(v)) \cup {"docker-skipped-due-to-format-failures"}
  <2>2. \/ /\ Goto(v, IF skipDocker[v] THEN "next" ELSE "build") /\ report' = report
        \/ Goto(v, "next") /\ Fails(v, bad) /\ bad # {}
    BY <1>2 DEF Format
  <2> HIDE DEF bad
  <2>3. /\ pc'[v] \in {"next", "build"}
        /\ report'[v].task = report[v].task /\ report'[v].ours = report[v].ours
        /\ report[v].failed \subseteq report'[v].failed
        /\ pc'[v] = "next" => skipDocker[v] \/ report'[v].failed # {}
    BY <2>2, GotoStage, FailsFields DEF Stages
  <2>4. box[v] = {}
    BY <1>0, <2>1 DEF Held, InBox
  <2> QED
    BY <2>1, <2>3, <2>4, QuietShown, NotScanned DEF Shown, Ours, InBox
<1>3. CASE Build(v)
  <2>1. /\ UNCHANGED <<skipDocker, at, phase, box, reports>> /\ pc[v] = "build"
        /\ Goto(v, "scan") /\ image'[Task(v)] = v
        /\ report'[v] = [report[v] EXCEPT !.ours = TRUE, !.failed = @ \cup EnvBuildFailures(Dir(v))]
    BY <1>0, <1>3 DEF Build
  <2>2. pc'[v] = "scan"
    BY <2>1, GotoStage DEF Stages
  <2>3. report'[v].task = report[v].task /\ report[v].failed \subseteq report'[v].failed
    BY <1>0, <2>1 DEF IsReport
  <2>4. box[v] = {} /\ report[v].task = Task(v)
    BY <1>0, <2>1 DEF Held, Listed, InBox
  <2> QED
    BY <2>1, <2>2, <2>3, <2>4, QuietShown, NotScanned DEF InBox
<1>4. CASE BuildFails(v)
  <2>1. /\ UNCHANGED <<skipDocker, image, at, phase, box, reports>> /\ pc[v] = "build"
        /\ Goto(v, "next") /\ Fails(v, {"docker-build(task-root-context)"})
    BY <1>4 DEF BuildFails
  <2>2. /\ pc'[v] = "next" /\ report'[v].task = report[v].task /\ report'[v].ours = report[v].ours
        /\ report'[v].failed = report[v].failed \cup {"docker-build(task-root-context)"}
    BY <2>1, GotoStage, FailsFields DEF Stages
  <2>3. box[v] = {}
    BY <1>0, <2>1 DEF Held, InBox
  <2> QED
    BY <2>1, <2>2, <2>3, QuietShown, NotScanned DEF Shown, Ours, InBox
<1> QED
  BY <1>1, <1>2, <1>3, <1>4

LEMMA ScanShown ==
    ASSUME Sound, NEW v \in Validators, Shown(v), Scan(v)
    PROVE  Shown(v)'
PROOF
<1> USE DEF Sound, Functions
<1>1. PICK lost \in SUBSET {"leak_scan", "stray_files_scan"} :
          /\ IsReport(report'[v])
          /\ report'[v].failed = report[v].failed \cup ScanFailures(Source(v), lost)
          /\ report'[v].unseen = report[v].unseen \cup ({"image"} \X lost)
          /\ report'[v].task = report[v].task /\ report'[v].ours = report[v].ours
  BY ScanFacts
<1>2. /\ UNCHANGED <<skipDocker, image, at, phase, box, reports>> /\ pc[v] = "scan"
      /\ Goto(v, "start")
  BY DEF Scan
<1>3. pc'[v] = "start"
  BY <1>2, GotoStage DEF Stages
<1>4. box[v] = {}
  BY <1>2 DEF Kept, Held, InBox
<1>5. Scanned(v)'
  <2> SUFFICES ASSUME report'[v].failed = {}, report'[v].ours
               PROVE  ImageIsClean(v, report'[v])
    BY NotScanned DEF Scanned
  <2>1. Source(v) = Checkout[v][report'[v].task]
    BY <1>1 DEF Shown, Ours, Source
  <2>2. ScanFailures(Source(v), lost) = {}
    BY <1>1
  <2>3. /\ "leak_scan" \in lost \/ Source(v).baked = None
        /\ "stray_files_scan" \in lost \/ ~Source(v).strays
    BY <2>2 DEF ScanFailures
  <2>4. \A call \in lost : <<"image", call>> \in report'[v].unseen
    BY <1>1
  <2> QED
    BY <2>1, <2>3, <2>4 DEF ImageIsClean
<1> QED
  BY <1>1, <1>2, <1>3, <1>4, <1>5, QuietShown DEF Shown, Ours, InBox

(* Over the summary and at the end of a run there is no report in hand. *)
LEMMA LastShown ==
    ASSUME Sound, NEW v \in Validators, Shown(v),
           OpenSummary(v) \/ CloseSummary(v) \/ Raise(v) \/ Kill(v)
    PROVE  Shown(v)'
PROOF
<1> USE DEF Sound, Functions, results
<1>1. CASE OpenSummary(v) \/ CloseSummary(v)
  <2>1. /\ UNCHANGED <<skipDocker, image, at, phase, box, results>> /\ pc[v] \in {"write", "close"}
        /\ Goto(v, "close") \/ Goto(v, "done")
    BY <1>1 DEF OpenSummary, CloseSummary
  <2>2. pc'[v] \in {"close", "done"}
    BY <2>1, GotoStage DEF Stages, Ended
  <2>3. box[v] = {}
    BY <2>1 DEF Kept, Held, InBox
  <2> QED
    BY <2>1, <2>2, <2>3, QuietShown, NotScanned DEF Shown, Ours, InBox
<1>2. CASE Raise(v) \/ Kill(v)
  <2>1. DOMAIN <<>> = {}
    OBVIOUS
  <2>2. Ours(v)'
    BY <1>2, EndFacts, ReportFields DEF Ours
  <2>3. Before(v)' /\ After(v)' /\ Scanned(v)'
    BY <1>2, EndFacts, NotScanned DEF Before, After, InBox
  <2>4. Passed(v)'
    BY <1>2, <2>1, EndFacts DEF Passed
  <2> QED
    BY <2>2, <2>3, <2>4 DEF Shown
<1> QED
  BY <1>1, <1>2

LEMMA NextShown ==
    ASSUME Sound, NEW v \in Validators, Shown(v), NextTask(v)
    PROVE  Shown(v)'
PROOF
<1>1. /\ pc[v] = "next" /\ phase'[v] = "pre" /\ pc'[v] \in {"format", "write"}
      /\ skipDocker' = skipDocker /\ box' = box /\ ~(report'[v].ours)
      /\ reports'[v] = Append(reports[v], report[v])
  BY NextFacts, ReportFields
<1>2. Ours(v)' /\ Before(v)' /\ After(v)' /\ Scanned(v)'
  BY <1>1, NotScanned DEF Ours, Before, After, InBox
<1>3. PICK S : reports[v] \in Seq(S)
  BY DEF Sound, Kept, Listed
<1>4. ASSUME NEW k \in DOMAIN reports'[v]
      PROVE  \/ reports'[v][k] = report[v]
             \/ k \in DOMAIN reports[v] /\ reports'[v][k] = reports[v][k]
  BY <1>1, <1>3, AppendReport
<1>5. Passed(v)'
  <2>1. ASSUME NEW k \in DOMAIN reports'[v], ~skipDocker[v], Ok(reports'[v][k])
        PROVE  FullOracle(v, reports'[v][k])
    BY <1>1, <1>4, <2>1 DEF Shown, Passed
  <2> QED
    BY <1>1, <2>1 DEF Passed, Ok, FullOracle, FailsBefore, PassesAfter, ImageIsClean, SolutionCounts
<1> QED
  BY <1>2, <1>5 DEF Shown

LEMMA StartBoxShown ==
    ASSUME Sound, NEW v \in Validators, Shown(v), StartBox(v)
    PROVE  Shown(v)'
PROOF
<1> USE DEF Sound, Functions, results
<1>1. /\ pc[v] = "start" /\ Goto(v, IF phase[v] = "pre" THEN "tests" ELSE "solve")
      /\ UNCHANGED <<skipDocker, image, at, phase, results, summary, faults>>
  BY DEF StartBox
<1>2. pc'[v] = IF phase[v] = "pre" THEN "tests" ELSE "solve"
  BY <1>1, GotoStage DEF Stages, InBox
<1>3. PICK new : /\ box'[v] = {new} /\ new.built = image[Task(v)] /\ new.app = "original"
                 /\ new.late = {}
  <2> DEFINE new == [built |-> image[Task(v)], app |-> "original",
                     reward |-> Source(v).baked, late |-> {}]
  <2>1. box'[v] = {new}
    BY DEF StartBox
  <2>2. new.built = image[Task(v)] /\ new.app = "original" /\ new.late = {}
    OBVIOUS
  <2> HIDE DEF new
  <2> QED
    BY <2>1, <2>2
<1>4. Ours(v)'
  BY <1>1, <1>2, <1>3 DEF Shown, Ours, Task
<1>5. Before(v)'
  BY <1>1, <1>2, <1>3 DEF Before
<1>6. After(v)'
  BY <1>1, <1>2, <1>3 DEF Shown, After, InBox, FailsBefore
<1>7. Passed(v)'
  BY <1>1, <1>2 DEF Shown, Passed, FullOracle, FailsBefore, PassesAfter, ImageIsClean, SolutionCounts
<1>8. Scanned(v)'
  BY <1>1, <1>2 DEF Shown, Scanned, ImageIsClean
<1> QED
  BY <1>4, <1>5, <1>6, <1>7, <1>8 DEF Shown

(* An older reward is left only by a second docker call that failed. *)
LEMMA ExecTestsShown ==
    ASSUME Sound, NEW v \in Validators, Shown(v), ExecTests(v)
    PROVE  Shown(v)'
PROOF
<1>1. /\ pc[v] = "tests" /\ Goto(v, "read")
      /\ UNCHANGED <<skipDocker, image, at, phase, reports, summary>>
      /\ Held(v) /\ phase[v] \in {"pre", "post"}
  BY DEF ExecTests, Sound, Functions, Kept
<1>2. pc'[v] = "read"
  BY <1>1, GotoStage DEF Stages, InBox, Sound
<1>3. PICK b, new, run, timely, cleared : Execution(v, b, new, run, timely, cleared)
  BY ExecFacts
<1>4. /\ box[v] = {b} /\ box'[v] = {new} /\ new.built = b.built /\ new.app = b.app
      /\ cleared => new.reward = Wrote(run, timely)
      /\ timely => new.late = b.late
      /\ ~timely => \A e \in new.late : e.app = b.app
      /\ report'[v].task = report[v].task /\ report'[v].failed = report[v].failed
      /\ report'[v].pre = report[v].pre /\ report'[v].post = report[v].post
      /\ report'[v].ours = report[v].ours
      /\ report'[v].changed = report[v].changed /\ report[v].unseen \subseteq report'[v].unseen
      /\ ~cleared => <<phase[v], "rm">> \in report'[v].unseen
      /\ cleared \/ b.reward # None
  BY <1>3 DEF Execution
<1>5. /\ res'[v].exit = (IF timely THEN run.exit ELSE TimedOut)
      /\ res'[v].counts = (IF timely THEN run.counts ELSE NoCounts)
      /\ res'[v].wrote = Wrote(run, timely) /\ res'[v].app = b.app /\ res'[v].built = b.built
      /\ run.exit # TimedOut
  BY <1>3, ResultFields DEF Execution
<1>6. Ours(v)'
  BY <1>1, <1>2, <1>4, <1>5 DEF Shown, Ours, Task
<1>7. Before(v)'
  <2> SUFFICES ASSUME phase[v] = "pre"
               PROVE  /\ new.app = "original" /\ \A e \in new.late : e.app = "original"
                      /\ res'[v].app = "original"
                      /\ res'[v].exit = TimedOut => res'[v].counts = NoCounts
    BY <1>1, <1>2, <1>4 DEF Before
  <2>1. b.app = "original" /\ \A e \in b.late : e.app = "original"
    BY <1>1, <1>4 DEF Shown, Before, InBox
  <2> QED
    BY <1>4, <1>5, <2>1
<1>8. After(v)'
  <2> SUFFICES ASSUME phase[v] = "post", report[v].failed = {}, res'[v].exit = 0
               PROVE  /\ res'[v].app = "solved" /\ new.late = {}
                      /\ \/ new.reward = res'[v].wrote
                         \/ {<<"post", "cat">>, <<"post", "rm">>} \subseteq report'[v].unseen
    <3>1. phase[v] = "post" /\ report[v].failed = {} =>
              /\ \E pre \in report[v].pre : FailsBefore(v, report[v], pre)
              /\ SolutionCounts(report[v])
      BY <1>1 DEF Shown, After
    <3>2. SolutionCounts(report[v]) => SolutionCounts(report'[v])
      BY <1>4 DEF SolutionCounts
    <3> QED
      BY <1>1, <1>2, <1>4, <3>1, <3>2 DEF After, InBox, FailsBefore
  <2>1. /\ b.app = "solved" /\ b.late = {}
        /\ b.reward # None => <<"post", "cat">> \in report[v].unseen
    BY <1>1, <1>4 DEF Shown, After
  <2>2. timely
    BY <1>5 DEF TimedOut
  <2>3. ~cleared => {<<"post", "cat">>, <<"post", "rm">>} \subseteq report'[v].unseen
    BY <1>4, <2>1
  <2> QED
    BY <1>4, <1>5, <2>1, <2>2, <2>3
<1>9. Passed(v)'
  BY <1>1, <1>2 DEF Shown, Passed, FullOracle, FailsBefore, PassesAfter, ImageIsClean, SolutionCounts
<1>10. Scanned(v)'
  BY <1>1, <1>2, <1>4 DEF Shown, Scanned, ImageIsClean, InBox
<1> QED
  BY <1>6, <1>7, <1>8, <1>9, <1>10 DEF Shown

LEMMA ReadRewardShown ==
    ASSUME Sound, NEW v \in Validators, Shown(v), ReadReward(v)
    PROVE  Shown(v)'
PROOF
<1>1. /\ pc[v] = "read" /\ phase'[v] = "post" /\ box'[v] = {}
      /\ Goto(v, IF phase[v] = "pre" THEN "start" ELSE "next")
      /\ UNCHANGED <<skipDocker, image, at, reports, summary>>
      /\ phase[v] \in {"pre", "post"}
  BY DEF ReadReward, Sound, Functions
<1>2. pc'[v] = IF phase[v] = "pre" THEN "start" ELSE "next"
  BY <1>1, GotoStage DEF Stages, InBox, Ended, Sound
<1>3. PICK b, run :
          /\ box[v] = {b} /\ IsRun(run) /\ run.reward \in {b.reward, None}
          /\ run.exit = res[v].exit /\ run.counts = res[v].counts
          /\ run.wrote = res[v].wrote /\ run.app = res[v].app /\ run.built = res[v].built
          /\ report'[v] = Checked(report[v], phase[v], run)
          /\ IsReport(report[v])
  BY ReadFacts
<1> DEFINE rep == report[v]
           new == report'[v]
<1>4. /\ new.task = rep.task /\ new.ours = rep.ours
      /\ new.unseen = rep.unseen /\ new.changed = rep.changed
      /\ phase[v] = "pre" => /\ new.pre = {run}
                             /\ new.failed = rep.failed \cup PreFailures(run)
      /\ phase[v] # "pre" => /\ new.pre = rep.pre /\ new.post = {run}
                             /\ new.failed = rep.failed \cup PostFailures(run)
  BY <1>3, CheckedFields
<1>5. /\ run.counts \in [passed : Nat, failed : Nat, errors : Nat, collected : Nat]
      /\ run.counts.failed \in Nat /\ run.counts.errors \in Nat /\ run.counts.passed \in Nat
  BY <1>3 DEF IsRun
<1>6. rep.ours => /\ rep.task = Task(v) /\ image[Task(v)] = v /\ run.built = v
  BY <1>1, <1>3 DEF Shown, Ours
<1> HIDE DEF rep, new
<1>7. ASSUME phase[v] = "pre", new.failed = {}
      PROVE  FailsBefore(v, new, run)
  <2>1. run.exit # 0 /\ run.reward = "0" /\ run.counts.failed + run.counts.errors # 0
    BY <1>4, <1>7, PreChecks
  <2>2. run.app = "original" /\ (run.exit = TimedOut => run.counts = NoCounts)
    BY <1>1, <1>3, <1>7 DEF Shown, Before, InBox
  <2>3. NoCounts.failed + NoCounts.errors = 0
    BY DEF NoCounts, Summary
  <2>4. run.counts.failed + run.counts.errors > 0
    BY <1>5, <2>1
  <2> QED
    BY <1>4, <1>5, <1>6, <2>1, <2>2, <2>3, <2>4 DEF FailsBefore
<1>8. ASSUME phase[v] = "post", new.failed = {}
      PROVE  /\ \E pre \in new.pre : FailsBefore(v, new, pre)
             /\ \E post \in new.post : PassesAfter(v, new, post)
  <2>1. /\ run.exit = 0 /\ run.reward = "1" /\ run.counts.passed # 0
        /\ ~(run.counts.failed + run.counts.errors > 0)
    BY <1>4, <1>8, PostChecks
  <2>2. rep.failed = {}
    BY <1>4, <1>8
  <2>a. run.reward = b.reward
    BY <1>3, <2>1 DEF None
  <2>3. /\ run.app = "solved"
        /\ run.wrote = "1" \/ {<<"post", "cat">>, <<"post", "rm">>} \subseteq rep.unseen
        /\ \E pre \in rep.pre : FailsBefore(v, rep, pre)
    BY <1>1, <1>3, <1>8, <2>1, <2>2, <2>a DEF Shown, After, rep
  <2>4. run.counts.failed + run.counts.errors = 0 /\ run.counts.passed > 0
    BY <1>5, <2>1
  <2>5. PassesAfter(v, new, run)
    BY <1>4, <1>5, <1>6, <2>1, <2>3, <2>4 DEF PassesAfter
  <2> QED
    BY <1>4, <1>8, <2>3, <2>5 DEF FailsBefore
<1>9. Ours(v)'
  BY <1>1, <1>2, <1>4, <1>6 DEF Ours, Task, rep, new
<1>10. Before(v)'
  BY <1>1 DEF Before
<1>13. new.failed = {} /\ phase[v] = "post" => SolutionCounts(new)
  <2>1. rep.failed = {} /\ phase[v] = "post" => SolutionCounts(rep)
    BY <1>1 DEF Shown, After, rep
  <2> QED
    BY <1>4, <2>1 DEF SolutionCounts
<1>14. new.failed = {} => ImageIsClean(v, new)
  <2>1. rep.failed = {} => ImageIsClean(v, rep)
    BY <1>1 DEF Shown, Scanned, InBox, rep
  <2>2. new.failed = {} => rep.failed = {}
    BY <1>1, <1>4
  <2> QED
    BY <1>4, <2>1, <2>2 DEF ImageIsClean
<1>15. Scanned(v)'
  BY <1>14 DEF Scanned, new
<1>11. After(v)'
  BY <1>1, <1>2, <1>4, <1>7, <1>8, <1>13 DEF After, InBox, new, FailsBefore
<1>12. Passed(v)'
  <2>1. \A k \in DOMAIN reports'[v] : ~skipDocker[v] /\ Ok(reports[v][k]) =>
            FullOracle(v, reports[v][k])
    BY <1>1 DEF Shown, Passed
  <2>2. pc'[v] = "next" /\ new.failed = {} => FullOracle(v, new)
    BY <1>1, <1>2, <1>8, <1>13, <1>14 DEF FullOracle
  <2> QED
    BY <1>1, <2>1, <2>2 DEF Passed, Ok, new, FullOracle, FailsBefore, PassesAfter, ImageIsClean,
       SolutionCounts
<1> QED
  BY <1>9, <1>10, <1>11, <1>12, <1>15 DEF Shown

LEMMA RunSolveShown ==
    ASSUME Sound, NEW v \in Validators, Shown(v), RunSolve(v)
    PROVE  Shown(v)'
PROOF
<1>1. /\ pc[v] = "solve" /\ Goto(v, "tests")
      /\ UNCHANGED <<skipDocker, image, at, phase, res, reports, summary>>
  BY DEF RunSolve
<1>2. pc'[v] = "tests" /\ phase[v] = "post"
  BY <1>1, GotoStage DEF Stages, InBox, Sound, Functions, Shown, Before
<1>3. PICK b, new, run, counted, found, lost :
          /\ box[v] = {b} /\ IsBox(b) /\ box'[v] = {new} /\ new = AfterSolve(b, run)
          /\ run.exit = 0 => run.app = "solved"
          /\ run.files \in Nat /\ run.loc \in Nat
          /\ found = None /\ new.reward # None => "cat" \in lost
          /\ counted = Counted(run, Dir(v).whole, lost)
          /\ report'[v] = Solved(report[v], run, counted, found, lost) /\ IsReport(report[v])
  BY SolveFacts
<1>4. /\ new.built = b.built /\ new.app = run.app
      /\ run.exit # TimedOut => new.late = {}
  <2>1. IsBox(b) /\ new = AfterSolve(b, run)
    BY <1>3
  <2>2. new.built = b.built
    BY <2>1, SolveFields
  <2>3. new.app = run.app
    BY <2>1 DEF AfterSolve, IsBox
  <2>4. run.exit # TimedOut => new.late = {}
    BY <2>1, SolveFields
  <2> QED
    BY <2>2, <2>3, <2>4
<1>5. /\ report'[v].task = report[v].task /\ report'[v].ours = report[v].ours
      /\ report'[v].pre = report[v].pre
      /\ report'[v].failed = report[v].failed \cup SolveFailures(counted, found)
      /\ report'[v].changed = [files |-> run.files, loc |-> run.loc]
      /\ report'[v].unseen = report[v].unseen \cup ({"post"} \X lost)
  BY <1>3, SolvedFields
<1>6. Ours(v)'
  BY <1>1, <1>2, <1>3, <1>4, <1>5 DEF Shown, Ours, Task
<1>7. Before(v)'
  BY <1>1, <1>2 DEF Before
<1>8. After(v)'
  <2> SUFFICES ASSUME report'[v].failed = {}
               PROVE  /\ \E pre \in report'[v].pre : FailsBefore(v, report'[v], pre)
                      /\ new.app = "solved" /\ new.late = {}
                      /\ new.reward # None => <<"post", "cat">> \in report'[v].unseen
                      /\ SolutionCounts(report'[v])
    BY <1>2, <1>3 DEF After, InBox, FailsBefore
  <2>a. /\ counted.exit = 0 /\ found = None /\ ~(counted.files < 3) /\ ~(counted.loc <= 100)
        /\ counted.exit = run.exit /\ ("diff" \in lost => counted.files = 0)
        /\ lost \cap {"diff", "snapshot"} = {} =>
               counted.files = run.files /\ counted.loc = run.loc
    BY <1>3, <1>5, SolveChecks, CountedFields
  <2>1. run.exit = 0 /\ found = None
    BY <2>a
  <2>b. \A call \in lost : <<"post", call>> \in report'[v].unseen
    BY <1>5
  <2>c. SolutionCounts(report'[v])
    <3>1. CASE "snapshot" \in lost
      BY <2>b, <3>1 DEF SolutionCounts
    <3>2. CASE "snapshot" \notin lost
      BY <1>3, <1>5, <2>a, <3>2 DEF SolutionCounts
    <3> QED
      BY <3>1, <3>2
  <2>2. \E pre \in report[v].pre : FailsBefore(v, report[v], pre)
    BY <1>2, <1>5 DEF Shown, After
  <2> QED
    BY <1>3, <1>4, <1>5, <2>1, <2>2, <2>b, <2>c DEF FailsBefore, TimedOut
<1>9. Passed(v)'
  BY <1>1, <1>2 DEF Shown, Passed, FullOracle, FailsBefore, PassesAfter, ImageIsClean, SolutionCounts
<1>10. Scanned(v)'
  <2>1. report'[v].failed = {} => ImageIsClean(v, report[v])
    BY <1>1, <1>5 DEF Shown, Scanned, InBox
  <2> QED
    BY <1>5, <2>1 DEF Scanned, ImageIsClean
<1> QED
  BY <1>6, <1>7, <1>8, <1>9, <1>10 DEF Shown

LEMMA LateEffectShown ==
    ASSUME Sound, NEW v \in Validators, Shown(v), LateEffect(v)
    PROVE  Shown(v)'
PROOF
<1> USE DEF progress, results
<1>1. PICK b, new : \E effect \in b.late :
          box[v] = {b} /\ IsBox(b) /\ box'[v] = {new} /\ new = AfterLate(b, effect)
  BY LateFacts
<1>2. PICK effect \in b.late :
          box[v] = {b} /\ IsBox(b) /\ box'[v] = {new} /\ new = AfterLate(b, effect)
  BY <1>1
<1>3. new.built = b.built /\ new.app = effect.app /\ new.late = {}
  BY <1>2, LateFields
<1>4. UNCHANGED <<image, progress, results, summary, faults>> /\ pc[v] \in InBox
  BY LateFacts
<1>5. Ours(v)'
  BY <1>2, <1>3, <1>4 DEF Shown, Ours, Task
<1>6. Before(v)'
  BY <1>2, <1>3, <1>4 DEF Shown, Before
<1>7. After(v)'
  BY <1>2, <1>4 DEF Shown, After, FailsBefore, SolutionCounts
<1>8. Passed(v)'
  BY <1>4 DEF Shown, Passed, FullOracle, FailsBefore, PassesAfter, ImageIsClean, SolutionCounts
<1>9. Scanned(v)'
  BY <1>4 DEF Shown, Scanned, ImageIsClean
<1> QED
  BY <1>5, <1>6, <1>7, <1>8, <1>9 DEF Shown

LEMMA EvidenceInit ==
    Init => Evidence /\ SummaryIsOfOne
PROOF
<1> SUFFICES ASSUME Init
             PROVE  Evidence /\ SummaryIsOfOne
  OBVIOUS
<1>1. ASSUME NEW v \in Validators
      PROVE  Shown(v)
  <2>1. Ours(v)
    BY ReportFields DEF Init, Ours
  <2>2. DOMAIN <<>> = {}
    OBVIOUS
  <2> QED
    BY <2>1, <2>2 DEF Init, Shown, Scanned, Before, After, Passed, InBox
<1>2. SummaryIsOfOne
  BY DEF Init, SummaryIsOfOne, NoSummary
<1> QED
  BY <1>1, <1>2 DEF Evidence

LEMMA StepShown ==
    ASSUME Sound, NEW v \in Validators, Shown(v),
           Launch(v) \/ Step(v) \/ LateEffect(v) \/ Kill(v)
    PROVE  Shown(v)'
PROOF
  BY EarlyShown, ScanShown, StartBoxShown, ExecTestsShown, ReadRewardShown, RunSolveShown,
     LateEffectShown, LastShown, NextShown DEF Step

(* A run that is done stays, and the one that writes the summary is done. *)
LEMMA SummaryStep ==
    ASSUME Sound, SummaryIsOfOne, NEW v \in Validators,
           Launch(v) \/ Step(v) \/ LateEffect(v) \/ Kill(v)
    PROVE  SummaryIsOfOne'
PROOF
<1>1. CASE CloseSummary(v)
  <2>1. Goto(v, "done") /\ reports' = reports /\ summary'.reports = reports[v]
    BY <1>1 DEF CloseSummary, results
  <2>2. pc'[v] = "done"
    BY <2>1, GotoStage DEF Stages, Ended, Sound
  <2> QED
    BY <2>1, <2>2 DEF SummaryIsOfOne
<1>2. CASE OpenSummary(v)
  BY <1>2 DEF OpenSummary, NoSummary, SummaryIsOfOne
<1>3. CASE ~CloseSummary(v) /\ ~OpenSummary(v)
  <2>1. summary' = summary /\ pc[v] # "done"
    BY <1>3, LateFacts DEF Launch, Step, Format, Build, BuildFails, Scan, StartBox, ExecTests,
       ReadReward, RunSolve, Raise, NextTask, Kill, Running, Ended, InBox
  <2>2. \A w \in Validators : w # v => pc'[w] = pc[w] /\ reports'[w] = reports[w]
    BY StepOwn DEF Own, Undisturbed
  <2> QED
    BY <2>1, <2>2 DEF SummaryIsOfOne
<1> QED
  BY <1>1, <1>2, <1>3

LEMMA EvidenceStep ==
    ASSUME Sound, Evidence, SummaryIsOfOne, [Next]_vars
    PROVE  Evidence' /\ SummaryIsOfOne'
PROOF
<1>1. CASE UNCHANGED vars
  <2> USE <1>1 DEF vars, progress, results
  <2>1. ASSUME NEW v \in Validators
        PROVE  Shown(v)'
    <3> USE DEF Evidence, Shown
    <3>1. Ours(v)'
      BY DEF Ours, Task
    <3>2. Before(v)'
      BY DEF Before
    <3>3. After(v)'
      BY DEF After, FailsBefore, SolutionCounts
    <3>4. Passed(v)'
      BY DEF Passed, FullOracle, FailsBefore, PassesAfter, ImageIsClean, SolutionCounts
    <3>5. Scanned(v)'
      BY DEF Scanned, ImageIsClean
    <3> QED
      BY <3>1, <3>2, <3>3, <3>4, <3>5
  <2> QED
    BY <2>1 DEF Evidence, SummaryIsOfOne
<1>2. ASSUME NEW v \in Validators, Launch(v) \/ Step(v) \/ LateEffect(v) \/ Kill(v)
      PROVE  Evidence' /\ SummaryIsOfOne'
  <2>1. Shown(v)'
    BY <1>2, StepShown DEF Evidence
  <2>2. \A w \in Validators : w # v => Shown(w)'
    BY <1>2, StepOwn, OthersKept DEF Own, Evidence
  <2>3. SummaryIsOfOne'
    BY <1>2, SummaryStep
  <2> QED
    BY <2>1, <2>2, <2>3 DEF Evidence
<1> QED
  BY <1>1, <1>2 DEF Next

LEMMA OracleOfFull ==
    ASSUME NEW v, NEW rep, FullOracle(v, rep)
    PROVE  Oracle(v, rep)
PROOF
  BY DEF FullOracle, FailsBefore, PassesAfter, Oracle, TestsDecide

(***************************************************************************)
(* validate_task.py: a task comes out without a failed check only when the *)
(* tests failed on a clean image's app and then passed on what a finished  *)
(* solve.sh, which changed enough, made of it in another container, and    *)
(* themselves wrote the reward that was read, but for what the docker      *)
(* calls that failed without the script's noticing would have shown; exit  *)
(* status 0 is of the whole list.  For any number of docker calls that go  *)
(* wrong and of runs, which share the images, may be killed and leave a    *)
(* timed-out exec running.                                                 *)
(***************************************************************************)
THEOREM PassIsOracle ==
    Spec => []PassMeansOracle
PROOF
<1>1. Sound /\ Evidence => PassMeansOracle
  <2> SUFFICES ASSUME Sound, Evidence, NEW v \in Validators
               PROVE  /\ \A k \in DOMAIN reports[v] :
                          Ok(reports[v][k]) /\ ~skipDocker[v] => Oracle(v, reports[v][k])
                      /\ ExitStatus(v) = 0 =>
                          [k \in DOMAIN reports[v] |-> reports[v][k].task] = Names[v]
    BY DEF PassMeansOracle
  <2>1. \A k \in DOMAIN reports[v] :
            Ok(reports[v][k]) /\ ~skipDocker[v] => Oracle(v, reports[v][k])
    BY OracleOfFull DEF Evidence, Shown, Passed
  <2>2. ASSUME ExitStatus(v) = 0
        PROVE  [k \in DOMAIN reports[v] |-> reports[v][k].task] = Names[v]
    <3>1. pc[v] = "done"
      BY <2>2 DEF ExitStatus
    <3>2. /\ \E S : reports[v] \in Seq(S)
          /\ Len(reports[v]) = Len(Names[v])
          /\ \A k \in DOMAIN reports[v] : reports[v][k].task = Names[v][k]
      BY <3>1 DEF Sound, Kept, Listed
    <3>3. Names[v] \in Seq(Tasks) /\ DOMAIN reports[v] = DOMAIN Names[v]
      BY <3>2, FirstName
    <3> QED
      BY <3>2, <3>3
  <2> QED
    BY <2>1, <2>2
<1> QED
  BY <1>1, SoundInit, SoundStep, EvidenceInit, EvidenceStep, PTL DEF Spec

-----------------------------------------------------------------------------
(* The report of the acceptance. *)

LEMMA CountedTests ==
    ASSUME NEW v, NEW rep, FullOracle(v, rep)
    PROVE  PreOk(rep) /\ PostOk(rep)
PROOF
<1>1. PreOk(rep)
  BY DEF FullOracle, FailsBefore, PreOk
<1>2. PostOk(rep)
  <2>1. PICK post \in rep.post : PassesAfter(v, rep, post)
    BY DEF FullOracle
  <2>2. post.counts.failed \in Nat /\ post.counts.errors \in Nat
    BY <2>1 DEF PassesAfter
  <2>3. post.counts.failed = 0
    BY <2>1, <2>2 DEF PassesAfter
  <2> QED
    BY <2>1, <2>3 DEF PassesAfter, PostOk
<1> QED
  BY <1>1, <1>2

(* No line changed is no Pass. *)
LEMMA PassCountsLines ==
    ASSUME NEW reps, Conclusion(reps).verdict = "Pass"
    PROVE  /\ \A k \in DOMAIN reps : Ok(reps[k])
           /\ ~ \A k \in DOMAIN reps : reps[k].loc = <<>>
PROOF
<1>1. (\A k \in DOMAIN reps : Ok(reps[k])) /\ P25Times4(reps) > 400
  BY DEF Conclusion
<1>2. (\A k \in DOMAIN reps : reps[k].loc = <<>>) => P25Times4(reps) = 0
  BY DEF P25Times4
<1> QED
  BY <1>1, <1>2

LEMMA ConclusionCounts ==
    ASSUME NEW S, NEW reps \in Seq(S), NEW c, c = Conclusion(reps),
           \A k \in DOMAIN reps : PreOk(reps[k]) /\ PostOk(reps[k])
    PROVE  c.nTasks = Len(reps) /\ c.nPre = Len(reps) /\ c.nPost = Len(reps)
PROOF
<1>1. /\ {k \in DOMAIN reps : PreOk(reps[k])} = 1 .. Len(reps)
      /\ {k \in DOMAIN reps : PostOk(reps[k])} = 1 .. Len(reps)
      /\ Len(reps) \in Nat
  OBVIOUS
<1>2. Cardinality(1 .. Len(reps)) = Len(reps)
  <2>1. Cardinality(1 .. Len(reps)) = IF 1 > Len(reps) THEN 0 ELSE Len(reps) - 1 + 1
    <3>1. 1 \in Int /\ Len(reps) \in Int
      BY <1>1
    <3> QED
      BY <3>1, FS_Interval, Zenon
  <2> QED
    BY <1>1, <2>1
<1> QED
  BY <1>1, <1>2 DEF Conclusion

(***************************************************************************)
(* report_acceptance.py, run at any time: "Pass" is said of one validation *)
(* that came to its end with docker, of each of whose tasks the oracle     *)
(* holds, and the counts are of all its tasks; for any number of runs over *)
(* one summary.json, killed or not, and of docker calls that go wrong.     *)
(***************************************************************************)
THEOREM AcceptanceIsOfOneRun ==
    Spec => []PassIsOfOneRun
PROOF
<1>1. Sound /\ Evidence /\ SummaryIsOfOne => PassIsOfOneRun
  <2> SUFFICES ASSUME Sound, Evidence, SummaryIsOfOne,
                      NEW c \in Accepted, c.verdict = "Pass"
               PROVE  \E v \in Validators :
                          /\ pc[v] = "done" /\ ~skipDocker[v]
                          /\ Len(Names[v]) = c.nTasks /\ c.nPre = c.nTasks /\ c.nPost = c.nTasks
                          /\ \A k \in DOMAIN reports[v] : Oracle(v, reports[v][k])
    BY DEF PassIsOfOneRun
  <2>1. c = Conclusion(summary.reports) /\ summary.state = "written"
    BY DEF Accepted
  <2>2. PICK v \in Validators : pc[v] = "done" /\ summary.reports = reports[v]
    BY <2>1 DEF SummaryIsOfOne
  <2>3. /\ \A k \in DOMAIN reports[v] : Ok(reports[v][k])
        /\ ~ \A k \in DOMAIN reports[v] : reports[v][k].loc = <<>>
    BY <2>1, <2>2, PassCountsLines
  <2>4. ~skipDocker[v]
    BY <2>3 DEF Sound, Kept, Skipped
  <2>5. \A k \in DOMAIN reports[v] : FullOracle(v, reports[v][k])
    BY <2>3, <2>4 DEF Evidence, Shown, Passed
  <2>6. \A k \in DOMAIN reports[v] :
            Oracle(v, reports[v][k]) /\ PreOk(reports[v][k]) /\ PostOk(reports[v][k])
    BY <2>5, OracleOfFull, CountedTests
  <2>7. PICK S : reports[v] \in Seq(S)
    BY DEF Sound, Kept, Listed
  <2>8. c.nTasks = Len(reports[v]) /\ c.nPre = Len(reports[v]) /\ c.nPost = Len(reports[v])
    BY <2>1, <2>2, <2>6, <2>7, ConclusionCounts
  <2>9. Len(reports[v]) = Len(Names[v])
    BY <2>2 DEF Sound, Kept, Listed
  <2> QED
    BY <2>2, <2>4, <2>6, <2>8, <2>9
<1> QED
  BY <1>1, SoundInit, SoundStep, EvidenceInit, EvidenceStep, PTL DEF Spec

=============================================================================
