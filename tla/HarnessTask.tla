----------------------------- MODULE HarnessTask -----------------------------
(***************************************************************************)
(* What scripts/validate_task.py says of one task: its format checks, the  *)
(* outcome of a test run and of solve.sh as they reach the script, the     *)
(* checks on them, and the summary that scripts/report_acceptance.py       *)
(* reads.  A report keeps the names of the checks that failed.             *)
(***************************************************************************)
EXTENDS Integers, Sequences, FiniteSets, TLC
LOCAL INSTANCE SequencesExt

None == "none"      \* Python's None, an absent file

RequiredFiles == {"instruction.md", "task.toml", "Dockerfile", "solve.sh", "test.sh"}

(* The checks on the content of each file, made only when it is there (the *)
(* last of task.toml only where harbor is installed).                      *)
ContentChecks ==
    [f \in RequiredFiles |->
        CASE f = "task.toml" -> {"toml-parses", "toml-numeric", "toml-no-secrets",
                                "toml-harbor-schema"}
          [] f = "solve.sh" -> {"bash-n:solve.sh", "solve.sh-does-not-touch-verifier"}
          [] f = "test.sh" -> {"bash-n:test.sh", "test.sh-writes-reward",
                               "test.sh-reward-not-hardcoded", "test.sh-runs-real-tests"}
          [] f = "instruction.md" -> {"instruction-nonempty", "instruction-no-verifier-leak",
                                      "instruction-no-network-deps"}
          [] f = "Dockerfile" -> {"dockerfile-no-tests-solution-copy",
                                  "dockerignore-excludes-tests-solution"}]

WorkspaceChecks ==
    {"dir-name-charset", "workspace-no-verifier-references", "workspace-no-hidden-fixture-names"}

(* A task directory: the required files it has, the checks that something  *)
(* in it fails, a reward its image would hold, files the image would leave *)
(* outside /app, the size of /app, whether it builds from `environment`    *)
(* alone, and how its test.sh and its solve.sh may end (subsets of         *)
(* TestRuns and SolveRuns).                                                *)
FormatFailures(dir) ==
    {"file-present:" \o f : f \in RequiredFiles \ dir.files}
        \cup (dir.faults \cap
                (WorkspaceChecks \cup UNION {ContentChecks[f] : f \in dir.files}))
        \cup {n \in {"toml-numeric"} : "task.toml" \in dir.files
                                       /\ "toml-parses" \in dir.faults}

-----------------------------------------------------------------------------
(* test.sh: pytest, then the reward and the exit status from its status. *)

Summary(passed, failed, errors, collected) ==
    [passed |-> passed, failed |-> failed, errors |-> errors, collected |-> collected]

(* What parse_pytest_counts finds in an output without a summary line. *)
NoCounts == Summary(0, 0, 0, 0)

Pytest(status, counts) ==
    [exit |-> status, counts |-> counts, wrote |-> IF status = 0 THEN "1" ELSE "0"]

TestRuns ==
    {Pytest(0, Summary(2, 0, 0, 2)), Pytest(1, Summary(1, 1, 0, 2)),
     Pytest(2, Summary(0, 0, 1, 1)),                        \* a module does not import
     Pytest(0, Summary(0, 0, 0, 2)),                        \* every test is skipped
     Pytest(5, NoCounts),                                   \* no tests ran
     [exit |-> 137, counts |-> NoCounts, wrote |-> None],   \* no memory, or no exec
     [exit |-> 0, counts |-> Summary(2, 0, 0, 2), wrote |-> None]}  \* no space for the reward

TimedOut == 124

(* The checks on the two test runs; a result has the exit status, the      *)
(* reward as read back and the counts.                                     *)
PreFailures(res) ==
    LET c == res.counts
    IN  {n \in {"pre-apply:test.sh-exit-nonzero"} : res.exit = 0}
        \cup {n \in {"pre-apply:reward==0"} : res.reward # "0"}
        \cup {n \in {"pre-apply:at-least-one-test-fails"} : c.failed + c.errors = 0}
        \cup {n \in {"pre-apply:tests-collected"} : c.collected = 0}

PostFailures(res) ==
    LET c == res.counts
    IN  {n \in {"post-apply:test.sh-exit-zero"} : res.exit # 0}
        \cup {n \in {"post-apply:reward==1"} : res.reward # "1"}
        \cup {n \in {"post-apply:all-tests-pass"} : c.failed + c.errors > 0 \/ c.passed = 0}
        \cup {n \in {"post-apply:tests-collected-not-all-skipped"} : c.collected = 0 \/ c.passed = 0}
        \cup {n \in {"post-apply:test.sh-within-verifier-timeout"} : res.exit = TimedOut}

-----------------------------------------------------------------------------
(* solve.sh: its exit status, what it makes of /app, what diff counts, and *)
(* a reward it leaves.                                                     *)

Solve(exit, app, files, loc, wrote) ==
    [exit |-> exit, app |-> app, files |-> files, loc |-> loc, wrote |-> wrote]

SolveRuns ==
    {Solve(0, "solved", 3, 150, None), Solve(0, "solved", 2, 90, None),
     Solve(0, "solved", 3, 150, "1"), Solve(1, "partial", 3, 150, None),
     Solve(TimedOut, "partial", 0, 0, None)}

(* A slip for PassMeansOracle: the tests decide, whatever solve.sh did. *)
SolveFailuresOfDiff(run, rewardFile) == {n \in {"post-apply:loc-changed>100"} : run.loc <= 100}

SolveFailures(run, rewardFile) ==
    {n \in {"post-apply:solve.sh-exit-zero"} : run.exit # 0}
        \cup {n \in {"post-apply:solve.sh-within-agent-timeout"} : run.exit = TimedOut}
        \cup {n \in {"post-apply:solve.sh-did-not-write-reward"} : rewardFile # None}
        \cup {n \in {"post-apply:changes-span-multiple-files"} : run.files < 3}
        \cup {n \in {"post-apply:loc-changed>100"} : run.loc <= 100}

-----------------------------------------------------------------------------
(* main: the summary of all reports; report_acceptance: its conclusion. *)

Ok(report) == report.failed = {}

LocsOf(reports) == FlattenSeq([k \in DOMAIN reports |-> reports[k].loc])

(* Four times the quarter percentile of the changed lines, as interpolated. *)
P25Times4(reports) ==
    LET locs == SortSeq(LocsOf(reports), LAMBDA x, y : x < y)
        n == Len(locs)
        low == (n - 1) \div 4 + 1
    IN  IF \A k \in DOMAIN reports : reports[k].loc = <<>> THEN 0
        ELSE 4 * locs[low] + ((n - 1) % 4) * (locs[IF low < n THEN low + 1 ELSE n] - locs[low])

PreOk(report) ==
    \E res \in report.pre :
        res.reward = "0" /\ res.exit # 0 /\ res.counts.failed + res.counts.errors >= 1

PostOk(report) ==
    \E res \in report.post :
        res.reward = "1" /\ res.exit = 0 /\ res.counts.failed = 0

AllPassed(reports) == reports # <<>> /\ \A k \in DOMAIN reports : Ok(reports[k])

(* A slip for PassIsOfOneRun: the lines changed are printed only. *)
ConclusionOfChecks(reports) ==
    [verdict |-> IF \A k \in DOMAIN reports : Ok(reports[k]) THEN "Pass" ELSE "Fail",
     nTasks |-> Len(reports),
     nPre |-> Cardinality({k \in DOMAIN reports : PreOk(reports[k])}),
     nPost |-> Cardinality({k \in DOMAIN reports : PostOk(reports[k])})]

Conclusion(reports) ==
    [verdict |-> IF (\A k \in DOMAIN reports : Ok(reports[k])) /\ P25Times4(reports) > 400
                 THEN "Pass" ELSE "Fail",
     nTasks |-> Len(reports),
     nPre |-> Cardinality({k \in DOMAIN reports : PreOk(reports[k])}),
     nPost |-> Cardinality({k \in DOMAIN reports : PostOk(reports[k])})]

=============================================================================
