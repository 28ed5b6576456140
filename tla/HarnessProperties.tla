-------------------------- MODULE HarnessProperties --------------------------
(***************************************************************************)
(* What a PASS of validate_task.py and of report_acceptance.py is worth.   *)
(***************************************************************************)
EXTENDS HarnessValidation

(***************************************************************************)
(* Every stage with the data it has; a container is held exactly by the    *)
(* stages inside the two try blocks of validate_task.                      *)
(***************************************************************************)
TypeOK ==
    /\ image \in [Tasks -> Validators \cup {None}]
    /\ pc \in [Validators -> Ended \cup {"format", "build", "scan", "start", "tests",
                                         "solve", "read", "next", "write", "close"}]
    /\ phase \in [Validators -> {"pre", "post"}]
    /\ faults \in 0 .. Faults
    /\ summary.state \in {"absent", "truncated", "written", "garbled"}
    /\ \A v \in Validators :
        /\ at[v] \in DOMAIN Names[v] /\ Len(reports[v]) <= at[v]
        /\ Cardinality(box[v]) = IF pc[v] \in {"tests", "solve", "read"} THEN 1 ELSE 0

(* The tests failed on the image's app, and passed on what solve.sh, done  *)
(* and in time, made of it in another container, where they themselves     *)
(* wrote the reward unless both the `cat` and the `rm` of an older one     *)
(* failed unseen.                                                          *)
TestsDecide(v, rep) ==
    \E pre \in rep.pre, post \in rep.post :
        /\ pre.app = "original" /\ pre.exit \notin {0, TimedOut} /\ pre.reward = "0"
        /\ pre.counts.failed + pre.counts.errors > 0
        /\ post.app = "solved" /\ post.exit = 0
        /\ post.counts.failed + post.counts.errors = 0 /\ post.counts.passed > 0
        /\ post.wrote = "1" \/ {<<"post", "cat">>, <<"post", "rm">>} \subseteq rep.unseen
        /\ rep.ours => pre.built = v /\ post.built = v

(* The image had nothing baked in and no stray file, unless the scan for   *)
(* it failed unseen; this, as that both ran in this checkout's image, if   *)
(* no other checkout was built under the tag meanwhile.                    *)
ImageIsClean(v, rep) ==
    rep.ours =>
        /\ Checkout[v][rep.task].baked = None \/ <<"image", "leak_scan">> \in rep.unseen
        /\ ~Checkout[v][rep.task].strays \/ <<"image", "stray_files_scan">> \in rep.unseen

(* The solution changed as much as it must, unless the snapshot it is      *)
(* compared with was not taken.                                            *)
SolutionCounts(rep) ==
    \/ rep.changed.files >= 3 /\ rep.changed.loc > 100
    \/ <<"post", "snapshot">> \in rep.unseen

Oracle(v, rep) == TestsDecide(v, rep) /\ ImageIsClean(v, rep) /\ SolutionCounts(rep)

(***************************************************************************)
(* validate_task.py: a task passes only with a failing run before and a    *)
(* passing run after the reference solution, on a clean image, whatever    *)
(* timed out, failed, hung, was left running, was baked into an image or   *)
(* was built meanwhile; what a PASS says less is what the docker calls     *)
(* that failed without the script's noticing would have shown.  Exit       *)
(* status 0 says that of every task selected, or that docker was skipped.  *)
(***************************************************************************)
PassMeansOracle ==
    \A v \in Validators :
        /\ \A k \in DOMAIN reports[v] :
            Ok(reports[v][k]) /\ ~skipDocker[v] => Oracle(v, reports[v][k])
        /\ ExitStatus(v) = 0 =>
            [k \in DOMAIN reports[v] |-> reports[v][k].task] = Names[v]

(***************************************************************************)
(* report_acceptance.py: a conclusion "Steps 1-2: Pass" is that of one run *)
(* that came to its end with the oracle of every task it reports, and the  *)
(* counts it prints are n of n; never of a run that skipped docker, died,  *)
(* or wrote over the summary of another.                                   *)
(***************************************************************************)
PassIsOfOneRun ==
    \A c \in Accepted : c.verdict = "Pass" =>
        \E v \in Validators :
            /\ pc[v] = "done" /\ ~skipDocker[v]
            /\ Len(Names[v]) = c.nTasks /\ c.nPre = c.nTasks /\ c.nPost = c.nTasks
            /\ \A k \in DOMAIN reports[v] : Oracle(v, reports[v][k])

=============================================================================
