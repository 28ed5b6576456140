------------------------------ MODULE MCHarness ------------------------------
(***************************************************************************)
(* v1 validates one task from a checkout that is in order; v2 validates it *)
(* from another whose image has a reward baked in, after a second one      *)
(* without a Dockerfile.                                                   *)
(***************************************************************************)
EXTENDS HarnessProperties

CONSTANTS v1, v2, a, b

MCNames == [v \in Validators |-> IF v = v2 THEN <<b, a>> ELSE <<a>>]

Good == [files |-> RequiredFiles, faults |-> {}, baked |-> None, strays |-> FALSE, envBuilds |-> TRUE,
         whole |-> [files |-> 40, loc |-> 4000],
         testRuns |-> {r \in TestRuns : r.exit \in {0, 1} /\ r.counts.passed > 0},
         solveRuns |-> {r \in SolveRuns : r.exit = 0 /\ r.files = 3}]

Baked == [Good EXCEPT !.baked = "1",
                      !.testRuns = {r \in TestRuns : r.exit = 0 /\ r.wrote = None},
                      !.solveRuns = {r \in SolveRuns : r.exit = TimedOut}]

Broken == [Good EXCEPT !.files = @ \ {"Dockerfile"}, !.faults = {"toml-parses", "bash-n:solve.sh"}]

MCCheckout ==
    [v \in Validators |->
        (a :> (IF v = v2 THEN Baked ELSE Good)) @@ (b :> Broken)]

=============================================================================
