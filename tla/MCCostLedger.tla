---------------------------- MODULE MCCostLedger ----------------------------
(***************************************************************************)
(* Small instances of CostLedger: a budget for two holds, and runs that    *)
(* cost less than max_run_usd, or as much as the whole budget.             *)
(***************************************************************************)
EXTENDS CostLedger, TLC

CONSTANTS r1, r2, r3, r4, c1, c2

MCCosts == {1, 4}

\* Two runs follow each other in one process, beside a run of another process.
MCRuns == {r1, r2, r3}
MCConnOf == r1 :> c1 @@ r2 :> c1 @@ r3 :> c2

\* Two threads of one process beside two runs of another.
MCRunsShared == {r1, r2, r3, r4}
MCConnOfShared == r1 :> c1 @@ r2 :> c1 @@ r3 :> c2 @@ r4 :> c2
=============================================================================
