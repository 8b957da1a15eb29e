--------------------------- MODULE BudgetAdmission ---------------------------
(***************************************************************************)
(* What the cost gate of lottie promises, without the database: an agent's *)
(* run is admitted against the budget in one atomic decision, costs what   *)
(* it costs, and finishes once.  CostLedger, which models the statements   *)
(* that governance/cost.py and governance/audit.py send to SQLite, is      *)
(* shown to implement this specification.                                  *)
(***************************************************************************)
EXTENDS Integers, FiniteSets

CONSTANTS
    Runs,      \* identities of the runs of one agent
    Budget,    \* governance.cost.budget_usd, in units of money
    MaxRun,    \* governance.cost.max_run_usd: what one admission holds
    Costs      \* what a run may turn out to cost, above MaxRun included

ASSUME RunsAssumption   == IsFiniteSet(Runs)
ASSUME AmountAssumption == Budget \in Nat /\ MaxRun \in Nat \ {0}
ASSUME CostsAssumption  == Costs \subseteq Nat

VARIABLES
    mode,      \* "reserve": max_run_usd is set; "legacy": it is not;
               \* "closed": a budget is declared and auditing is disabled
    spent,     \* the cost committed to the audit ledger
    open,      \* runs admitted and not finished
    overran,   \* runs whose hold expired while they were still open
    excess     \* how far finished runs went above MaxRun, in total

absVars == <<mode, spent, open, overran, excess>>

Modes == {"reserve", "legacy", "closed"}

AdmissionTypeOK ==
    /\ mode \in Modes
    /\ spent \in Nat
    /\ open \subseteq Runs
    /\ overran \subseteq Runs
    /\ excess \in Nat

\* What a cost adds to `excess`.
Above(cost) == IF cost > MaxRun THEN cost - MaxRun ELSE 0

AdmissionInit ==
    /\ mode \in Modes
    /\ spent = 0
    /\ open = {}
    /\ overran = {}
    /\ excess = 0

\* Admit run r.  The holds of the runs in `swept` expire in the same decision.
Admit(r, swept) ==
    /\ r \notin open
    /\ swept \subseteq open
    /\ overran' = overran \cup swept
    /\ \/ /\ mode = "reserve"
          /\ r \notin overran
          /\ spent + MaxRun * Cardinality(open \ overran') + MaxRun <= Budget
       \/ /\ mode = "legacy"
          /\ swept = {}
          /\ spent < Budget
    /\ open' = open \cup {r}
    /\ UNCHANGED <<mode, spent, excess>>

\* A run ends and its cost reaches the ledger.
Finish(r, cost) ==
    /\ r \in open
    /\ open' = open \ {r}
    /\ spent' = spent + cost
    /\ excess' = excess + Above(cost)
    /\ UNCHANGED <<mode, overran>>

\* Runs end without a ledger row: their process died or the row was refused.
Abandon(gone) ==
    /\ gone \subseteq open
    /\ open' = open \ gone
    /\ UNCHANGED <<mode, spent, overran, excess>>

AdmissionNext ==
    \/ \E r \in Runs, swept \in SUBSET open : Admit(r, swept)
    \/ \E r \in Runs, cost \in Costs : Finish(r, cost)
    \/ \E gone \in SUBSET open : Abandon(gone)

AdmissionSpec == AdmissionInit /\ [][AdmissionNext]_absVars

-----------------------------------------------------------------------------
(***************************************************************************)
(* The budget holds for every open run at once: even if each of them were  *)
(* to cost all of max_run_usd, the ledger would end at most one MaxRun     *)
(* above the budget per run that outlived its hold, plus what finished     *)
(* runs cost above MaxRun (CostGate admits on max_run_usd and nothing      *)
(* enforces it on the run).                                                *)
(***************************************************************************)
BudgetRespected ==
    mode = "reserve" =>
        spent + MaxRun * Cardinality(open)
            <= Budget + MaxRun * Cardinality(overran) + excess
=============================================================================
