-------------------------- MODULE RunPipelineProofs --------------------------
(***************************************************************************)
(* Theorems about RunPipeline that hold for any runs, agents, contexts and *)
(* bounds, concurrent requests included: what the ledger, episodic memory  *)
(* and the session say of a run, and when; that the scopes a run opens are *)
(* its own and put back what its caller had; that nothing is left behind;  *)
(* where an agent object serves one run at a time, that a run counts,      *)
(* records and is told its own; and the type invariant.                    *)
(*                                                                         *)
(* A step changes what belongs to one run only (Others), so that each      *)
(* action is looked at for the run it belongs to (Own).                    *)
(***************************************************************************)
EXTENDS RunPipeline, TLAPS, FiniteSetTheorems

\* The shape of the state, without the contexts.
Shapes ==
    /\ pc \in [Runs -> Live \cup {"idle", "done"}]
    /\ entered \in [Runs -> SUBSET Modules]
    /\ exc \in [Runs -> {"none", "error", "exit"}]
    /\ acc \in [Runs -> Accs \cup {NoAcc}]
    /\ calls \in [Runs -> Nat]
    /\ active \in [Agents -> Accs \cup {NoAcc}]
    /\ metrics \in [Agents -> Metrics]
    /\ prefix \in [Agents -> Runs \cup {NoRun}]
    /\ usage \in [Accs -> Nat]
    /\ held \subseteq Runs
    /\ rows \in [Runs -> Seq(Row)]
    /\ root \in [Runs -> BOOLEAN]
    /\ unlogged \subseteq Runs
    /\ trajectory \in [Runs -> Metrics]
    /\ session \in [Runs -> Metrics]

Untouched(r) ==
    /\ calls[r] = 0
    /\ acc[r] = NoAcc
    /\ trajectory[r] = NoMetrics
    /\ session[r] = NoMetrics

NoRow(r) == rows[r] = <<>> /\ r \notin unlogged

\* One row with one of these statuses was written, or its write failed.
OneRow(r, kinds) ==
    \/ r \in unlogged /\ rows[r] = <<>>
    \/ r \notin unlogged /\ Len(rows[r]) = 1 /\ rows[r][1].status \in kinds

\* The modules a run is inside of are the outermost of those it mounts.
Outermost(r) ==
    /\ entered[r] \subseteq Mounted(r)
    /\ \A m \in entered[r], n \in Mounted(r) \ entered[r] : Order[m] <= Order[n]

BeforeCore(r) ==
    pc[r] \in {"idle", "pre"} =>
        /\ Untouched(r) /\ NoRow(r)
        /\ exc[r] = "none"
        /\ Outermost(r)
        /\ pc[r] = "idle" => entered[r] = {}

InCore(r) ==
    pc[r] \in {"core", "emit"} =>
        /\ acc[r] # NoAcc
        /\ entered[r] = Mounted(r)
        /\ NoRow(r)
        /\ pc[r] = "emit" => exc[r] # "exit"

AfterCore(r) ==
    pc[r] \in {"post", "reflect", "done"} /\ acc[r] # NoAcc =>
        (exc[r] = "exit" /\ NoRow(r)) \/ OneRow(r, {"ok", "error"})

\* A run that a gate refused is inside of the gates before the budget at most.
AfterRefusal(r) ==
    pc[r] \in {"post", "reflect", "done"} /\ acc[r] = NoAcc =>
        /\ Untouched(r)
        /\ entered[r] \subseteq {"security_input", "policy"}
        /\ NoRow(r) \/ OneRow(r, {"denied", "budget_exceeded"})

HeldInside(r) == "cost" \in entered[r] => r \in held

RunInv(r) ==
    BeforeCore(r) /\ InCore(r) /\ AfterCore(r) /\ AfterRefusal(r) /\ HeldInside(r)

PipeInv == Shapes /\ \A r \in Runs : RunInv(r)

\* Nothing that belongs to run q changes.
Same(q) ==
    /\ pc'[q] = pc[q] /\ entered'[q] = entered[q] /\ exc'[q] = exc[q]
    /\ acc'[q] = acc[q] /\ calls'[q] = calls[q]
    /\ rows'[q] = rows[q] /\ (q \in unlogged') = (q \in unlogged)
    /\ (q \in held') = (q \in held)
    /\ trajectory'[q] = trajectory[q] /\ session'[q] = session[q]

\* What run r does.
Step(r) == Start(r) \/ Pre(r) \/ Core(r) \/ Post(r)

USE RunAssumption
USE DEF runVars, ctxVars, agentVars, usageVars, ledgerVars, recordVars

-----------------------------------------------------------------------------

\* A step of run r leaves the other runs alone.
LEMMA Others ==
    ASSUME Shapes, NEW r \in Runs, NEW q \in Runs, q # r, Step(r)
    PROVE  Same(q)
<1> USE DEF Shapes
<1>1. CASE Start(r)
  BY <1>1 DEF Start, Same
<1>2. CASE RejectInput(r)
  BY <1>2 DEF RejectInput, Entering, Refuse, Same
<1>3. CASE Deny(r)
  BY <1>3 DEF Deny, Entering, Refuse, Log, Same
<1>4. CASE Reserve(r)
  BY <1>4 DEF Reserve, Entering, Enter, Same
<1>5. CASE OverBudget(r)
  BY <1>5 DEF OverBudget, Entering, Refuse, Log, Same
<1>6. CASE SetDepth(r)
  BY <1>6 DEF SetDepth, Entering, Enter, Same
<1>7. CASE LoadRecall(r)
  BY <1>7 DEF LoadRecall, Entering, Enter, Same
<1>8. CASE SetCapability(r)
  BY <1>8 DEF SetCapability, Entering, Enter, Same
<1>9. CASE StartCore(r)
  BY <1>9 DEF StartCore, Same
<1>10. CASE Call(r)
  BY <1>10 DEF Call, InControl, Accrue, Same
<1>11. CASE CoreRaises(r)
  BY <1>11 DEF CoreRaises, InControl, Same
<1>12. CASE CloseStream(r)
  BY <1>12 DEF CloseStream, InControl, Same
<1>13. CASE Interrupt(r)
  BY <1>13 DEF Interrupt, InControl, Same
<1>14. CASE WorkerRaised(r)
  BY <1>14 DEF WorkerRaised, Same
<1>15. CASE EndCore(r)
  BY <1>15 DEF EndCore, InControl, Same
<1>16. CASE Emit(r)
  BY <1>16 DEF Emit, Log, Same
<1>17. CASE ResetCapability(r)
  BY <1>17 DEF ResetCapability, Leaving, Leave, Same
<1>18. CASE Verify(r)
  BY <1>18 DEF Verify, Leaving, LeaveOrRaise, Same
<1>19. CASE CheckOutput(r)
  BY <1>19 DEF CheckOutput, Leaving, LeaveOrRaise, Same
<1>20. CASE SkipReflect(r)
  BY <1>20 DEF SkipReflect, Leaving, Leave, Same
<1>21. CASE ReflectCall(r)
  BY <1>21 DEF ReflectCall, Leaving, Same
<1>22. CASE ReflectEnds(r)
  BY <1>22 DEF ReflectEnds, Accrue, Same
<1>23. CASE ClearRecall(r)
  BY <1>23 DEF ClearRecall, Leaving, Leave, Same
<1>24. CASE ResetDepth(r)
  BY <1>24 DEF ResetDepth, Leaving, Leave, Same
<1>25. CASE PersistTrajectory(r)
  BY <1>25 DEF PersistTrajectory, Leaving, Leave,
      Same
<1>26. CASE RecordSession(r)
  BY <1>26 DEF RecordSession, Leaving, Leave, Same
<1>27. CASE Settle(r)
  BY <1>27 DEF Settle, Leaving, Leave, Same
<1>28. CASE Finish(r)
  BY <1>28 DEF Finish, Same
<1>29. ASSUME NEW m \in Modules, PassIn(r, m) PROVE Same(q)
  BY <1>29 DEF PassIn,
      Entering, Enter, Same
<1>30. ASSUME NEW m \in Modules, PassOut(r, m) PROVE Same(q)
  BY <1>30 DEF PassOut,
      Leaving, Leave, Same
<1> QED
  BY <1>1, <1>2, <1>3, <1>4, <1>5, <1>6, <1>7, <1>8, <1>9, <1>10, <1>11,
      <1>12, <1>13, <1>14, <1>15, <1>16, <1>17, <1>18, <1>19, <1>20, <1>21, <1>22,
      <1>23, <1>24, <1>25, <1>26, <1>27, <1>28, <1>29, <1>30
  DEF Step, Pre, Core, Post

\* What a run's invariant says depends on nothing but the run.
LEMMA SameInv ==
    ASSUME NEW q \in Runs, RunInv(q), Same(q)
    PROVE  RunInv(q)'
BY DEF Same, RunInv, BeforeCore, InCore, AfterCore, AfterRefusal, HeldInside, Untouched,
       NoRow, OneRow, Outermost

\* A gate that refuses stands outside of everything but the gates before it.
LEMMA OutsideGates ==
    ASSUME NEW r \in Runs, entered[r] \subseteq Modules, Outermost(r),
           NEW g \in {"security_input", "policy", "cost"}, Entering(r, g)
    PROVE  entered[r] \subseteq {"security_input", "policy"}
<1>1. ASSUME NEW m \in entered[r] PROVE m \in {"security_input", "policy"}
  <2>1. Order[m] <= Order[g] /\ m # g /\ m \in Modules
    BY <1>1 DEF Outermost, Entering
  <2>2. /\ Order["session"] = 34 /\ Order["trajectory"] = 36 /\ Order["depth"] = 40
        /\ Order["recall"] = 60 /\ Order["reflect"] = 70 /\ Order["verify"] = 80
        /\ Order["security_output"] = 75 /\ Order["capability"] = 90
        /\ Order["security_input"] = 10 /\ Order["policy"] = 20 /\ Order["cost"] = 30
    BY DEF Order
  <2> QED BY <2>1, <2>2 DEF Modules
<1> QED BY <1>1

\* The first write of a run's row.
LEMMA FirstRow ==
    ASSUME NEW r \in Runs, rows \in [Runs -> Seq(Row)], NoRow(r), NEW kinds,
           NEW status \in kinds, NEW isRoot, NEW cost, Log(r, status, isRoot, cost)
    PROVE  OneRow(r, kinds)'
<1> DEFINE row == [status |-> status, root |-> isRoot, cost |-> cost]
<1>1. CASE rows' = [rows EXCEPT ![r] = Append(@, row)] /\ unlogged' = unlogged
  <2>1. rows'[r] = Append(<<>>, row)
    BY <1>1 DEF NoRow
  <2>2. Len(rows'[r]) = 1 /\ rows'[r][1] = row
    BY <2>1
  <2>3. row.status = status
    OBVIOUS
  <2>4. rows'[r][1].status \in kinds
    BY <2>2, <2>3
  <2> QED BY <1>1, <2>2, <2>4 DEF NoRow, OneRow
<1>2. CASE unlogged' = unlogged \cup {r} /\ rows' = rows
  BY <1>2 DEF NoRow, OneRow
<1> QED BY <1>1, <1>2 DEF Log

\* A step of run r keeps its own invariant.
LEMMA Own ==
    ASSUME PipeInv, NEW r \in Runs, Step(r)
    PROVE  RunInv(r)'
<1> USE DEF PipeInv, Shapes
<1>1. CASE Start(r)
  BY <1>1 DEF Start, RunInv, BeforeCore, InCore, AfterCore,
      AfterRefusal, HeldInside, Untouched, NoRow, OneRow, Outermost
<1>2. CASE RejectInput(r)
  <2>1. entered[r] \subseteq {"security_input", "policy"}
    BY <1>2, OutsideGates DEF RejectInput, RunInv, BeforeCore, Entering
  <2> QED BY <1>2, <2>1 DEF RejectInput, Entering, Refuse, RunInv, BeforeCore, InCore,
      AfterCore, AfterRefusal, HeldInside, Untouched, NoRow
<1>3. CASE Deny(r)
  <2>1. entered[r] \subseteq {"security_input", "policy"}
    BY <1>3, OutsideGates DEF Deny, RunInv, BeforeCore, Entering
  <2>2. Untouched(r) /\ NoRow(r) /\ pc[r] = "pre"
    BY <1>3 DEF Deny, RunInv, BeforeCore, Entering
  <2>3. OneRow(r, {"denied", "budget_exceeded"})'
    BY <1>3, <2>2, FirstRow DEF Deny
  <2>4. Untouched(r)' /\ entered'[r] = entered[r] /\ pc'[r] = "post" /\ acc'[r] = NoAcc
    BY <1>3, <2>2 DEF Deny, Refuse, Untouched
  <2>5. AfterRefusal(r)'
    <3>1. entered'[r] \subseteq {"security_input", "policy"}
      BY <2>1, <2>4
    <3> QED BY <3>1, <2>3, <2>4 DEF AfterRefusal
  <2>6. HeldInside(r)'
    <3>1. "cost" \notin entered[r]
      BY <2>1
    <3> QED BY <3>1, <2>4 DEF HeldInside
  <2>7. BeforeCore(r)' /\ InCore(r)' /\ AfterCore(r)'
    BY <2>4 DEF BeforeCore, InCore, AfterCore
  <2> QED BY <2>5, <2>6, <2>7 DEF RunInv
<1>4. CASE Reserve(r)
  BY <1>4 DEF Reserve, Entering, Enter, RunInv, BeforeCore,
      InCore, AfterCore, AfterRefusal, HeldInside, Untouched, NoRow, OneRow,
      Outermost
<1>5. CASE OverBudget(r)
  <2>1. entered[r] \subseteq {"security_input", "policy"}
    BY <1>5, OutsideGates DEF OverBudget, RunInv, BeforeCore, Entering
  <2>2. Untouched(r) /\ NoRow(r) /\ pc[r] = "pre"
    BY <1>5 DEF OverBudget, RunInv, BeforeCore, Entering
  <2>3. OneRow(r, {"denied", "budget_exceeded"})'
    BY <1>5, <2>2, FirstRow DEF OverBudget
  <2>4. Untouched(r)' /\ entered'[r] = entered[r] /\ pc'[r] = "post" /\ acc'[r] = NoAcc
    BY <1>5, <2>2 DEF OverBudget, Refuse, Untouched
  <2>5. AfterRefusal(r)'
    <3>1. entered'[r] \subseteq {"security_input", "policy"}
      BY <2>1, <2>4
    <3> QED BY <3>1, <2>3, <2>4 DEF AfterRefusal
  <2>6. HeldInside(r)'
    <3>1. "cost" \notin entered[r]
      BY <2>1
    <3> QED BY <3>1, <2>4 DEF HeldInside
  <2>7. BeforeCore(r)' /\ InCore(r)' /\ AfterCore(r)'
    BY <2>4 DEF BeforeCore, InCore, AfterCore
  <2> QED BY <2>5, <2>6, <2>7 DEF RunInv
<1>6. CASE SetDepth(r)
  BY <1>6 DEF SetDepth, Entering, Enter, RunInv, BeforeCore,
      InCore, AfterCore, AfterRefusal, HeldInside, Untouched, NoRow, OneRow,
      Outermost
<1>7. CASE LoadRecall(r)
  BY <1>7 DEF LoadRecall, Entering, Enter, RunInv,
      BeforeCore, InCore, AfterCore, AfterRefusal, HeldInside, Untouched, NoRow,
      OneRow, Outermost
<1>8. CASE SetCapability(r)
  BY <1>8 DEF SetCapability, Entering, Enter, RunInv,
      BeforeCore, InCore, AfterCore, AfterRefusal, HeldInside, Untouched, NoRow,
      OneRow, Outermost
<1>9. CASE StartCore(r)
  <2>1. acc'[r] # NoAcc
    BY <1>9 DEF StartCore, NoAcc
  <2>2. pc'[r] = "core" /\ entered'[r] = Mounted(r) /\ NoRow(r)' /\ HeldInside(r)'
    BY <1>9 DEF StartCore, RunInv, BeforeCore, NoRow, HeldInside
  <2> QED BY <2>1, <2>2 DEF RunInv, BeforeCore, InCore, AfterCore, AfterRefusal
<1>10. CASE Call(r)
  BY <1>10 DEF Call, InControl, Accrue, RunInv, BeforeCore,
      InCore, AfterCore, AfterRefusal, HeldInside, Untouched, NoRow, OneRow,
      Outermost
<1>11. CASE CoreRaises(r)
  BY <1>11 DEF CoreRaises, InControl, RunInv, BeforeCore,
      InCore, AfterCore, AfterRefusal, HeldInside, Untouched, NoRow, OneRow,
      Outermost
<1>12. CASE CloseStream(r)
  BY <1>12 DEF CloseStream, InControl, RunInv,
      BeforeCore, InCore, AfterCore, AfterRefusal, HeldInside, Untouched, NoRow,
      OneRow, Outermost
<1>13. CASE Interrupt(r)
  BY <1>13 DEF Interrupt, InControl, RunInv, BeforeCore,
      InCore, AfterCore, AfterRefusal, HeldInside, Untouched, NoRow, OneRow,
      Outermost
<1>14. CASE WorkerRaised(r)
  BY <1>14 DEF WorkerRaised, RunInv, BeforeCore, InCore,
      AfterCore, AfterRefusal, HeldInside, Untouched, NoRow, OneRow, Outermost
<1>15. CASE EndCore(r)
  BY <1>15 DEF EndCore, InControl, RunInv, BeforeCore,
      InCore, AfterCore, AfterRefusal, HeldInside, Untouched, NoRow, OneRow,
      Outermost
<1>16. CASE Emit(r)
  <2>1. NoRow(r) /\ acc[r] # NoAcc /\ HeldInside(r)
    BY <1>16 DEF Emit, RunInv, InCore
  <2>2. OneRow(r, {"ok", "error"})'
    BY <1>16, <2>1, FirstRow DEF Emit
  <2>3. pc'[r] = "post" /\ acc'[r] # NoAcc /\ HeldInside(r)'
    BY <1>16, <2>1 DEF Emit, HeldInside
  <2> QED BY <2>2, <2>3 DEF RunInv, BeforeCore, InCore, AfterCore, AfterRefusal
<1>17. CASE ResetCapability(r)
  BY <1>17 DEF ResetCapability, Leaving, Leave,
      RunInv, BeforeCore, InCore, AfterCore, AfterRefusal, HeldInside, Untouched,
      NoRow, OneRow, Outermost
<1>18. CASE Verify(r)
  BY <1>18 DEF Verify, Leaving, LeaveOrRaise, RunInv,
      BeforeCore, InCore, AfterCore, AfterRefusal, HeldInside, Untouched, NoRow,
      OneRow, Outermost
<1>19. CASE CheckOutput(r)
  BY <1>19 DEF CheckOutput, Leaving, LeaveOrRaise,
      RunInv, BeforeCore, InCore, AfterCore, AfterRefusal, HeldInside, Untouched,
      NoRow, OneRow, Outermost
<1>20. CASE SkipReflect(r)
  BY <1>20 DEF SkipReflect, Leaving, Leave, RunInv,
      BeforeCore, InCore, AfterCore, AfterRefusal, HeldInside, Untouched, NoRow,
      OneRow, Outermost
<1>21. CASE ReflectCall(r)
  BY <1>21 DEF ReflectCall, Leaving, RunInv, BeforeCore,
      InCore, AfterCore, AfterRefusal, HeldInside, Untouched, NoRow, OneRow,
      Outermost
<1>22. CASE ReflectEnds(r)
  BY <1>22 DEF ReflectEnds, Accrue, RunInv, BeforeCore,
      InCore, AfterCore, AfterRefusal, HeldInside, Untouched, NoRow, OneRow,
      Outermost
<1>23. CASE ClearRecall(r)
  BY <1>23 DEF ClearRecall, Leaving, Leave, RunInv,
      BeforeCore, InCore, AfterCore, AfterRefusal, HeldInside, Untouched, NoRow,
      OneRow, Outermost
<1>24. CASE ResetDepth(r)
  BY <1>24 DEF ResetDepth, Leaving, Leave, RunInv,
      BeforeCore, InCore, AfterCore, AfterRefusal, HeldInside, Untouched, NoRow,
      OneRow, Outermost
<1>25. CASE PersistTrajectory(r)
  <2>1. /\ pc[r] = "post" /\ pc' = pc /\ exc' = exc /\ "trajectory" \in entered[r]
        /\ entered'[r] = entered[r] \ {"trajectory"}
        /\ UNCHANGED <<usageVars, ledgerVars>>
    BY <1>25 DEF PersistTrajectory, Leaving, Leave
  <2>2. acc[r] # NoAcc
    BY <2>1 DEF RunInv, AfterRefusal
  <2>3. AfterCore(r)' /\ HeldInside(r)'
    BY <2>1, <2>2 DEF RunInv, AfterCore, HeldInside, NoRow, OneRow
  <2>4. BeforeCore(r)' /\ InCore(r)' /\ AfterRefusal(r)'
    BY <2>1, <2>2 DEF BeforeCore, InCore, AfterRefusal
  <2> QED BY <2>3, <2>4 DEF RunInv
<1>26. CASE RecordSession(r)
  <2>1. /\ pc[r] = "post" /\ pc' = pc /\ exc' = exc /\ "session" \in entered[r]
        /\ entered'[r] = entered[r] \ {"session"}
        /\ UNCHANGED <<usageVars, ledgerVars>>
    BY <1>26 DEF RecordSession, Leaving, Leave
  <2>2. acc[r] # NoAcc
    BY <2>1 DEF RunInv, AfterRefusal
  <2>3. AfterCore(r)' /\ HeldInside(r)'
    BY <2>1, <2>2 DEF RunInv, AfterCore, HeldInside, NoRow, OneRow
  <2>4. BeforeCore(r)' /\ InCore(r)' /\ AfterRefusal(r)'
    BY <2>1, <2>2 DEF BeforeCore, InCore, AfterRefusal
  <2> QED BY <2>3, <2>4 DEF RunInv
<1>27. CASE Settle(r)
  BY <1>27 DEF Settle, Leaving, Leave, RunInv, BeforeCore,
      InCore, AfterCore, AfterRefusal, HeldInside, Untouched, NoRow, OneRow,
      Outermost
<1>28. CASE Finish(r)
  BY <1>28 DEF Finish, RunInv, BeforeCore, InCore, AfterCore,
      AfterRefusal, HeldInside, Untouched, NoRow, OneRow, Outermost
<1>29. ASSUME NEW m \in Modules, PassIn(r, m) PROVE RunInv(r)'
  BY <1>29 DEF
      PassIn, Entering, Enter, RunInv, BeforeCore, InCore, AfterCore, AfterRefusal,
      HeldInside, Untouched, NoRow, OneRow, Outermost
<1>30. ASSUME NEW m \in Modules, PassOut(r, m) PROVE RunInv(r)'
  BY <1>30 DEF
      PassOut, Leaving, Leave, RunInv, BeforeCore, InCore, AfterCore, AfterRefusal,
      HeldInside, Untouched, NoRow, OneRow, Outermost
<1> QED
  BY <1>1, <1>2, <1>3, <1>4, <1>5, <1>6, <1>7, <1>8, <1>9, <1>10, <1>11,
      <1>12, <1>13, <1>14, <1>15, <1>16, <1>17, <1>18, <1>19, <1>20, <1>21, <1>22,
      <1>23, <1>24, <1>25, <1>26, <1>27, <1>28, <1>29, <1>30
  DEF Step, Pre, Core, Post

\* A row that is written is well formed.
LEMMA LogShape ==
    ASSUME NEW r \in Runs, rows \in [Runs -> Seq(Row)], unlogged \subseteq Runs,
           NEW status \in {"ok", "error", "denied", "budget_exceeded"},
           NEW isRoot \in BOOLEAN, NEW cost \in Nat, Log(r, status, isRoot, cost)
    PROVE  rows' \in [Runs -> Seq(Row)] /\ unlogged' \subseteq Runs
<1> DEFINE row == [status |-> status, root |-> isRoot, cost |-> cost]
<1>1. row \in Row
  BY DEF Row
<1>2. CASE rows' = [rows EXCEPT ![r] = Append(@, row)] /\ unlogged' = unlogged
  <2> HIDE DEF row
  <2>1. Append(rows[r], row) \in Seq(Row)
    BY <1>1
  <2> QED BY <1>2, <2>1
<1>3. CASE unlogged' = unlogged \cup {r} /\ rows' = rows
  BY <1>3
<1> QED BY <1>2, <1>3 DEF Log

\* A step keeps the shape of the state.
LEMMA ShapesStep ==
    ASSUME PipeInv, NEW r \in Runs, Step(r)
    PROVE  Shapes'
<1> USE DEF PipeInv, Shapes, Agent
<1>1. CASE Start(r)
  BY <1>1 DEF Start, Live, Accs
<1>2. CASE RejectInput(r)
  BY <1>2 DEF RejectInput, Entering, Refuse, Live
<1>3. CASE Deny(r)
  <2>1. rows' \in [Runs -> Seq(Row)] /\ unlogged' \subseteq Runs
    BY <1>3, LogShape DEF Deny
  <2>2. pc' \in [Runs -> Live \cup {"idle", "done"}] /\ exc' \in [Runs -> {"none", "error", "exit"}]
    BY <1>3 DEF Deny, Refuse, Live
  <2>3. UNCHANGED <<entered, held, ctxVars, agentVars, usageVars, recordVars>>
    BY <1>3 DEF Deny, Refuse
  <2> QED BY <2>1, <2>2, <2>3
<1>4. CASE Reserve(r)
  <2>1. entered' \in [Runs -> SUBSET Modules]
    BY <1>4 DEF Reserve, Enter, Modules
  <2> QED BY <1>4, <2>1 DEF Reserve, Enter
<1>5. CASE OverBudget(r)
  <2>1. rows' \in [Runs -> Seq(Row)] /\ unlogged' \subseteq Runs
    BY <1>5, LogShape DEF OverBudget
  <2>2. pc' \in [Runs -> Live \cup {"idle", "done"}] /\ exc' \in [Runs -> {"none", "error", "exit"}]
    BY <1>5 DEF OverBudget, Refuse, Live
  <2>3. UNCHANGED <<entered, held, ctxVars, agentVars, usageVars, recordVars>>
    BY <1>5 DEF OverBudget, Refuse
  <2> QED BY <2>1, <2>2, <2>3
<1>6. CASE SetDepth(r)
  <2>1. root' \in [Runs -> BOOLEAN]
    BY <1>6 DEF SetDepth
  <2>2. entered' \in [Runs -> SUBSET Modules]
    BY <1>6 DEF SetDepth, Enter, Modules
  <2> QED BY <1>6, <2>1, <2>2 DEF SetDepth, Enter
<1>7. CASE LoadRecall(r)
  <2>1. PICK loaded \in {r, NoRun} : prefix' = [prefix EXCEPT ![AgentOf[r]] = loaded]
    BY <1>7 DEF LoadRecall
  <2>2. prefix' \in [Agents -> Runs \cup {NoRun}]
    BY <2>1
  <2>3. entered' \in [Runs -> SUBSET Modules]
    BY <1>7 DEF LoadRecall, Enter, Modules
  <2>4. /\ UNCHANGED <<pc, exc, active, metrics>>
        /\ UNCHANGED <<ctxVars, usageVars, ledgerVars, recordVars>>
    BY <1>7 DEF LoadRecall, Enter
  <2> QED BY <2>2, <2>3, <2>4
<1>8. CASE SetCapability(r)
  <2>1. entered' \in [Runs -> SUBSET Modules]
    BY <1>8 DEF SetCapability, Enter, Modules
  <2> QED BY <1>8, <2>1 DEF SetCapability, Enter
<1>9. CASE StartCore(r)
  BY <1>9 DEF StartCore, Live, Accs
<1>10. CASE Call(r)
  BY <1>10 DEF Call, InControl, Accrue, Live
<1>11. CASE CoreRaises(r)
  BY <1>11 DEF CoreRaises, InControl, Live
<1>12. CASE CloseStream(r)
  BY <1>12 DEF CloseStream, InControl, Live
<1>13. CASE Interrupt(r)
  BY <1>13 DEF Interrupt, InControl, Live
<1>14. CASE WorkerRaised(r)
  <2>1. PICK w \in Workers(r) : exc' = [exc EXCEPT ![r] = exc[w]]
    BY <1>14 DEF WorkerRaised
  <2>2. exc[w] \in {"none", "error", "exit"}
    BY DEF Workers
  <2>3. exc' \in [Runs -> {"none", "error", "exit"}]
    BY <2>1, <2>2
  <2> QED BY <1>14, <2>3 DEF WorkerRaised
<1>15. CASE EndCore(r)
  <2>1. acc[r] \in Accs
    BY <1>15 DEF EndCore, InControl, RunInv, InCore
  <2>2. [run |-> r, usage |-> usage[acc[r]], ok |-> exc[r] # "error"] \in Metrics
    BY <2>1 DEF Metrics
  <2> QED BY <1>15, <2>2 DEF EndCore, Live
<1>16. CASE Emit(r)
  <2>1. usage[<<r, "pipeline">>] \in Nat
    BY DEF Accs
  <2>2. rows' \in [Runs -> Seq(Row)] /\ unlogged' \subseteq Runs
    <3> DEFINE row == [status |-> IF exc[r] = "none" THEN "ok" ELSE "error",
                       root |-> root[r], cost |-> usage[<<r, "pipeline">>]]
    <3>1. row \in Row
      BY <2>1 DEF Row
    <3>2. CASE rows' = [rows EXCEPT ![r] = Append(@, row)] /\ unlogged' = unlogged
      <4> HIDE DEF row
      <4>1. Append(rows[r], row) \in Seq(Row)
        BY <3>1
      <4> QED BY <3>2, <4>1
    <3>3. CASE unlogged' = unlogged \cup {r} /\ rows' = rows
      BY <3>3
    <3> QED BY <1>16, <3>2, <3>3 DEF Emit, Log
  <2>3. pc' \in [Runs -> Live \cup {"idle", "done"}]
    BY <1>16 DEF Emit, Live
  <2> QED BY <1>16, <2>2, <2>3 DEF Emit
<1>17. CASE ResetCapability(r)
  BY <1>17 DEF ResetCapability, Leaving, Leave, Live
<1>18. CASE Verify(r)
  <2>1. entered' \in [Runs -> SUBSET Modules]
    BY <1>18 DEF Verify, LeaveOrRaise
  <2>2. exc' \in [Runs -> {"none", "error", "exit"}]
    BY <1>18 DEF Verify, LeaveOrRaise
  <2> QED BY <1>18, <2>1, <2>2 DEF Verify, LeaveOrRaise
<1>19. CASE CheckOutput(r)
  <2>1. entered' \in [Runs -> SUBSET Modules]
    BY <1>19 DEF CheckOutput, LeaveOrRaise
  <2>2. exc' \in [Runs -> {"none", "error", "exit"}]
    BY <1>19 DEF CheckOutput, LeaveOrRaise
  <2> QED BY <1>19, <2>1, <2>2 DEF CheckOutput, LeaveOrRaise
<1>20. CASE SkipReflect(r)
  BY <1>20 DEF SkipReflect, Leaving, Leave, Live
<1>21. CASE ReflectCall(r)
  BY <1>21 DEF ReflectCall, Leaving, Live, Accs, Metrics
<1>22. CASE ReflectEnds(r)
  BY <1>22 DEF ReflectEnds, Accrue, Live
<1>23. CASE ClearRecall(r)
  BY <1>23 DEF ClearRecall, Leaving, Leave, Live
<1>24. CASE ResetDepth(r)
  BY <1>24 DEF ResetDepth, Leaving, Leave, Live
<1>25. CASE PersistTrajectory(r)
  <2>1. trajectory' \in [Runs -> Metrics]
    BY <1>25 DEF PersistTrajectory
  <2>2. entered' \in [Runs -> SUBSET Modules]
    BY <1>25 DEF PersistTrajectory, Leave
  <2> QED BY <1>25, <2>1, <2>2 DEF PersistTrajectory, Leave
<1>26. CASE RecordSession(r)
  <2>1. session' \in [Runs -> Metrics]
    BY <1>26 DEF RecordSession
  <2>2. entered' \in [Runs -> SUBSET Modules]
    BY <1>26 DEF RecordSession, Leave
  <2> QED BY <1>26, <2>1, <2>2 DEF RecordSession, Leave
<1>27. CASE Settle(r)
  BY <1>27 DEF Settle, Leaving, Leave, Live
<1>28. CASE Finish(r)
  BY <1>28 DEF Finish, Live
<1>29. ASSUME NEW m \in Modules, PassIn(r, m) PROVE Shapes'
  BY <1>29 DEF PassIn,
      Entering, Enter, Live
<1>30. ASSUME NEW m \in Modules, PassOut(r, m) PROVE Shapes'
  BY <1>30 DEF PassOut,
      Leaving, Leave, Live
<1> QED
  BY <1>1, <1>2, <1>3, <1>4, <1>5, <1>6, <1>7, <1>8, <1>9, <1>10, <1>11,
      <1>12, <1>13, <1>14, <1>15, <1>16, <1>17, <1>18, <1>19, <1>20, <1>21, <1>22,
      <1>23, <1>24, <1>25, <1>26, <1>27, <1>28, <1>29, <1>30
  DEF Step, Pre, Core, Post

-----------------------------------------------------------------------------

LEMMA PipeInit == Init => PipeInv
<1> SUFFICES ASSUME Init PROVE PipeInv
  OBVIOUS
<1>1. NoMetrics \in Metrics
  BY DEF NoMetrics, Metrics
<1>2. rows \in [Runs -> Seq(Row)]
  BY DEF Init
<1>3. Shapes
  BY <1>1, <1>2 DEF Init, Shapes
<1>4. ASSUME NEW r \in Runs PROVE RunInv(r)
  BY DEF Init, RunInv, BeforeCore, InCore, AfterCore, AfterRefusal, HeldInside, Untouched,
         NoRow, Outermost
<1> QED BY <1>3, <1>4 DEF PipeInv

LEMMA PipeStep == PipeInv /\ [Next]_vars => PipeInv'
<1> SUFFICES ASSUME PipeInv, [Next]_vars PROVE PipeInv'
  OBVIOUS
<1>1. ASSUME NEW r \in Runs, Step(r) PROVE PipeInv'
  <2>1. ASSUME NEW q \in Runs PROVE RunInv(q)'
    <3>1. CASE q = r
      BY <1>1, <3>1, Own
    <3>2. CASE q # r
      BY <1>1, <3>2, Others, SameInv DEF PipeInv
    <3> QED BY <3>1, <3>2
  <2> QED BY <1>1, <2>1, ShapesStep DEF PipeInv
<1>2. CASE UNCHANGED vars
  <2>1. Shapes'
    BY <1>2 DEF PipeInv, Shapes, vars
  <2>2. ASSUME NEW q \in Runs PROVE RunInv(q)'
    <3>1. Same(q)
      BY <1>2 DEF Same, vars
    <3> QED BY <3>1, SameInv DEF PipeInv
  <2> QED BY <2>1, <2>2 DEF PipeInv
<1> QED BY <1>1, <1>2 DEF Next, Quiet, Step

LEMMA Invariance == Spec => []PipeInv
BY PipeInit, PipeStep, PTL DEF Spec

-----------------------------------------------------------------------------

LEMMA InvOneRow == PipeInv => OneRowPerRun
<1> SUFFICES ASSUME PipeInv, NEW r \in Runs
    PROVE  /\ Len(rows[r]) <= IF r \in unlogged THEN 0 ELSE 1
           /\ Said(r, {"ok", "error"}) => ReachedCore(r)
           /\ Said(r, {"denied", "budget_exceeded"}) => ~ReachedCore(r)
           /\ Done(r) /\ ReachedCore(r) /\ exc[r] # "exit" /\ r \notin unlogged
                  => Said(r, {"ok", "error"})
  BY DEF OneRowPerRun
<1>1. RunInv(r) /\ rows[r] \in Seq(Row)
  BY DEF PipeInv, Shapes
<1>2. pc[r] \in {"idle", "pre", "core", "emit", "post", "reflect", "done"}
  BY DEF PipeInv, Shapes, Live
<1>3. CASE NoRow(r) /\ (Done(r) /\ ReachedCore(r) => exc[r] = "exit")
  BY <1>3 DEF NoRow, Said
<1>4. CASE OneRow(r, {"ok", "error"}) /\ ReachedCore(r)
  <2>1. CASE r \in unlogged /\ rows[r] = <<>>
    BY <1>4, <2>1 DEF Said
  <2>2. CASE r \notin unlogged /\ Len(rows[r]) = 1 /\ rows[r][1].status \in {"ok", "error"}
    <3>1. DOMAIN rows[r] = {1}
      BY <1>1, <2>2
    <3>2. Said(r, {"ok", "error"})
      BY <2>2, <3>1 DEF Said
    <3>3. ~Said(r, {"denied", "budget_exceeded"})
      BY <2>2, <3>1 DEF Said
    <3> QED BY <1>4, <2>2, <3>2, <3>3
  <2> QED BY <1>4, <2>1, <2>2 DEF OneRow
<1>5. CASE OneRow(r, {"denied", "budget_exceeded"}) /\ ~ReachedCore(r)
  <2>1. CASE r \in unlogged /\ rows[r] = <<>>
    BY <1>5, <2>1 DEF Said
  <2>2. CASE r \notin unlogged /\ Len(rows[r]) = 1 /\ rows[r][1].status \in {"denied", "budget_exceeded"}
    <3>1. DOMAIN rows[r] = {1}
      BY <1>1, <2>2
    <3>2. Said(r, {"denied", "budget_exceeded"})
      BY <2>2, <3>1 DEF Said
    <3>3. ~Said(r, {"ok", "error"})
      BY <2>2, <3>1 DEF Said
    <3> QED BY <1>5, <2>2, <3>2, <3>3
  <2> QED BY <1>5, <2>1, <2>2 DEF OneRow
<1> QED
  BY <1>1, <1>2, <1>3, <1>4, <1>5
  DEF RunInv, BeforeCore, InCore, AfterCore, AfterRefusal, ReachedCore, Done

LEMMA InvSpend == PipeInv => SpendCovered
<1> SUFFICES ASSUME PipeInv, NEW r \in Runs, calls[r] > 0, "cost" \in Mounted(r)
    PROVE  r \in held \/ rows[r] # <<>> \/ r \in unlogged \/ exc[r] = "exit"
  BY DEF SpendCovered
<1>1. RunInv(r)
  BY DEF PipeInv
<1>2. pc[r] \in {"idle", "pre", "core", "emit", "post", "reflect", "done"}
  BY DEF PipeInv, Shapes, Live
<1>3. ~Untouched(r)
  BY DEF Untouched
<1>4. CASE pc[r] \in {"core", "emit"}
  BY <1>1, <1>4 DEF RunInv, InCore, HeldInside
<1>5. CASE pc[r] \in {"post", "reflect", "done"}
  <2>1. exc[r] = "exit" \/ OneRow(r, {"ok", "error"})
    BY <1>1, <1>3, <1>5 DEF RunInv, AfterCore, AfterRefusal
  <2> QED BY <2>1 DEF OneRow
<1> QED BY <1>1, <1>2, <1>3, <1>4, <1>5 DEF RunInv, BeforeCore

LEMMA InvRefused == PipeInv => RefusedLeavesNothing
<1> SUFFICES ASSUME PipeInv, NEW r \in Runs, acc[r] = NoAcc PROVE Untouched(r)
  BY DEF RefusedLeavesNothing, ReachedCore, Untouched
<1>1. RunInv(r)
  BY DEF PipeInv
<1>2. pc[r] \in {"idle", "pre", "core", "emit", "post", "reflect", "done"}
  BY DEF PipeInv, Shapes, Live
<1> QED BY <1>1, <1>2 DEF RunInv, BeforeCore, InCore, AfterRefusal

\* Whatever runs are in flight, and however they fail, the ledger has exactly one
\* row of a run that reached its core, "ok" or "error" (none only after a failed
\* write or an interrupt), and at most one of a run that a gate refused.
THEOREM RowsOnce == Spec => []OneRowPerRun
BY Invariance, InvOneRow, PTL

\* What any run has spent is covered at all times by its reservation or by its
\* row: CostMiddleware settles after the audit row is written.
THEOREM SpendAlwaysCovered == Spec => []SpendCovered
BY Invariance, InvSpend, PTL

\* A run that a gate refused never writes to episodic memory or the session,
\* whatever another run of its agent left in last_metrics.
THEOREM RefusedRecordsNothing == Spec => []RefusedLeavesNothing
BY Invariance, InvRefused, PTL

-----------------------------------------------------------------------------
(* The scopes: capability gate and audit depth *)

Up(r) == pc[r] \in Live

\* What the context of a run holds while the run has control: the run's own scopes on
\* top of its caller's.
CallersDepth(r) ==
    IF TopLevel(r) \/ "depth" \notin Mounted(ParentOf[r]) THEN 0 ELSE 1
GateOf(r)  == IF "capability" \in entered[r] THEN Agent(r) ELSE CallersGate(r)
DepthOf(r) == CallersDepth(r) + IF "depth" \in entered[r] THEN 1 ELSE 0

HasControl(r) == Up(r) /\ \A w \in LiveWorkers(r) : Forked(w)
Sees(r) == HasControl(r) =>
    gate[ContextOf[r]] = GateOf(r) /\ depth[ContextOf[r]] = DepthOf(r)

\* A context that no run is in has no scopes,
Free(r) ==
    TopLevel(r) /\ (\A q \in Runs : ContextOf[q] = ContextOf[r] => ~Up(q)) =>
        gate[ContextOf[r]] = NoAgent /\ depth[ContextOf[r]] = 0
\* and what a scope restores is its caller's.
Restores(r) ==
    /\ "capability" \in entered[r] => token[r].gate = CallersGate(r)
    /\ "depth" \in entered[r] =>
          token[r].depth = CallersDepth(r) /\ (root[r] <=> CallersDepth(r) = 0)

\* A worker is called by a core that waits for it, and two live runs share a context
\* only as caller and worker.
Nested(r) == Up(r) /\ ~TopLevel(r) =>
    pc[ParentOf[r]] = "core" /\ exc[ParentOf[r]] = "none"
Alone(q, r) == Up(q) /\ Up(r) /\ q # r =>
    /\ ContextOf[q] = ContextOf[r] => ParentOf[q] = r \/ ParentOf[r] = q
    /\ ~TopLevel(q) /\ ParentOf[q] = ParentOf[r] => Forked(q) /\ Forked(r)

ScopeShapes ==
    /\ gate \in [Contexts -> Agents \cup {NoAgent}] /\ depth \in [Contexts -> Nat]
    /\ token \in [Runs -> [depth : Nat, gate : Agents \cup {NoAgent}]]

ScopeInv ==
    /\ ScopeShapes
    /\ \A r \in Runs : Sees(r) /\ Free(r) /\ Restores(r) /\ Nested(r)
    /\ \A q, r \in Runs : Alone(q, r)

\* A step of a run that leaves the scopes alone.
Plain(r) ==
    /\ Up(r) /\ Up(r)' /\ UNCHANGED <<gate, depth, token, root>>
    /\ "capability" \in entered'[r] <=> "capability" \in entered[r]
    /\ "depth" \in entered'[r] <=> "depth" \in entered[r]
    /\ \/ pc'[r] = pc[r] /\ exc'[r] = exc[r]
       \/ pc[r] # "core" \/ exc[r] # "none" \/ LiveWorkers(r) = {}

LEMMA Kinds ==
    ASSUME PipeInv, NEW r \in Runs, Step(r)
    PROVE  \/ Start(r) \/ Finish(r) \/ Plain(r)
           \/ SetDepth(r) \/ SetCapability(r) \/ ResetDepth(r) \/ ResetCapability(r)
<1> USE DEF PipeInv, Shapes, Up, Live, Plain
<1>1. CASE RejectInput(r)
  BY <1>1 DEF RejectInput, Entering, Refuse
<1>2. CASE Deny(r)
  BY <1>2 DEF Deny, Entering, Refuse
<1>3. CASE Reserve(r)
  BY <1>3 DEF Reserve, Entering, Enter
<1>4. CASE OverBudget(r)
  BY <1>4 DEF OverBudget, Entering, Refuse
<1>5. CASE LoadRecall(r)
  BY <1>5 DEF LoadRecall, Entering, Enter
<1>6. CASE StartCore(r)
  BY <1>6 DEF StartCore
<1>7. CASE Call(r)
  BY <1>7 DEF Call, InControl
<1>8. CASE CoreRaises(r)
  BY <1>8 DEF CoreRaises, InControl
<1>9. CASE CloseStream(r)
  BY <1>9 DEF CloseStream, InControl
<1>10. CASE Interrupt(r)
  BY <1>10 DEF Interrupt, InControl
<1>11. CASE WorkerRaised(r)
  BY <1>11 DEF WorkerRaised
<1>12. CASE EndCore(r)
  BY <1>12 DEF EndCore, InControl
<1>13. CASE Emit(r)
  BY <1>13 DEF Emit
<1>14. CASE Verify(r)
  BY <1>14 DEF Verify, Leaving, LeaveOrRaise
<1>15. CASE CheckOutput(r)
  BY <1>15 DEF CheckOutput, Leaving, LeaveOrRaise
<1>16. CASE SkipReflect(r)
  BY <1>16 DEF SkipReflect, Leaving, Leave
<1>17. CASE ReflectCall(r)
  BY <1>17 DEF ReflectCall, Leaving
<1>18. CASE ReflectEnds(r)
  BY <1>18 DEF ReflectEnds
<1>19. CASE ClearRecall(r)
  BY <1>19 DEF ClearRecall, Leaving, Leave
<1>20. CASE PersistTrajectory(r)
  BY <1>20 DEF PersistTrajectory, Leaving, Leave
<1>21. CASE RecordSession(r)
  BY <1>21 DEF RecordSession, Leaving, Leave
<1>22. CASE Settle(r)
  BY <1>22 DEF Settle, Leaving, Leave
<1>23. ASSUME NEW m \in Modules, PassIn(r, m) PROVE Plain(r)
  BY <1>23 DEF PassIn, Entering, Enter
<1>24. ASSUME NEW m \in Modules, PassOut(r, m) PROVE Plain(r)
  BY <1>24 DEF PassOut, Leaving, Leave
<1>. QED
  BY <1>1, <1>2, <1>3, <1>4, <1>5, <1>6, <1>7, <1>8, <1>9, <1>10, <1>11, <1>12, <1>13,
      <1>14, <1>15, <1>16, <1>17, <1>18, <1>19, <1>20, <1>21, <1>22, <1>23, <1>24
  DEF Step, Pre, Core, Post

LEMMA InitScopes == Init => ScopeInv
BY DEF Init, ScopeInv, ScopeShapes, Sees, HasControl, Free, Restores, Nested, Alone, Up, Live

LEMMA NoWorkers ==
    ASSUME ScopeInv, NEW r \in Runs, pc[r] # "core" \/ exc[r] # "none"
    PROVE  LiveWorkers(r) = {}
BY DEF ScopeInv, Nested, LiveWorkers, Workers, TopLevel, Up

\* The values that a context should hold depend on the run inside of it alone.
LEMMA SameValues ==
    ASSUME NEW q \in Runs,
           "capability" \in entered'[q] <=> "capability" \in entered[q],
           "depth" \in entered'[q] <=> "depth" \in entered[q]
    PROVE  GateOf(q)' = GateOf(q) /\ DepthOf(q)' = DepthOf(q)
BY DEF GateOf, DepthOf, CallersGate, CallersDepth, TopLevel, Mounted, Agent

LEMMA PlainScopes ==
    ASSUME ScopeInv, NEW r \in Runs, Plain(r), \A q \in Runs \ {r} : Same(q)
    PROVE  ScopeInv'
<1>1. ASSUME NEW q \in Runs
      PROVE  /\ Up(q)' <=> Up(q)
             /\ "capability" \in entered'[q] <=> "capability" \in entered[q]
             /\ "depth" \in entered'[q] <=> "depth" \in entered[q]
  BY DEF Plain, Same, Up
<1>2. ASSUME NEW q \in Runs PROVE HasControl(q)' <=> HasControl(q)
  BY <1>1 DEF HasControl, LiveWorkers, Workers, Up, Forked, TopLevel
<1>3. ASSUME NEW q \in Runs PROVE Sees(q)'
  <2>1. GateOf(q)' = GateOf(q) /\ DepthOf(q)' = DepthOf(q)
    BY <1>1, SameValues
  <2>. QED BY <1>2, <2>1 DEF ScopeInv, Sees, Plain
<1>4. ASSUME NEW q \in Runs PROVE Free(q)' /\ Restores(q)'
  <2>1. Free(q)'
    BY <1>1 DEF ScopeInv, Free, Plain, TopLevel
  <2>2. Restores(q)'
    BY <1>1 DEF ScopeInv, Restores, Plain, CallersGate, CallersDepth, TopLevel, Mounted
  <2>. QED BY <2>1, <2>2
<1>5. ASSUME NEW q \in Runs PROVE Nested(q)'
  <2>. SUFFICES ASSUME Up(q), ~TopLevel(q)
                PROVE  pc'[ParentOf[q]] = "core" /\ exc'[ParentOf[q]] = "none"
    BY <1>1 DEF Nested, TopLevel
  <2>1. pc[ParentOf[q]] = "core" /\ exc[ParentOf[q]] = "none" /\ ParentOf[q] \in Runs
    BY DEF ScopeInv, Nested, TopLevel
  <2>2. CASE ParentOf[q] = r
    <3>1. q \in LiveWorkers(r)
      BY <2>2 DEF LiveWorkers, Workers, Up
    <3>. QED BY <2>1, <2>2, <3>1 DEF Plain
  <2>3. CASE ParentOf[q] # r
    BY <2>1, <2>3 DEF Same
  <2>. QED BY <2>2, <2>3
<1>6. ASSUME NEW q \in Runs, NEW p \in Runs PROVE Alone(q, p)'
  BY <1>1 DEF ScopeInv, Alone, TopLevel, Forked
<1>7. ScopeShapes'
  BY DEF ScopeInv, ScopeShapes, Plain
<1>. QED BY <1>3, <1>4, <1>5, <1>6, <1>7 DEF ScopeInv

\* A run that is alone in its context changes the context's scopes, with its own.
LEMMA OwnScope ==
    ASSUME ScopeInv, NEW r \in Runs, pc[r] \in {"pre", "post"}, ScopeShapes',
           \A q \in Runs \ {r} : Same(q) /\ token'[q] = token[q] /\ root'[q] = root[q],
           UNCHANGED <<pc, exc>>,
           \A c \in Contexts \ {ContextOf[r]} : gate'[c] = gate[c] /\ depth'[c] = depth[c],
           gate'[ContextOf[r]] = GateOf(r)', depth'[ContextOf[r]] = DepthOf(r)',
           Restores(r)'
    PROVE  ScopeInv'
<1>1. ASSUME NEW q \in Runs PROVE (Up(q)' <=> Up(q)) /\ (HasControl(q)' <=> HasControl(q))
  BY DEF Up, HasControl, LiveWorkers, Workers, Forked, TopLevel
<1>2. ASSUME NEW q \in Runs, HasControl(q), ContextOf[q] = ContextOf[r] PROVE q = r
  <2>. SUFFICES ASSUME q # r PROVE FALSE
    OBVIOUS
  <2>0. Up(r) /\ Up(q)
    BY <1>2 DEF Up, Live, HasControl
  <2>1. ParentOf[q] = r \/ ParentOf[r] = q
    BY <1>2, <2>0 DEF ScopeInv, Alone
  <2>2. CASE ParentOf[q] = r
    <3>1. q \in LiveWorkers(r)
      BY <2>0, <2>2 DEF LiveWorkers, Workers, Up
    <3>. QED BY <3>1, NoWorkers
  <2>3. CASE ParentOf[r] = q
    <3>1. r \in LiveWorkers(q)
      BY <2>0, <2>3 DEF LiveWorkers, Workers, Up
    <3>2. ~Forked(r)
      BY <1>2, <2>3 DEF Forked
    <3>. QED BY <1>2, <3>1, <3>2 DEF HasControl
  <2>. QED BY <2>1, <2>2, <2>3
<1>3. ASSUME NEW q \in Runs PROVE Sees(q)'
  <2>. SUFFICES ASSUME HasControl(q)
                PROVE  /\ gate'[ContextOf[q]] = GateOf(q)'
                       /\ depth'[ContextOf[q]] = DepthOf(q)'
    BY <1>1 DEF Sees
  <2>1. CASE q = r
    BY <2>1
  <2>2. CASE q # r
    <3>1. ContextOf[q] \in Contexts \ {ContextOf[r]}
      BY <1>2, <2>2
    <3>2. GateOf(q)' = GateOf(q) /\ DepthOf(q)' = DepthOf(q)
      BY <2>2, SameValues DEF Same
    <3>. QED BY <3>1, <3>2 DEF ScopeInv, Sees
  <2>. QED BY <2>1, <2>2
<1>4. ASSUME NEW q \in Runs PROVE Free(q)'
  <2>1. Up(r)
    BY DEF Up, Live
  <2>. QED BY <1>1, <2>1 DEF ScopeInv, Free, TopLevel
<1>5. ASSUME NEW q \in Runs PROVE Restores(q)'
  BY DEF ScopeInv, Restores, Same, CallersGate, CallersDepth, TopLevel, Mounted
<1>6. ASSUME NEW q \in Runs PROVE Nested(q)'
  BY <1>1 DEF ScopeInv, Nested, TopLevel
<1>7. ASSUME NEW q \in Runs, NEW p \in Runs PROVE Alone(q, p)'
  BY <1>1 DEF ScopeInv, Alone, TopLevel, Forked
<1>. QED BY <1>3, <1>4, <1>5, <1>6, <1>7 DEF ScopeInv

\* A run before or behind its core has control.
LEMMA Controls ==
    ASSUME ScopeInv, NEW r \in Runs, pc[r] \in {"pre", "post"}
    PROVE  gate[ContextOf[r]] = GateOf(r) /\ depth[ContextOf[r]] = DepthOf(r)
<1>1. LiveWorkers(r) = {}
  BY NoWorkers
<1>. QED BY <1>1 DEF ScopeInv, Sees, HasControl, Up, Live

LEMMA SetScopes ==
    ASSUME PipeInv, ScopeInv, NEW r \in Runs, SetCapability(r) \/ SetDepth(r),
           \A q \in Runs \ {r} : Same(q)
    PROVE  ScopeInv'
<1> DEFINE c == ContextOf[r]
<1>1. /\ pc[r] = "pre" /\ UNCHANGED <<pc, exc>> /\ c \in Contexts
      /\ root \in [Runs -> BOOLEAN] /\ entered \in [Runs -> SUBSET Modules]
  BY DEF SetCapability, SetDepth, Entering, Enter, PipeInv, Shapes
<1>2. /\ gate[c] = GateOf(r) /\ depth[c] = DepthOf(r)
      /\ gate[c] \in Agents \cup {NoAgent} /\ depth[c] \in Nat
      /\ token[r] \in [depth : Nat, gate : Agents \cup {NoAgent}]
  BY <1>1, Controls DEF ScopeInv, ScopeShapes
<1>3. CASE SetCapability(r)
  <2>1. /\ entered'[r] = entered[r] \cup {"capability"} /\ "capability" \notin entered[r]
        /\ token' = [token EXCEPT ![r].gate = gate[c]]
        /\ gate' = [gate EXCEPT ![c] = AgentOf[r]] /\ UNCHANGED <<root, depth>>
    BY <1>1, <1>3 DEF SetCapability, Entering, Enter, Context, Agent
  <2>2. /\ token'[r].gate = gate[c] /\ token'[r].depth = token[r].depth
        /\ token'[r] \in [depth : Nat, gate : Agents \cup {NoAgent}]
        /\ \A q \in Runs \ {r} : token'[q] = token[q]
    BY <1>2, <2>1 DEF ScopeInv, ScopeShapes
  <2>3. ScopeShapes'
    BY <1>2, <2>1, <2>2 DEF ScopeInv, ScopeShapes
  <2>4. gate[c] = CallersGate(r)
    BY <1>2, <2>1 DEF GateOf
  <2>5. Restores(r)'
    BY <2>1, <2>2, <2>4 DEF ScopeInv, Restores, CallersGate, CallersDepth, TopLevel, Mounted
  <2>6. gate'[c] = GateOf(r)' /\ depth'[c] = DepthOf(r)'
    BY <1>1, <1>2, <2>1
       DEF ScopeInv, ScopeShapes, GateOf, DepthOf, CallersDepth, TopLevel, Mounted, Agent
  <2>. QED BY <1>1, <2>1, <2>2, <2>3, <2>5, <2>6, OwnScope DEF ScopeInv, ScopeShapes
<1>4. CASE SetDepth(r)
  <2>1. /\ entered'[r] = entered[r] \cup {"depth"} /\ "depth" \notin entered[r]
        /\ token' = [token EXCEPT ![r].depth = depth[c]]
        /\ depth' = [depth EXCEPT ![c] = @ + 1] /\ UNCHANGED gate
        /\ root' = [root EXCEPT ![r] = depth[c] + 1 = 1]
    BY <1>1, <1>4 DEF SetDepth, Entering, Enter, Context
  <2>2. /\ token'[r].depth = depth[c] /\ token'[r].gate = token[r].gate
        /\ token'[r] \in [depth : Nat, gate : Agents \cup {NoAgent}]
        /\ \A q \in Runs \ {r} : token'[q] = token[q]
    BY <1>2, <2>1 DEF ScopeInv, ScopeShapes
  <2>3. ScopeShapes'
    BY <1>2, <2>1, <2>2 DEF ScopeInv, ScopeShapes
  <2>4. depth[c] = CallersDepth(r)
    BY <1>2, <2>1 DEF DepthOf, CallersDepth
  <2>5. /\ root'[r] <=> CallersDepth(r) = 0
        /\ \A q \in Runs \ {r} : root'[q] = root[q]
    <3>1. depth[c] + 1 = 1 <=> CallersDepth(r) = 0
      BY <1>2, <2>4
    <3> DEFINE outermost == depth[c] + 1 = 1
    <3> HIDE DEF outermost
    <3>2. root' = [root EXCEPT ![r] = outermost] /\ root \in [Runs -> BOOLEAN]
      BY <1>1, <2>1 DEF outermost
    <3>3. root'[r] = outermost
      BY <3>2, Zenon
    <3>4. \A q \in Runs \ {r} : root'[q] = root[q]
      BY <3>2, Zenon
    <3>. QED BY <3>1, <3>3, <3>4, Zenon DEF outermost
  <2>6. Restores(r)'
    BY <2>1, <2>2, <2>4, <2>5 DEF ScopeInv, Restores, CallersGate, CallersDepth, TopLevel,
                                   Mounted
  <2>7. gate'[c] = GateOf(r)' /\ depth'[c] = DepthOf(r)'
    BY <1>1, <1>2, <2>1, <2>4
       DEF ScopeInv, ScopeShapes, GateOf, DepthOf, CallersDepth, CallersGate, TopLevel,
           Mounted, Agent
  <2>. QED BY <1>1, <2>1, <2>2, <2>3, <2>5, <2>6, <2>7, OwnScope DEF ScopeInv, ScopeShapes
<1>. QED BY <1>3, <1>4

LEMMA ResetScopes ==
    ASSUME PipeInv, ScopeInv, NEW r \in Runs, ResetCapability(r) \/ ResetDepth(r),
           \A q \in Runs \ {r} : Same(q)
    PROVE  ScopeInv'
<1> DEFINE c == ContextOf[r]
<1>1. /\ pc[r] = "post" /\ UNCHANGED <<pc, exc, token, root>> /\ c \in Contexts
      /\ entered \in [Runs -> SUBSET Modules]
  BY DEF ResetCapability, ResetDepth, Leaving, Leave, PipeInv, Shapes
<1>2. /\ gate[c] = GateOf(r) /\ depth[c] = DepthOf(r)
      /\ token[r] \in [depth : Nat, gate : Agents \cup {NoAgent}]
  BY <1>1, Controls DEF ScopeInv, ScopeShapes
<1>3. CASE ResetCapability(r)
  <2>1. /\ entered'[r] = entered[r] \ {"capability"} /\ "capability" \in entered[r]
        /\ gate' = [gate EXCEPT ![c] = token[r].gate] /\ UNCHANGED depth
    BY <1>1, <1>3 DEF ResetCapability, Leaving, Leave, Context
  <2>2. token[r].gate = CallersGate(r)
    BY <2>1 DEF ScopeInv, Restores
  <2>3. ScopeShapes'
    BY <1>1, <1>2, <2>1 DEF ScopeInv, ScopeShapes
  <2>4. Restores(r)'
    BY <1>1, <2>1 DEF ScopeInv, Restores, CallersGate, CallersDepth, TopLevel, Mounted
  <2>5. gate'[c] = GateOf(r)' /\ depth'[c] = DepthOf(r)'
    BY <1>1, <1>2, <2>1, <2>2
       DEF ScopeInv, ScopeShapes, GateOf, DepthOf, CallersDepth, CallersGate, TopLevel,
           Mounted, Agent
  <2>. QED BY <1>1, <2>1, <2>3, <2>4, <2>5, OwnScope DEF ScopeInv, ScopeShapes
<1>4. CASE ResetDepth(r)
  <2>1. /\ entered'[r] = entered[r] \ {"depth"} /\ "depth" \in entered[r]
        /\ depth' = [depth EXCEPT ![c] = token[r].depth] /\ UNCHANGED gate
    BY <1>1, <1>4 DEF ResetDepth, Leaving, Leave, Context
  <2>2. token[r].depth = CallersDepth(r)
    BY <2>1 DEF ScopeInv, Restores
  <2>3. ScopeShapes'
    BY <1>1, <1>2, <2>1 DEF ScopeInv, ScopeShapes
  <2>4. Restores(r)'
    BY <1>1, <2>1 DEF ScopeInv, Restores, CallersGate, CallersDepth, TopLevel, Mounted
  <2>5. gate'[c] = GateOf(r)' /\ depth'[c] = DepthOf(r)'
    BY <1>1, <1>2, <2>1, <2>2
       DEF ScopeInv, ScopeShapes, GateOf, DepthOf, CallersDepth, CallersGate, TopLevel,
           Mounted, Agent
  <2>. QED BY <1>1, <2>1, <2>3, <2>4, <2>5, OwnScope DEF ScopeInv, ScopeShapes
<1>. QED BY <1>3, <1>4

\* What the core of its caller holds is what a worker finds and leaves.
LEMMA CallersValues ==
    ASSUME PipeInv, NEW r \in Runs, ~TopLevel(r), pc[ParentOf[r]] = "core"
    PROVE  /\ ParentOf[r] \in Runs /\ TopLevel(ParentOf[r])
           /\ GateOf(ParentOf[r]) = CallersGate(r)
           /\ DepthOf(ParentOf[r]) = CallersDepth(r)
<1>1. ParentOf[r] \in Runs /\ TopLevel(ParentOf[r])
  BY NestingAssumption DEF TopLevel
<1>2. entered[ParentOf[r]] = Mounted(ParentOf[r])
  BY <1>1 DEF PipeInv, RunInv, InCore
<1>. QED BY <1>1, <1>2 DEF GateOf, DepthOf, CallersGate, CallersDepth, Agent

LEMMA StartScopes ==
    ASSUME PipeInv, ScopeInv, NEW r \in Runs, Start(r)
    PROVE  ScopeInv'
<1>1. /\ pc[r] = "idle" /\ pc' = [pc EXCEPT ![r] = "pre"] /\ MayStart(r)
      /\ UNCHANGED <<entered, exc, root, token>>
      /\ pc \in [Runs -> Live \cup {"idle", "done"}]
  BY DEF Start, PipeInv, Shapes
<1>2. entered[r] = {} /\ ~Up(r)
  BY <1>1 DEF PipeInv, RunInv, BeforeCore, Up, Live
<1>3. ASSUME NEW q \in Runs PROVE Up(q)' <=> Up(q) \/ q = r
  BY <1>1 DEF Up, Live
<1>4. ASSUME NEW q \in Runs, q # r, HasControl(q)' PROVE HasControl(q)
  BY <1>3, <1>4 DEF HasControl, LiveWorkers, Workers, Up, Forked, TopLevel
<1>5. ASSUME NEW q \in Runs
      PROVE  GateOf(q)' = GateOf(q) /\ DepthOf(q)' = DepthOf(q) /\ Restores(q)'
  <2>1. GateOf(q)' = GateOf(q) /\ DepthOf(q)' = DepthOf(q)
    BY <1>1, SameValues
  <2>2. Restores(q)'
    BY <1>1 DEF ScopeInv, Restores, CallersGate, CallersDepth, TopLevel, Mounted
  <2>. QED BY <2>1, <2>2
<1>6. GateOf(r) = CallersGate(r) /\ DepthOf(r) = CallersDepth(r)
  BY <1>2 DEF GateOf, DepthOf, CallersDepth
<1>7. CASE TopLevel(r)
  <2>1. /\ UNCHANGED <<gate, depth>>
        /\ \A q \in Runs : ContextOf[q] = ContextOf[r] => ~Up(q)
    BY <1>1, <1>7 DEF Start, Forked, MayStart, Up
  <2>2. gate[ContextOf[r]] = CallersGate(r) /\ depth[ContextOf[r]] = CallersDepth(r)
    BY <1>7, <2>1 DEF ScopeInv, Free, CallersGate, CallersDepth
  <2>3. ASSUME NEW q \in Runs PROVE Sees(q)'
    BY <1>4, <1>5, <1>6, <2>1, <2>2 DEF ScopeInv, Sees
  <2>4. ASSUME NEW q \in Runs PROVE Free(q)'
    BY <1>3, <2>1 DEF ScopeInv, Free, TopLevel
  <2>5. ASSUME NEW q \in Runs PROVE Nested(q)'
    BY <1>1, <1>3, <1>7 DEF ScopeInv, Nested, TopLevel
  <2>6. ASSUME NEW q \in Runs, NEW p \in Runs PROVE Alone(q, p)'
    <3>. SUFFICES ASSUME Up(q)', Up(p)', q # p
                  PROVE  /\ ContextOf[q] = ContextOf[p] => ParentOf[q] = p \/ ParentOf[p] = q
                         /\ ~TopLevel(q) /\ ParentOf[q] = ParentOf[p]
                               => Forked(q) /\ Forked(p)
      BY DEF Alone, TopLevel, Forked
    <3>1. CASE Up(q) /\ Up(p)
      BY <3>1 DEF ScopeInv, Alone
    <3>2. CASE q = r \/ p = r
      <4>1. ContextOf[q] # ContextOf[p]
        BY <1>3, <2>1, <3>2
      <4>2. TopLevel(q) \/ ParentOf[q] # ParentOf[p]
        BY <1>7, <3>2 DEF TopLevel
      <4>. QED BY <4>1, <4>2
    <3>. QED BY <1>3, <3>1, <3>2
  <2>7. ScopeShapes'
    BY <1>1, <2>1 DEF ScopeInv, ScopeShapes
  <2>. QED BY <1>5, <2>3, <2>4, <2>5, <2>6, <2>7 DEF ScopeInv
<1>8. CASE ~TopLevel(r)
  <2> DEFINE p == ParentOf[r]
  <2>1. /\ pc[p] = "core" /\ exc[p] = "none"
        /\ LiveWorkers(p) = {} \/ (Forked(r) /\ \A w \in LiveWorkers(p) : Forked(w))
    BY <1>1, <1>8 DEF MayStart, InControl
  <2>2. /\ p \in Runs /\ TopLevel(p) /\ p # r
        /\ GateOf(p) = CallersGate(r) /\ DepthOf(p) = CallersDepth(r)
    BY <1>1, <1>8, <2>1, CallersValues
  <2>3. HasControl(p) /\ Up(p)
    BY <2>1 DEF HasControl, Up, Live
  <2>4. gate[ContextOf[p]] = CallersGate(r) /\ depth[ContextOf[p]] = CallersDepth(r)
    BY <2>2, <2>3 DEF ScopeInv, Sees
  <2>5. \/ /\ Forked(r)
           /\ gate' = [gate EXCEPT ![ContextOf[r]] = gate[ContextOf[p]]]
           /\ depth' = [depth EXCEPT ![ContextOf[r]] = depth[ContextOf[p]]]
        \/ ~Forked(r) /\ ContextOf[r] = ContextOf[p] /\ UNCHANGED <<gate, depth>>
    BY <1>8 DEF Start, Forked, Context
  <2>6. Forked(r) => \A q \in Runs \ {r} : ContextOf[q] # ContextOf[r]
    BY NestingAssumption
  <2>7. /\ ScopeShapes'
        /\ gate'[ContextOf[r]] = CallersGate(r) /\ depth'[ContextOf[r]] = CallersDepth(r)
        /\ \A q \in Runs \ {r} : gate'[ContextOf[q]] = gate[ContextOf[q]]
                               /\ depth'[ContextOf[q]] = depth[ContextOf[q]]
    BY <1>1, <2>2, <2>4, <2>5, <2>6 DEF ScopeInv, ScopeShapes
  <2> HIDE DEF p
  <2>8. ASSUME NEW q \in Runs PROVE Sees(q)'
    BY <1>4, <1>5, <1>6, <2>7 DEF ScopeInv, Sees
  <2>9. ASSUME NEW q \in Runs PROVE Free(q)'
    BY <1>3, <1>8, <2>7 DEF ScopeInv, Free, TopLevel
  <2>10. ASSUME NEW q \in Runs PROVE Nested(q)'
    BY <1>1, <1>3, <2>1, <2>2 DEF ScopeInv, Nested, TopLevel, p
  <2>11. ASSUME NEW q \in Runs, Up(q)
         PROVE  /\ ContextOf[q] = ContextOf[r] => q = p
                /\ ParentOf[q] = p => Forked(q) /\ Forked(r)
    <3>1. ParentOf[q] = p => q \in LiveWorkers(p)
      BY <2>11 DEF LiveWorkers, Workers, Up
    <3>2. ASSUME ContextOf[q] = ContextOf[r], q # p PROVE FALSE
      <4>1. q # r /\ ~Forked(r) /\ ContextOf[q] = ContextOf[p] /\ LiveWorkers(p) = {}
        BY <1>2, <2>1, <2>5, <2>6, <2>11, <3>2
      <4>2. ParentOf[q] = p \/ ParentOf[p] = q
        BY <2>2, <2>3, <2>11, <3>2, <4>1 DEF ScopeInv, Alone
      <4>. QED BY <2>2, <3>1, <4>1, <4>2 DEF TopLevel
    <3>. QED BY <2>1, <3>1, <3>2
  <2>12. ASSUME NEW q \in Runs, NEW s \in Runs PROVE Alone(q, s)'
    <3>. SUFFICES ASSUME Up(q)', Up(s)', q # s
                  PROVE  /\ ContextOf[q] = ContextOf[s] => ParentOf[q] = s \/ ParentOf[s] = q
                         /\ ~TopLevel(q) /\ ParentOf[q] = ParentOf[s]
                               => Forked(q) /\ Forked(s)
      BY DEF Alone, TopLevel, Forked
    <3>1. CASE Up(q) /\ Up(s)
      BY <3>1 DEF ScopeInv, Alone
    <3>2. CASE q = r /\ Up(s)
      BY <2>11, <3>2 DEF p
    <3>3. CASE s = r /\ Up(q)
      BY <2>11, <3>3 DEF p
    <3>. QED BY <1>3, <3>1, <3>2, <3>3
  <2>. QED BY <1>5, <2>7, <2>8, <2>9, <2>10, <2>12 DEF ScopeInv
<1>. QED BY <1>7, <1>8

LEMMA FinishScopes ==
    ASSUME PipeInv, ScopeInv, NEW r \in Runs, Finish(r)
    PROVE  ScopeInv'
<1>1. /\ pc[r] = "post" /\ entered[r] = {} /\ pc' = [pc EXCEPT ![r] = "done"]
      /\ UNCHANGED <<entered, exc, gate, depth, token, root>>
      /\ pc \in [Runs -> Live \cup {"idle", "done"}]
  BY DEF Finish, PipeInv, Shapes
<1>2. ASSUME NEW q \in Runs PROVE Up(q)' <=> Up(q) /\ q # r
  BY <1>1 DEF Up, Live
<1>3. /\ gate[ContextOf[r]] = CallersGate(r) /\ depth[ContextOf[r]] = CallersDepth(r)
      /\ Up(r)
  <2>1. gate[ContextOf[r]] = GateOf(r) /\ depth[ContextOf[r]] = DepthOf(r)
    BY <1>1, Controls
  <2>. QED BY <1>1, <2>1 DEF GateOf, DepthOf, CallersDepth, Up, Live
<1>4. ~TopLevel(r) =>
        /\ Up(ParentOf[r])
        /\ GateOf(ParentOf[r]) = CallersGate(r) /\ DepthOf(ParentOf[r]) = CallersDepth(r)
  BY <1>3, CallersValues DEF ScopeInv, Nested, Up, Live
<1>5. ASSUME NEW q \in Runs PROVE Sees(q)'
  <2>1. GateOf(q)' = GateOf(q) /\ DepthOf(q)' = DepthOf(q)
    BY <1>1, SameValues
  <2>2. CASE HasControl(q)
    BY <1>1, <2>1, <2>2 DEF ScopeInv, Sees
  <2>3. CASE ~HasControl(q) /\ HasControl(q)'
    <3>1. r \in LiveWorkers(q) /\ ~Forked(r)
      BY <1>2, <2>3 DEF HasControl, LiveWorkers, Workers, Up, Forked, TopLevel
    <3>2. ParentOf[r] = q /\ ~TopLevel(r) /\ ContextOf[r] = ContextOf[q]
      BY <3>1 DEF LiveWorkers, Workers, TopLevel, Forked
    <3>. QED BY <1>1, <1>3, <1>4, <2>1, <3>2 DEF Sees
  <2>. QED BY <2>2, <2>3 DEF Sees
<1>6. ASSUME NEW q \in Runs PROVE Free(q)'
  <2>. SUFFICES ASSUME TopLevel(q), \A s \in Runs : ContextOf[s] = ContextOf[q] => ~Up(s)'
                PROVE  gate[ContextOf[q]] = NoAgent /\ depth[ContextOf[q]] = 0
    BY <1>1 DEF Free, TopLevel
  <2>1. CASE ContextOf[r] # ContextOf[q]
    BY <1>2, <2>1 DEF ScopeInv, Free
  <2>2. CASE ContextOf[r] = ContextOf[q] /\ TopLevel(r)
    BY <1>3, <2>2 DEF CallersGate, CallersDepth
  <2>3. CASE ContextOf[r] = ContextOf[q] /\ ~TopLevel(r)
    <3>1. ~Forked(r)
      BY <2>3, NestingAssumption
    <3>2. ContextOf[ParentOf[r]] = ContextOf[r] /\ ParentOf[r] \in Runs /\ ParentOf[r] # r
      BY <2>3, <3>1, NestingAssumption DEF Forked, TopLevel
    <3>. QED BY <1>2, <1>4, <2>3, <3>2
  <2>. QED BY <2>1, <2>2, <2>3
<1>7. ASSUME NEW q \in Runs PROVE Nested(q)' /\ Restores(q)'
  <2>1. Nested(q)'
    BY <1>1, <1>2 DEF ScopeInv, Nested, TopLevel
  <2>2. Restores(q)'
    BY <1>1 DEF ScopeInv, Restores, CallersGate, CallersDepth, TopLevel, Mounted
  <2>. QED BY <2>1, <2>2
<1>8. ASSUME NEW q \in Runs, NEW p \in Runs PROVE Alone(q, p)'
  BY <1>2 DEF ScopeInv, Alone, TopLevel, Forked
<1>9. ScopeShapes'
  BY <1>1 DEF ScopeInv, ScopeShapes
<1>. QED BY <1>5, <1>6, <1>7, <1>8, <1>9 DEF ScopeInv

LEMMA StepScopes == PipeInv /\ ScopeInv /\ [Next]_vars => ScopeInv'
<1> SUFFICES ASSUME PipeInv, ScopeInv, [Next]_vars PROVE ScopeInv'
  OBVIOUS
<1>1. ASSUME NEW r \in Runs, Step(r) PROVE ScopeInv'
  <2>1. \A q \in Runs \ {r} : Same(q)
    BY <1>1, Others DEF PipeInv
  <2>. QED BY <1>1, <2>1, Kinds, StartScopes, FinishScopes, PlainScopes, SetScopes, ResetScopes
<1>2. CASE UNCHANGED vars
  BY <1>2 DEF vars, ScopeInv, ScopeShapes, Sees, HasControl, LiveWorkers, Workers, Up, Free,
              Restores, Nested, Alone, GateOf, DepthOf, CallersGate, CallersDepth, TopLevel,
              Forked, Mounted, Agent
<1>. QED BY <1>1, <1>2 DEF Next, Quiet, Step

\* The flag of the first row that is written.
LEMMA FirstRoot ==
    ASSUME NEW r \in Runs, rows \in [Runs -> Seq(Row)], NoRow(r), NEW status,
           NEW isRoot, NEW cost, Log(r, status, isRoot, cost)
    PROVE  \A i \in DOMAIN rows'[r] : rows'[r][i].root = isRoot
<1> DEFINE row == [status |-> status, root |-> isRoot, cost |-> cost]
<1>1. CASE rows' = [rows EXCEPT ![r] = Append(@, row)]
  <2>1. rows'[r] = Append(<<>>, row)
    BY <1>1 DEF NoRow
  <2>2. DOMAIN rows'[r] = {1} /\ rows'[r][1] = row
    BY <2>1
  <2>3. row.root = isRoot
    OBVIOUS
  <2>4. \A i \in DOMAIN rows'[r] : rows'[r][i] = row
    BY <2>2
  <2> HIDE DEF row
  <2>. QED BY <2>3, <2>4
<1>2. CASE rows' = rows
  BY <1>2 DEF NoRow
<1>. QED BY <1>1, <1>2 DEF Log

\* The run and its caller mount the depth scope.
Counted(r) == \A q \in {r, ParentOf[r]} \ {NoRun} : "depth" \in Mounted(q)

LEMMA RootIsTop ==
    ASSUME NEW r \in Runs, Counted(r)
    PROVE  (CallersDepth(r) = 0) = TopLevel(r)
BY DEF Counted, CallersDepth, TopLevel

\* A row is written by a gate that refuses, or by the end of the core.
LEMMA Writers ==
    ASSUME NEW r \in Runs, Step(r)
    PROVE  Deny(r) \/ OverBudget(r) \/ Emit(r) \/ UNCHANGED rows
BY DEF Step, Start, Pre, Core, Post, PassIn, RejectInput, Reserve, SetDepth, LoadRecall,
       SetCapability, StartCore, Call, CoreRaises, CloseStream, Interrupt, WorkerRaised,
       EndCore, ResetCapability, Verify, CheckOutput, SkipReflect, ReflectCall, ReflectEnds,
       ClearRecall, ResetDepth, PersistTrajectory, RecordSession, Settle, PassOut, Finish

LEMMA StepRoots ==
    ASSUME PipeInv, ScopeInv, RootFlagTrue, NEW r \in Runs, Step(r)
    PROVE  RootFlagTrue'
<1>0. rows \in [Runs -> Seq(Row)] /\ RunInv(r)
  BY DEF PipeInv, Shapes
<1>1. ASSUME NEW q \in Runs, q # r PROVE rows'[q] = rows[q]
  BY <1>1, Others DEF PipeInv, Same
<1>2. ASSUME Counted(r), NEW i \in DOMAIN rows'[r] PROVE rows'[r][i].root = TopLevel(r)
  <2>1. CASE UNCHANGED rows
    BY <1>2, <2>1 DEF RootFlagTrue, Counted
  <2>2. ASSUME NEW g \in {"policy", "cost"}, Entering(r, g), NEW status, NEW cost,
               Log(r, status, depth[Context(r)] = 0, cost)
        PROVE  rows'[r][i].root = TopLevel(r)
    <3>1. pc[r] = "pre" /\ NoRow(r) /\ Outermost(r) /\ entered[r] \subseteq Modules
      BY <1>0, <2>2 DEF Entering, RunInv, BeforeCore, PipeInv, Shapes
    <3>2. "depth" \notin entered[r]
      BY <2>2, <3>1, OutsideGates
    <3>3. depth[ContextOf[r]] = CallersDepth(r)
      BY <3>1, <3>2, Controls DEF DepthOf, CallersDepth
    <3>4. rows'[r][i].root = (depth[ContextOf[r]] = 0)
      <4> DEFINE flag == depth[Context(r)] = 0
      <4>1. Log(r, status, flag, cost)
        BY <2>2
      <4> HIDE DEF flag
      <4>2. rows'[r][i].root = flag
        BY <1>0, <1>2, <3>1, <4>1, FirstRoot
      <4>. QED BY <4>2, Zenon DEF flag, Context
    <3>. QED BY <1>2, <3>3, <3>4, RootIsTop
  <2>3. CASE Emit(r)
    <3>1. pc[r] = "emit" /\ NoRow(r) /\ entered[r] = Mounted(r)
      BY <1>0, <2>3 DEF Emit, RunInv, InCore
    <3>2. "depth" \in entered[r]
      BY <1>2, <3>1 DEF Counted
    <3>3. (root[r] <=> CallersDepth(r) = 0) /\ root[r] \in BOOLEAN
      BY <3>2 DEF ScopeInv, Restores, PipeInv, Shapes
    <3>4. root[r] = (CallersDepth(r) = 0)
      BY <3>3, Zenon
    <3>5. rows'[r][i].root = root[r]
      BY <1>0, <1>2, <2>3, <3>1, FirstRoot DEF Emit
    <3>. QED BY <1>2, <3>4, <3>5, RootIsTop
  <2>. QED BY <2>1, <2>2, <2>3, Writers DEF Deny, OverBudget
<1>. QED BY <1>1, <1>2 DEF RootFlagTrue, Counted, TopLevel, Mounted

LEMMA RootInit == Init => RootFlagTrue
BY DEF Init, RootFlagTrue

\* Wherever any run has control, its context has the run's own capability gate in
\* force inside the capability module and its caller's outside of it, whatever
\* workers it called or forked and however they ended.
THEOREM GateAlwaysInForce == Spec => []GateInForce
<1>1. ScopeInv => GateInForce
  BY DEF ScopeInv, Sees, HasControl, Up, GateOf, GateInForce, Context
<1>. QED BY <1>1, PipeInit, PipeStep, InitScopes, StepScopes, PTL DEF Spec

\* A row is marked root when and only when its run is a top-level one, for refused
\* runs, for workers in their caller's context and for workers on threads.
THEOREM RootFlagAlwaysTrue == Spec => []RootFlagTrue
<1>1. PipeInv /\ ScopeInv /\ RootFlagTrue /\ [Next]_vars => RootFlagTrue'
  <2>1. CASE UNCHANGED vars
    BY <2>1 DEF vars, RootFlagTrue, Mounted, TopLevel
  <2>. QED BY <2>1, StepRoots DEF Next, Quiet, Step
<1>. QED BY <1>1, PipeInit, PipeStep, InitScopes, StepScopes, RootInit, PTL DEF Spec

-----------------------------------------------------------------------------
(* What is left when runs are over *)

\* Holds, recall and the published accumulator belong to a run that is under way.
HoldOk(r) ==
    /\ entered[r] \subseteq Mounted(r) /\ (pc[r] = "done" => entered[r] = {})
    /\ r \in held => "cost" \in entered[r]
PrefixOk(a) == prefix[a] # NoRun =>
    /\ AgentOf[prefix[a]] = a /\ "recall" \in entered[prefix[a]]
    /\ pc[prefix[a]] \in {"pre", "core", "emit", "post"}
\* A stream publishes its own accumulator in its core, and the pipeline's before.
StreamsOwn(s, x) == \/ x = <<s, "core">> /\ pc[s] = "core"
                    \/ x = <<s, "pipeline">> /\ acc[s] = NoAcc
ActiveOk(a) == active[a] # NoAcc =>
    \E q \in Runs : /\ AgentOf[q] = a
                    /\ IF q \in Streams THEN StreamsOwn(q, active[a]) ELSE Up(q)

LeftInv == (\A r \in Runs : HoldOk(r)) /\ \A a \in Agents : PrefixOk(a) /\ ActiveOk(a)

\* A step that leaves these alone.
Calm(r) ==
    /\ Up(r) /\ Up(r)' /\ pc[r] # "reflect" /\ pc'[r] # "reflect"
    /\ pc'[r] = "core" <=> pc[r] = "core"
    /\ UNCHANGED <<active, prefix, held, acc>>
    /\ entered[r] \subseteq Mounted(r) => entered'[r] \subseteq Mounted(r)
    /\ "recall" \in entered'[r] <=> "recall" \in entered[r]
    /\ "cost" \in entered'[r] <=> "cost" \in entered[r]

LEMMA CalmKinds ==
    ASSUME PipeInv, NEW r \in Runs, Step(r)
    PROVE  \/ Start(r) \/ StartCore(r) \/ EndCore(r) \/ ReflectCall(r) \/ ReflectEnds(r)
           \/ Finish(r) \/ LoadRecall(r) \/ ClearRecall(r) \/ Reserve(r) \/ Settle(r)
           \/ Calm(r)
<1> USE DEF PipeInv, Shapes, Up, Live, Calm
<1>1. CASE RejectInput(r)
  BY <1>1 DEF RejectInput, Entering, Refuse
<1>2. CASE Deny(r)
  BY <1>2 DEF Deny, Entering, Refuse
<1>3. CASE OverBudget(r)
  BY <1>3 DEF OverBudget, Entering, Refuse
<1>4. CASE SetDepth(r)
  BY <1>4 DEF SetDepth, Entering, Enter
<1>5. CASE SetCapability(r)
  BY <1>5 DEF SetCapability, Entering, Enter
<1>6. CASE Call(r)
  BY <1>6 DEF Call, InControl
<1>7. CASE CoreRaises(r)
  BY <1>7 DEF CoreRaises, InControl
<1>8. CASE CloseStream(r)
  BY <1>8 DEF CloseStream, InControl
<1>9. CASE Interrupt(r)
  BY <1>9 DEF Interrupt, InControl
<1>10. CASE WorkerRaised(r)
  BY <1>10 DEF WorkerRaised
<1>11. CASE Emit(r)
  BY <1>11 DEF Emit
<1>12. CASE ResetCapability(r)
  BY <1>12 DEF ResetCapability, Leaving, Leave
<1>13. CASE Verify(r)
  BY <1>13 DEF Verify, Leaving, LeaveOrRaise
<1>14. CASE CheckOutput(r)
  BY <1>14 DEF CheckOutput, Leaving, LeaveOrRaise
<1>15. CASE SkipReflect(r)
  BY <1>15 DEF SkipReflect, Leaving, Leave
<1>16. CASE ResetDepth(r)
  BY <1>16 DEF ResetDepth, Leaving, Leave
<1>17. CASE PersistTrajectory(r)
  BY <1>17 DEF PersistTrajectory, Leaving, Leave
<1>18. CASE RecordSession(r)
  BY <1>18 DEF RecordSession, Leaving, Leave
<1>19. ASSUME NEW m \in Modules, PassIn(r, m) PROVE Calm(r)
  BY <1>19 DEF PassIn, Entering, Enter
<1>20. ASSUME NEW m \in Modules, PassOut(r, m) PROVE Calm(r)
  BY <1>20 DEF PassOut, Leaving, Leave
<1>. QED
  BY <1>1, <1>2, <1>3, <1>4, <1>5, <1>6, <1>7, <1>8, <1>9, <1>10, <1>11, <1>12, <1>13,
      <1>14, <1>15, <1>16, <1>17, <1>18, <1>19, <1>20
  DEF Step, Pre, Core, Post

LEMMA HoldStep ==
    ASSUME PipeInv, NEW r \in Runs, Step(r), HoldOk(r)
    PROVE  HoldOk(r)'
<1> USE DEF PipeInv, Shapes, HoldOk, Mounted
<1>1. CASE Start(r) \/ StartCore(r) \/ EndCore(r)
  BY <1>1 DEF Start, StartCore, EndCore
<1>2. CASE ReflectCall(r) \/ ReflectEnds(r) \/ Finish(r)
  BY <1>2 DEF ReflectCall, ReflectEnds, Finish, Leaving
<1>3. CASE LoadRecall(r) \/ Reserve(r)
  BY <1>3 DEF LoadRecall, Reserve, Entering, Enter
<1>4. CASE ClearRecall(r) \/ Settle(r)
  BY <1>4 DEF ClearRecall, Settle, Leaving, Leave
<1>5. CASE Calm(r)
  BY <1>5 DEF Calm, Up, Live
<1>. QED BY <1>1, <1>2, <1>3, <1>4, <1>5, CalmKinds

\* A step of r touches what is kept by r's agent alone.
LEMMA OtherAgents ==
    ASSUME PipeInv, NEW r \in Runs, Step(r), NEW a \in Agents, a # AgentOf[r]
    PROVE  active'[a] = active[a] /\ prefix'[a] = prefix[a]
<1> USE DEF PipeInv, Shapes, Agent
<1>1. CASE Start(r) \/ StartCore(r) \/ EndCore(r)
  BY <1>1 DEF Start, StartCore, EndCore
<1>2. CASE ReflectCall(r) \/ ReflectEnds(r) \/ Finish(r)
  BY <1>2 DEF ReflectCall, ReflectEnds, Finish
<1>3. CASE LoadRecall(r) \/ Reserve(r) \/ ClearRecall(r) \/ Settle(r)
  BY <1>3 DEF LoadRecall, Reserve, ClearRecall, Settle
<1>4. CASE Calm(r)
  BY <1>4 DEF Calm
<1>. QED BY <1>1, <1>2, <1>3, <1>4, CalmKinds

LEMMA PrefixStep ==
    ASSUME PipeInv, LeftInv, NEW r \in Runs, Step(r)
    PROVE  PrefixOk(AgentOf[r])'
<1> DEFINE a == AgentOf[r]
<1>1. a \in Agents /\ prefix \in [Agents -> Runs \cup {NoRun}] /\ PrefixOk(a)
  BY DEF PipeInv, Shapes, LeftInv
<1>2. pc \in [Runs -> Live \cup {"idle", "done"}] /\ entered \in [Runs -> SUBSET Modules]
  BY DEF PipeInv, Shapes
<1>3. \A q \in Runs \ {r} : Same(q)
  BY Others DEF PipeInv
<1>4. CASE prefix'[a] = NoRun
  BY <1>4 DEF PrefixOk
<1>5. ASSUME prefix'[a] = prefix[a], prefix[a] = r =>
                /\ "recall" \in entered[r] => "recall" \in entered'[r]
                /\ pc[r] \in {"pre", "core", "emit", "post"} /\ "recall" \in entered[r] =>
                      pc'[r] \in {"pre", "core", "emit", "post"}
      PROVE  PrefixOk(a)'
  BY <1>1, <1>3, <1>5 DEF PrefixOk, Same
<1> USE DEF Agent
<1>6. CASE Start(r) \/ StartCore(r) \/ EndCore(r)
  BY <1>1, <1>2, <1>5, <1>6 DEF Start, StartCore, EndCore, PrefixOk
<1>7. CASE ReflectCall(r) \/ ClearRecall(r)
  BY <1>1, <1>4, <1>7 DEF ReflectCall, ClearRecall
<1>8. CASE ReflectEnds(r) \/ Finish(r)
  BY <1>1, <1>2, <1>5, <1>8 DEF ReflectEnds, Finish
<1>9. CASE LoadRecall(r)
  <2>1. prefix'[a] \in {r, NoRun} /\ "recall" \in entered'[r] /\ pc'[r] = "pre"
    BY <1>1, <1>2, <1>9 DEF LoadRecall, Entering, Enter
  <2>. QED BY <2>1 DEF PrefixOk
<1>10. CASE Reserve(r) \/ Settle(r)
  BY <1>1, <1>2, <1>5, <1>10 DEF Reserve, Settle, Entering, Enter, Leaving, Leave
<1>11. CASE Calm(r)
  BY <1>1, <1>5, <1>11 DEF Calm, Up, Live
<1>. QED BY <1>6, <1>7, <1>8, <1>9, <1>10, <1>11, CalmKinds

LEMMA ActiveStep ==
    ASSUME PipeInv, LeftInv, NEW r \in Runs, Step(r)
    PROVE  ActiveOk(AgentOf[r])'
<1> DEFINE a == AgentOf[r]
<1>1. a \in Agents /\ active \in [Agents -> Accs \cup {NoAcc}] /\ ActiveOk(a)
  BY DEF PipeInv, Shapes, LeftInv
<1>2. /\ pc \in [Runs -> Live \cup {"idle", "done"}] /\ entered \in [Runs -> SUBSET Modules]
      /\ acc \in [Runs -> Accs \cup {NoAcc}]
  BY DEF PipeInv, Shapes
<1>3. \A q \in Runs \ {r} : Same(q)
  BY Others DEF PipeInv
<1>4. CASE active'[a] = NoAcc
  BY <1>4 DEF ActiveOk
<1>5. ASSUME r \notin Streams, Up(r)' PROVE ActiveOk(a)'
  BY <1>5 DEF ActiveOk
<1>6. ASSUME r \in Streams, StreamsOwn(r, active[a])' PROVE ActiveOk(a)'
  BY <1>6 DEF ActiveOk, StreamsOwn
<1>7. ASSUME active'[a] = active[a], Up(r) => Up(r)', acc'[r] = acc[r],
             pc[r] = "core" => pc'[r] = "core"
      PROVE  ActiveOk(a)'
  <2>. SUFFICES ASSUME active[a] # NoAcc PROVE ActiveOk(a)'
    BY <1>4, <1>7
  <2>. PICK q \in Runs : /\ AgentOf[q] = a
                         /\ IF q \in Streams THEN StreamsOwn(q, active[a]) ELSE Up(q)
    BY <1>1 DEF ActiveOk
  <2>1. IF q \in Streams THEN StreamsOwn(q, active[a])' ELSE Up(q)'
    <3>1. CASE q = r
      BY <1>7, <3>1 DEF StreamsOwn
    <3>2. CASE q # r
      BY <1>3, <1>7, <3>2 DEF StreamsOwn, Same, Up
    <3>. QED BY <3>1, <3>2
  <2>. QED BY <2>1 DEF ActiveOk, StreamsOwn
<1> USE DEF Agent
<1>8. CASE Start(r)
  <2>1. active'[a] = <<r, "pipeline">> /\ acc'[r] = NoAcc /\ pc'[r] = "pre"
    BY <1>1, <1>2, <1>8 DEF Start, PipeInv, RunInv, BeforeCore, Untouched
  <2>. QED BY <1>5, <1>6, <2>1 DEF StreamsOwn, Up, Live
<1>9. CASE StartCore(r)
  <2>1. pc'[r] = "core" /\ (r \in Streams => active'[a] = <<r, "core">>)
    BY <1>1, <1>2, <1>9 DEF StartCore
  <2>. QED BY <1>5, <1>6, <2>1 DEF StreamsOwn, Up, Live
<1>10. CASE EndCore(r) \/ ReflectEnds(r)
  BY <1>1, <1>4, <1>10 DEF EndCore, ReflectEnds
<1>11. CASE ReflectCall(r)
  <2>1. r \notin Streams
    BY <1>11 DEF ReflectCall, Leaving, LeftInv, HoldOk, Mounted, Scoped
  <2>2. pc'[r] = "reflect"
    BY <1>2, <1>11 DEF ReflectCall
  <2>. QED BY <1>5, <2>1, <2>2 DEF Up, Live
<1>12. CASE Finish(r)
  <2>1. CASE r \in Streams
    <3>1. active'[a] = active[a] /\ acc'[r] = acc[r] /\ pc[r] = "post"
      BY <1>12, <2>1 DEF Finish
    <3>2. ASSUME active[a] # NoAcc PROVE ActiveOk(a)'
      <4>. PICK q \in Runs : /\ AgentOf[q] = a
                             /\ IF q \in Streams THEN StreamsOwn(q, active[a]) ELSE Up(q)
        BY <1>1, <3>2 DEF ActiveOk
      <4>1. IF q \in Streams THEN StreamsOwn(q, active[a])' ELSE Up(q)'
        <5>1. CASE q = r
          BY <2>1, <3>1, <5>1 DEF StreamsOwn
        <5>2. CASE q # r
          BY <1>3, <3>1, <5>2 DEF StreamsOwn, Same, Up
        <5>. QED BY <5>1, <5>2
      <4>. QED BY <4>1 DEF ActiveOk, StreamsOwn
    <3>. QED BY <1>4, <3>1, <3>2
  <2>2. CASE r \notin Streams
    BY <1>1, <1>4, <1>12, <2>2 DEF Finish
  <2>. QED BY <2>1, <2>2
<1>13. CASE LoadRecall(r) \/ ClearRecall(r) \/ Reserve(r) \/ Settle(r)
  BY <1>7, <1>13
     DEF LoadRecall, ClearRecall, Reserve, Settle, Entering, Enter, Leaving, Leave, Up
<1>14. CASE Calm(r)
  BY <1>7, <1>14 DEF Calm
<1>. QED BY <1>8, <1>9, <1>10, <1>11, <1>12, <1>13, <1>14, CalmKinds

LEMMA InitLeft == Init => LeftInv
BY DEF Init, LeftInv, HoldOk, PrefixOk, ActiveOk

LEMMA StepLeft == PipeInv /\ LeftInv /\ [Next]_vars => LeftInv'
<1> SUFFICES ASSUME PipeInv, LeftInv, [Next]_vars PROVE LeftInv'
  OBVIOUS
<1>1. ASSUME NEW r \in Runs, Step(r) PROVE LeftInv'
  <2>1. \A q \in Runs \ {r} : Same(q)
    BY <1>1, Others DEF PipeInv
  <2>2. ASSUME NEW q \in Runs PROVE HoldOk(q)'
    <3>1. CASE q = r
      BY <1>1, <3>1, HoldStep DEF LeftInv
    <3>2. CASE q # r
      BY <2>1, <3>2 DEF LeftInv, HoldOk, Same, Mounted
    <3>. QED BY <3>1, <3>2
  <2>3. ASSUME NEW a \in Agents PROVE PrefixOk(a)' /\ ActiveOk(a)'
    <3>1. CASE a = AgentOf[r]
      BY <1>1, <3>1, PrefixStep, ActiveStep
    <3>2. CASE a # AgentOf[r]
      <4>1. active'[a] = active[a] /\ prefix'[a] = prefix[a] /\ PrefixOk(a) /\ ActiveOk(a)
        BY <1>1, <3>2, OtherAgents DEF LeftInv
      <4>2. PrefixOk(a)'
        BY <2>1, <3>2, <4>1 DEF PrefixOk, Same, PipeInv, Shapes
      <4>3. ActiveOk(a)'
        BY <2>1, <3>2, <4>1 DEF ActiveOk, StreamsOwn, Same, Up
      <4>. QED BY <4>2, <4>3
    <3>. QED BY <3>1, <3>2
  <2>. QED BY <2>2, <2>3 DEF LeftInv
<1>2. CASE UNCHANGED vars
  BY <1>2 DEF vars, LeftInv, HoldOk, PrefixOk, ActiveOk, StreamsOwn, Up, Mounted
<1>. QED BY <1>1, <1>2 DEF Next, Quiet, Step

\* When no run is under way, nothing of the earlier ones is left, however many were
\* in flight at once and however they ended: no hold, no depth, no gate, no recall,
\* and no published accumulator but that of a stream its gates refused.
THEOREM NothingEverLeft == Spec => []NothingLeftBehind
<1>1. PipeInv /\ ScopeInv /\ LeftInv => NothingLeftBehind
  <2>. SUFFICES ASSUME PipeInv, ScopeInv, LeftInv, NEW r \in Runs
                PROVE  /\ Done(r) => r \notin held
                       /\ (\A q \in Runs : pc[q] \notin Live) =>
                           /\ TopLevel(r) => depth[Context(r)] = 0 /\ gate[Context(r)] = NoAgent
                           /\ prefix[Agent(r)] = NoRun
                           /\ active[Agent(r)] \in {NoAcc} \cup
                                 {<<s, "pipeline">> : s \in {q \in Streams : ~ReachedCore(q)}}
    BY DEF NothingLeftBehind
  <2>1. Done(r) => r \notin held
    BY DEF LeftInv, HoldOk, Done
  <2>2. ASSUME \A q \in Runs : ~Up(q)
        PROVE  /\ TopLevel(r) => depth[Context(r)] = 0 /\ gate[Context(r)] = NoAgent
               /\ prefix[Agent(r)] = NoRun
               /\ active[Agent(r)] \in {NoAcc} \cup
                     {<<s, "pipeline">> : s \in {q \in Streams : ~ReachedCore(q)}}
    <3>1. TopLevel(r) => depth[Context(r)] = 0 /\ gate[Context(r)] = NoAgent
      BY <2>2 DEF ScopeInv, Free, Context
    <3>2. prefix[Agent(r)] = NoRun
      BY <2>2 DEF LeftInv, PrefixOk, PipeInv, Shapes, Up, Live, Agent
    <3>3. active[Agent(r)] \in {NoAcc} \cup
              {<<s, "pipeline">> : s \in {q \in Streams : ~ReachedCore(q)}}
      <4>1. CASE active[Agent(r)] = NoAcc
        BY <4>1
      <4>2. CASE active[Agent(r)] # NoAcc
        <5>1. PICK q \in Runs : IF q \in Streams THEN StreamsOwn(q, active[Agent(r)]) ELSE Up(q)
          BY <4>2 DEF LeftInv, ActiveOk, PipeInv, Shapes, Agent
        <5>2. q \in Streams /\ active[Agent(r)] = <<q, "pipeline">> /\ acc[q] = NoAcc
          BY <2>2, <5>1 DEF StreamsOwn, Up, Live
        <5>. QED BY <5>2 DEF ReachedCore
      <4>. QED BY <4>1, <4>2
    <3>. QED BY <3>1, <3>2, <3>3
  <2>. QED BY <2>1, <2>2 DEF Up
<1>. QED BY <1>1, PipeInit, PipeStep, InitScopes, StepScopes, InitLeft, StepLeft, PTL DEF Spec

-----------------------------------------------------------------------------
(* One run at a time: what a run counts, records and is told is its own *)

\* Of the runs of an agent, one is under way.
Solo == \A q, r \in Runs : Up(q) /\ Up(r) /\ AgentOf[q] = AgentOf[r] => q = r

\* The accumulator a run's core counts in.
AccOf(r) == <<r, IF r \in Streams THEN "core" ELSE "pipeline">>

Publishes(r) ==
    /\ pc[r] = "pre"     => active[AgentOf[r]] = <<r, "pipeline">>
    /\ pc[r] = "core"    => active[AgentOf[r]] = AccOf(r) /\ acc[r] = AccOf(r)
    /\ pc[r] = "reflect" => active[AgentOf[r]] = <<r, "reflect">>
Counts(r) ==
    /\ pc[r] \in {"idle", "pre"} => usage[AccOf(r)] = 0
    /\ pc[r] = "core" /\ exc[r] = "none" =>
          usage[AccOf(r)] = calls[r] /\ calls[r] <= MaxRunTokens
    /\ r \notin Streams => usage[AccOf(r)] = calls[r]
    /\ calls[r] <= MaxRunTokens + 1
Primed(r) ==
    /\ usage[<<r, "reflect">>] <= MaxRunTokens
    /\ pc[r] = "reflect" => usage[<<r, "reflect">>] < MaxRunTokens
\* last_metrics of the agent are the run's, once its core is over.
Measured(r) ==
    /\ pc[r] = "emit" => /\ metrics[AgentOf[r]].run = r
                         /\ metrics[AgentOf[r]].ok <=> exc[r] # "error"
    /\ pc[r] \in {"emit", "post", "reflect"} /\ acc[r] # NoAcc =>
          Agrees(r, metrics[AgentOf[r]])
Recorded(r) ==
    /\ pc[r] \in {"core", "emit"} => trajectory[r] = NoMetrics /\ session[r] = NoMetrics
    /\ Agrees(r, trajectory[r]) /\ Agrees(r, session[r])
Priced(r) ==
    r \notin Streams => \A i \in DOMAIN rows[r] : rows[r][i].cost = calls[r]

Mine(r) == /\ Publishes(r) /\ Counts(r) /\ Primed(r)
           /\ Measured(r) /\ Recorded(r) /\ Priced(r)
OwnInv == Solo /\ \A r \in Runs : Mine(r)

\* A run starts when no other of its agent is under way.
LEMMA StartsAlone ==
    ASSUME MaxConcurrent = 1, NEW r \in Runs, Start(r), NEW q \in Runs, Up(q)
    PROVE  AgentOf[q] # AgentOf[r]
<1>1. IsFiniteSet(InFlight(AgentOf[r]))
  BY FS_Subset DEF InFlight
<1>2. Cardinality(InFlight(AgentOf[r])) < 1
  BY DEF Start, Agent
<1>3. InFlight(AgentOf[r]) = {}
  BY <1>1, <1>2, FS_EmptySet, FS_CardinalityType
<1>. QED BY <1>3 DEF InFlight, Up

\* Whoever takes a step is under way, or starts.
LEMMA Steps ==
    ASSUME NEW r \in Runs, Step(r)
    PROVE  Start(r) \/ Up(r)
BY DEF Step, Pre, Core, Post, PassIn, RejectInput, Deny, Reserve, OverBudget, SetDepth,
       LoadRecall, SetCapability, Entering, StartCore, Call, CoreRaises, CloseStream,
       Interrupt, InControl, WorkerRaised, EndCore, Emit, ResetCapability, Verify,
       CheckOutput, SkipReflect, ReflectCall, ReflectEnds, ClearRecall, ResetDepth,
       PersistTrajectory, RecordSession, Settle, PassOut, Finish, Leaving, Up, Live

\* So a run under way is not disturbed by the other runs of its agent.
LEMMA Undisturbed ==
    ASSUME MaxConcurrent = 1, Solo, NEW r \in Runs, Step(r), NEW q \in Runs, q # r, Up(q)
    PROVE  AgentOf[q] # AgentOf[r]
BY Steps, StartsAlone DEF Solo

\* A step that leaves what is counted and recorded alone.
Still(r) ==
    /\ pc'[r] = pc[r]
    /\ exc'[r] = exc[r] \/ (pc[r] \in {"core", "post"} /\ exc'[r] # "none")
    /\ UNCHANGED <<active, metrics, usage, calls, acc, rows, trajectory, session>>

Counting(r) == Call(r) \/ CloseStream(r) \/ StartCore(r)
Telling(r)  == Deny(r) \/ OverBudget(r) \/ RejectInput(r) \/ Emit(r)
Recording(r) == PersistTrajectory(r) \/ RecordSession(r)

LEMMA StillKinds ==
    ASSUME PipeInv, NEW r \in Runs, Step(r)
    PROVE  \/ Start(r) \/ Counting(r) \/ EndCore(r) \/ Telling(r)
           \/ ReflectCall(r) \/ ReflectEnds(r) \/ Recording(r) \/ Finish(r)
           \/ Still(r)
<1> USE DEF PipeInv, Shapes, Still
<1>1. CASE Reserve(r) \/ SetDepth(r) \/ LoadRecall(r) \/ SetCapability(r)
  BY <1>1 DEF Reserve, SetDepth, LoadRecall, SetCapability, Entering, Enter
<1>2. CASE CoreRaises(r) \/ Interrupt(r)
  BY <1>2 DEF CoreRaises, Interrupt, InControl
<1>3. CASE WorkerRaised(r)
  BY <1>3 DEF WorkerRaised
<1>4. CASE Verify(r) \/ CheckOutput(r)
  BY <1>4 DEF Verify, CheckOutput, Leaving, LeaveOrRaise
<1>5. CASE ResetCapability(r) \/ SkipReflect(r) \/ ClearRecall(r) \/ ResetDepth(r) \/ Settle(r)
  BY <1>5 DEF ResetCapability, SkipReflect, ClearRecall, ResetDepth, Settle, Leaving, Leave
<1>6. ASSUME NEW m \in Modules, PassIn(r, m) PROVE Still(r)
  BY <1>6 DEF PassIn, Entering, Enter
<1>7. ASSUME NEW m \in Modules, PassOut(r, m) PROVE Still(r)
  BY <1>7 DEF PassOut, Leaving, Leave
<1>. QED BY <1>1, <1>2, <1>3, <1>4, <1>5, <1>6, <1>7
         DEF Step, Pre, Core, Post, Counting, Telling, Recording

\* What the step of a run leaves of the other runs, and of their agents.
LEMMA OthersCounts ==
    ASSUME PipeInv, NEW r \in Runs, Publishes(r), Step(r), NEW q \in Runs, q # r
    PROVE  /\ \A k \in {"pipeline", "core", "reflect"} : usage'[<<q, k>>] = usage[<<q, k>>]
           /\ AgentOf[q] # AgentOf[r] => metrics'[AgentOf[q]] = metrics[AgentOf[q]]
<1> USE DEF PipeInv, Shapes, Agent
<1>1. CASE Start(r) \/ Finish(r)
  BY <1>1 DEF Start, Finish
<1>2. CASE Counting(r)
  <2>1. CASE Call(r)
    <3>1. active[AgentOf[r]] = AccOf(r)
      BY <2>1 DEF Call, InControl, Publishes
    <3>2. metrics' = metrics /\ usage' \in {usage, [usage EXCEPT ![AccOf(r)] = @ + 1]}
      BY <2>1, <3>1 DEF Call, Accrue
    <3>. QED BY <3>2 DEF AccOf, Accs
  <2>. QED BY <1>2, <2>1 DEF Counting, CloseStream, StartCore
<1>3. CASE EndCore(r)
  BY <1>3 DEF EndCore
<1>4. CASE Telling(r)
  BY <1>4 DEF Telling, Deny, OverBudget, RejectInput, Emit
<1>5. CASE ReflectCall(r)
  BY <1>5 DEF ReflectCall, Accs
<1>6. CASE ReflectEnds(r)
  <2>1. active[AgentOf[r]] = <<r, "reflect">>
    BY <1>6 DEF ReflectEnds, Publishes
  <2>2. metrics' = metrics /\ usage' \in {usage, [usage EXCEPT ![<<r, "reflect">>] = @ + 1]}
    BY <1>6, <2>1 DEF ReflectEnds, Accrue
  <2>. QED BY <2>2 DEF Accs
<1>7. CASE Recording(r)
  BY <1>7 DEF Recording, PersistTrajectory, RecordSession
<1>8. CASE Still(r)
  BY <1>8 DEF Still
<1>. QED BY <1>1, <1>2, <1>3, <1>4, <1>5, <1>6, <1>7, <1>8, StillKinds

\* The step of a run leaves the invariant of the others, and each part of its own.
LEMMA OtherRuns ==
    ASSUME MaxConcurrent = 1, PipeInv, OwnInv, NEW r \in Runs, Step(r), NEW q \in Runs, q # r
    PROVE  Mine(q)'
<1>1. Same(q) /\ Mine(q)
  BY Others DEF PipeInv, OwnInv
<1>2. \A k \in {"pipeline", "core", "reflect"} : usage'[<<q, k>>] = usage[<<q, k>>]
  BY OthersCounts DEF OwnInv, Mine
<1>3. Up(q) => /\ metrics'[AgentOf[q]] = metrics[AgentOf[q]]
               /\ active'[AgentOf[q]] = active[AgentOf[q]]
  <2>. SUFFICES ASSUME Up(q)
                PROVE  /\ metrics'[AgentOf[q]] = metrics[AgentOf[q]]
                       /\ active'[AgentOf[q]] = active[AgentOf[q]]
    OBVIOUS
  <2>1. AgentOf[q] # AgentOf[r] /\ AgentOf[q] \in Agents
    BY Undisturbed DEF OwnInv
  <2>. QED BY <2>1, OthersCounts, OtherAgents DEF OwnInv, Mine
<1>4. Publishes(q)'
  BY <1>1, <1>3 DEF Mine, Publishes, Same, Up, Live, AccOf
<1>5. Counts(q)' /\ Primed(q)'
  BY <1>1, <1>2 DEF Mine, Counts, Primed, Same, AccOf
<1>6. Measured(q)'
  BY <1>1, <1>3 DEF Mine, Measured, Agrees, Said, Same, Up, Live
<1>7. Recorded(q)' /\ Priced(q)'
  BY <1>1 DEF Mine, Recorded, Priced, Agrees, Said, Same
<1>. QED BY <1>4, <1>5, <1>6, <1>7 DEF Mine

LEMMA SoloStep ==
    ASSUME MaxConcurrent = 1, PipeInv, Solo, NEW r \in Runs, Step(r)
    PROVE  Solo'
<1>1. \A q \in Runs \ {r} : Same(q)
  BY Others DEF PipeInv
<1>2. \A q \in Runs \ {r} : Up(q) => AgentOf[q] # AgentOf[r]
  BY Undisturbed
<1>. QED BY <1>1, <1>2 DEF Solo, Same, Up

LEMMA PublishesStep ==
    ASSUME PipeInv, NEW r \in Runs, Step(r), Publishes(r)
    PROVE  Publishes(r)'
<1> USE DEF PipeInv, Shapes, Publishes, Agent, AccOf
<1>1. CASE Start(r)
  BY <1>1 DEF Start
<1>2. CASE Finish(r)
  BY <1>2 DEF Finish
<1>3. CASE StartCore(r)
  BY <1>3 DEF StartCore, NoAcc
<1>4. CASE Call(r) \/ CloseStream(r)
  BY <1>4 DEF Call, CloseStream, InControl
<1>5. CASE EndCore(r)
  BY <1>5 DEF EndCore
<1>6. CASE Deny(r) \/ OverBudget(r) \/ RejectInput(r)
  BY <1>6 DEF Deny, OverBudget, RejectInput, Refuse
<1>7. CASE Emit(r)
  BY <1>7 DEF Emit
<1>8. CASE ReflectCall(r)
  BY <1>8 DEF ReflectCall
<1>9. CASE ReflectEnds(r)
  BY <1>9 DEF ReflectEnds
<1>10. CASE Recording(r)
  BY <1>10 DEF Recording, PersistTrajectory, RecordSession, Leaving, Leave
<1>11. CASE Still(r)
  BY <1>11 DEF Still
<1>. QED BY <1>1, <1>2, <1>3, <1>4, <1>5, <1>6, <1>7, <1>8, <1>9, <1>10, <1>11, StillKinds
         DEF Counting, Telling

LEMMA CountsStep ==
    ASSUME PipeInv, NEW r \in Runs, Step(r), Publishes(r), Counts(r)
    PROVE  Counts(r)'
<1> USE DEF PipeInv, Shapes, Counts, AccOf, Accs
<1> USE BoundAssumption
<1>1. CASE Start(r)
  BY <1>1 DEF Start
<1>2. CASE Finish(r)
  BY <1>2 DEF Finish
<1>3. CASE StartCore(r)
  <2>1. calls[r] = 0
    BY <1>3 DEF StartCore, RunInv, BeforeCore, Untouched
  <2>. QED BY <1>3, <2>1 DEF StartCore
<1>4. CASE Call(r)
  <2>1. /\ active[Agent(r)] = AccOf(r) /\ pc[r] = "core" /\ exc[r] = "none"
        /\ AccOf(r) # NoAcc
    BY <1>4 DEF Call, InControl, Publishes, Agent, NoAcc
  <2>2. usage' = [usage EXCEPT ![AccOf(r)] = @ + 1] /\ usage'[AccOf(r)] = usage[AccOf(r)] + 1
    BY <1>4, <2>1 DEF Call, Accrue
  <2>3. calls'[r] = calls[r] + 1 /\ pc' = pc /\ calls[r] \in Nat /\ calls[r] <= MaxRunTokens
    BY <1>4, <2>1 DEF Call
  <2>4. exc'[r] = "none" => usage'[AccOf(r)] <= MaxRunTokens
    BY <1>4, <2>1, <2>2 DEF Call, OverCap
  <2>. QED BY <2>1, <2>2, <2>3, <2>4
<1>5. CASE CloseStream(r)
  BY <1>5 DEF CloseStream, InControl
<1>6. CASE EndCore(r)
  BY <1>6 DEF EndCore
<1>7. CASE Deny(r) \/ OverBudget(r) \/ RejectInput(r)
  BY <1>7 DEF Deny, OverBudget, RejectInput, Refuse, Entering
<1>8. CASE Emit(r)
  BY <1>8 DEF Emit
<1>9. CASE ReflectCall(r)
  BY <1>9 DEF ReflectCall, Leaving
<1>10. CASE ReflectEnds(r)
  <2>1. active[Agent(r)] = <<r, "reflect">>
    BY <1>10 DEF ReflectEnds, Publishes, Agent
  <2>. QED BY <1>10, <2>1 DEF ReflectEnds, Accrue
<1>11. CASE Recording(r)
  BY <1>11 DEF Recording, PersistTrajectory, RecordSession, Leaving, Leave
<1>12. CASE Still(r)
  BY <1>12 DEF Still
<1>. QED BY <1>1, <1>2, <1>3, <1>4, <1>5, <1>6, <1>7, <1>8, <1>9, <1>10, <1>11, <1>12,
            StillKinds DEF Counting, Telling

LEMMA PrimedStep ==
    ASSUME PipeInv, NEW r \in Runs, Step(r), Publishes(r), Primed(r)
    PROVE  Primed(r)'
<1> USE DEF PipeInv, Shapes, Primed, Accs
<1> USE BoundAssumption
<1>1. CASE Start(r) \/ Finish(r) \/ StartCore(r) \/ CloseStream(r) \/ EndCore(r) \/ Emit(r)
  BY <1>1 DEF Start, Finish, StartCore, CloseStream, EndCore, Emit, InControl
<1>2. CASE Call(r)
  <2>1. active[Agent(r)] = AccOf(r) /\ pc' = pc /\ pc[r] = "core"
    BY <1>2 DEF Call, InControl, Publishes, Agent
  <2>. QED BY <1>2, <2>1 DEF Call, Accrue, AccOf
<1>3. CASE Deny(r) \/ OverBudget(r) \/ RejectInput(r)
  BY <1>3 DEF Deny, OverBudget, RejectInput, Refuse
<1>4. CASE ReflectCall(r)
  BY <1>4 DEF ReflectCall, Reflects, Metrics, Agent
<1>5. CASE ReflectEnds(r)
  <2>1. active[Agent(r)] = <<r, "reflect">> /\ pc[r] = "reflect"
    BY <1>5 DEF ReflectEnds, Publishes, Agent
  <2>. QED BY <1>5, <2>1 DEF ReflectEnds, Accrue
<1>6. CASE Recording(r)
  BY <1>6 DEF Recording, PersistTrajectory, RecordSession, Leaving, Leave
<1>7. CASE Still(r)
  BY <1>7 DEF Still
<1>. QED BY <1>1, <1>2, <1>3, <1>4, <1>5, <1>6, <1>7, StillKinds DEF Counting, Telling

LEMMA MeasuredStep ==
    ASSUME PipeInv, NEW r \in Runs, Step(r), Publishes(r), Counts(r), Measured(r)
    PROVE  Measured(r)'
<1> USE DEF PipeInv, Shapes, Agent
<1>1. CASE Start(r) \/ Finish(r) \/ StartCore(r) \/ Call(r) \/ CloseStream(r)
  BY <1>1 DEF Start, Finish, StartCore, Call, CloseStream, InControl, Measured
<1>2. CASE EndCore(r)
  <2> DEFINE m == [run |-> r, usage |-> usage[acc[r]], ok |-> exc[r] # "error"]
  <2>1. /\ metrics'[AgentOf[r]] = m /\ pc[r] = "core"
        /\ exc' = exc /\ rows' = rows /\ calls' = calls
    BY <1>2 DEF EndCore, InControl
  <2>2. rows[r] = <<>> /\ (r \notin Streams => usage[acc[r]] = calls[r])
    BY <2>1 DEF RunInv, InCore, NoRow, Publishes, Counts
  <2>. HIDE DEF PipeInv, Shapes
  <2>3. m.run = r /\ m.usage = usage[acc[r]] /\ (m.ok <=> exc[r] # "error")
    OBVIOUS
  <2>. HIDE DEF m
  <2>4. Agrees(r, metrics[AgentOf[r]])'
    BY <2>1, <2>2, <2>3 DEF Agrees
  <2>5. metrics'[AgentOf[r]].run = r /\ (metrics'[AgentOf[r]].ok <=> exc'[r] # "error")
    BY <2>1, <2>3
  <2>. QED BY <2>4, <2>5 DEF Measured
<1>3. CASE Deny(r) \/ OverBudget(r) \/ RejectInput(r)
  <2>1. acc[r] = NoAcc
    BY <1>3 DEF Deny, OverBudget, RejectInput, Entering, RunInv, BeforeCore, Untouched
  <2>. QED BY <1>3, <2>1 DEF Deny, OverBudget, RejectInput, Refuse, Measured
<1>4. CASE Emit(r)
  <2>1. /\ rows[r] = <<>> /\ pc[r] = "emit" /\ exc[r] # "exit"
        /\ metrics' = metrics /\ calls' = calls /\ pc'[r] = "post"
    BY <1>4 DEF Emit, RunInv, InCore, NoRow
  <2>2. Agrees(r, metrics[AgentOf[r]]) /\ (metrics[AgentOf[r]].ok <=> exc[r] # "error")
    BY <2>1 DEF Measured, RunInv, InCore
  <2>3. rows'[r] # <<>> => (Said(r, {"ok"})' <=> exc[r] = "none")
    <3> DEFINE row == [status |-> IF exc[r] = "none" THEN "ok" ELSE "error",
                       root |-> root[r], cost |-> usage[<<r, "pipeline">>]]
    <3>1. rows' = rows \/ rows'[r] = Append(<<>>, row)
      BY <1>4, <2>1 DEF Emit, Log
    <3>2. CASE rows'[r] = Append(<<>>, row)
      <4>1. rows'[r] = <<row>>
        BY <3>2
      <4>2. DOMAIN rows'[r] = {1} /\ rows'[r][1] = row
        BY <4>1
      <4>. QED BY <4>2 DEF Said
    <3>. QED BY <2>1, <3>1, <3>2
  <2>4. exc[r] = "none" <=> exc[r] # "error"
    BY <2>1
  <2>5. Agrees(r, metrics[AgentOf[r]])'
    BY <2>1, <2>2, <2>3, <2>4 DEF Agrees
  <2>. QED BY <2>1, <2>5 DEF Measured
<1>5. CASE ReflectCall(r) \/ ReflectEnds(r)
  BY <1>5 DEF ReflectCall, ReflectEnds, Leaving, Measured, Agrees, Said
<1>6. CASE Recording(r)
  BY <1>6 DEF Recording, PersistTrajectory, RecordSession, Leaving, Leave, Measured, Agrees, Said
<1>7. CASE Still(r)
  BY <1>7 DEF Still, Measured, Agrees, Said
<1>. QED BY <1>1, <1>2, <1>3, <1>4, <1>5, <1>6, <1>7, StillKinds DEF Counting, Telling

LEMMA RecordedStep ==
    ASSUME PipeInv, NEW r \in Runs, Step(r), Measured(r), Recorded(r)
    PROVE  Recorded(r)'
<1> USE DEF PipeInv, Shapes
<1>1. CASE Start(r) \/ Finish(r) \/ EndCore(r) \/ ReflectCall(r) \/ ReflectEnds(r)
  BY <1>1 DEF Start, Finish, EndCore, InControl, ReflectCall, ReflectEnds, Leaving,
              Recorded, Agrees, Said
<1>2. CASE Counting(r) \/ Telling(r)
  <2>1. trajectory[r] = NoMetrics /\ session[r] = NoMetrics
    BY <1>2 DEF Counting, Telling, StartCore, Call, CloseStream, InControl, Deny, OverBudget,
                RejectInput, Emit, Entering, RunInv, BeforeCore, Untouched, Recorded
  <2>2. trajectory' = trajectory /\ session' = session
    BY <1>2 DEF Counting, Telling, StartCore, Call, CloseStream, Deny, OverBudget,
                RejectInput, Emit
  <2>. QED BY <2>1, <2>2 DEF Recorded, Agrees
<1>3. CASE Recording(r)
  <2>1. pc' = pc /\ pc[r] = "post" /\ rows' = rows /\ calls' = calls
    BY <1>3 DEF Recording, PersistTrajectory, RecordSession, Leaving, Leave
  <2>2. acc[r] # NoAcc
    BY <1>3 DEF Recording, PersistTrajectory, RecordSession, Leaving, RunInv, AfterRefusal
  <2>3. Agrees(r, metrics[AgentOf[r]])
    BY <2>1, <2>2 DEF Measured
  <2>4. trajectory'[r] \in {trajectory[r], metrics[AgentOf[r]]}
    BY <1>3 DEF Recording, PersistTrajectory, RecordSession, Agent
  <2>5. session'[r] \in {session[r], metrics[AgentOf[r]]}
    BY <1>3 DEF Recording, PersistTrajectory, RecordSession, Agent
  <2>. QED BY <2>1, <2>3, <2>4, <2>5 DEF Recorded, Agrees, Said
<1>4. CASE Still(r)
  BY <1>4 DEF Still, Recorded, Agrees, Said
<1>. QED BY <1>1, <1>2, <1>3, <1>4, StillKinds

LEMMA PricedStep ==
    ASSUME PipeInv, NEW r \in Runs, Step(r), Counts(r), Priced(r)
    PROVE  Priced(r)'
<1> USE DEF PipeInv, Shapes
<1>1. CASE Counting(r)
  <2>1. rows[r] = <<>> /\ rows' = rows
    BY <1>1 DEF Counting, StartCore, Call, CloseStream, InControl, RunInv, BeforeCore, InCore,
                NoRow
  <2>. QED BY <2>1 DEF Priced
<1>2. CASE Telling(r)
  <2>1. rows[r] = <<>> /\ calls' = calls
    BY <1>2 DEF Telling, Deny, OverBudget, RejectInput, Emit, Entering, RunInv, BeforeCore,
                InCore, NoRow
  <2>2. ASSUME r \notin Streams, NEW status, NEW isRoot, Log(r, status, isRoot, calls[r])
        PROVE  Priced(r)'
    <3> DEFINE row == [status |-> status, root |-> isRoot, cost |-> calls[r]]
    <3>1. rows' = rows \/ rows'[r] = Append(<<>>, row)
      BY <2>1, <2>2 DEF Log
    <3>2. CASE rows'[r] = Append(<<>>, row)
      <4>1. rows'[r] = <<row>>
        BY <3>2
      <4>2. DOMAIN rows'[r] = {1} /\ rows'[r][1] = row
        BY <4>1
      <4>. QED BY <2>1, <4>2 DEF Priced
    <3>. QED BY <2>1, <3>1, <3>2 DEF Priced
  <2>3. CASE Deny(r) \/ OverBudget(r)
    <3>1. calls[r] = 0
      BY <2>3 DEF Deny, OverBudget, Entering, RunInv, BeforeCore, Untouched
    <3>2. Log(r, "denied", depth[Context(r)] = 0, calls[r])
            \/ Log(r, "budget_exceeded", depth[Context(r)] = 0, calls[r])
      BY <2>3, <3>1 DEF Deny, OverBudget
    <3>. QED BY <2>2, <3>2 DEF Priced
  <2>4. CASE RejectInput(r)
    BY <2>4 DEF RejectInput, Priced
  <2>5. CASE Emit(r)
    <3>1. r \notin Streams => usage[<<r, "pipeline">>] = calls[r]
      BY DEF Counts, AccOf
    <3>2. r \notin Streams =>
            Log(r, IF exc[r] = "none" THEN "ok" ELSE "error", root[r], calls[r])
      BY <2>5, <3>1 DEF Emit
    <3>. QED BY <2>2, <3>2 DEF Priced
  <2>. QED BY <1>2, <2>3, <2>4, <2>5 DEF Telling
<1>3. CASE Start(r) \/ Finish(r) \/ EndCore(r) \/ ReflectCall(r) \/ ReflectEnds(r) \/ Recording(r)
  BY <1>3 DEF Start, Finish, EndCore, ReflectCall, ReflectEnds, Recording, PersistTrajectory,
              RecordSession, Priced
<1>4. CASE Still(r)
  BY <1>4 DEF Still, Priced
<1>. QED BY <1>1, <1>2, <1>3, <1>4, StillKinds

LEMMA InitOwn == Init => OwnInv
<1> SUFFICES ASSUME Init PROVE OwnInv
  OBVIOUS
<1> USE BoundAssumption
<1>1. Solo
  BY DEF Init, Solo, Up, Live
<1>2. ASSUME NEW r \in Runs PROVE Mine(r)
  BY DEF Init, Mine, Publishes, Counts, Primed, Measured, Recorded, Priced, Agrees, AccOf, Accs
<1>. QED BY <1>1, <1>2 DEF OwnInv

LEMMA StepOwn == ASSUME MaxConcurrent = 1 PROVE PipeInv /\ OwnInv /\ [Next]_vars => OwnInv'
<1> SUFFICES ASSUME PipeInv, OwnInv, [Next]_vars PROVE OwnInv'
  OBVIOUS
<1>1. ASSUME NEW r \in Runs, Step(r) PROVE OwnInv'
  <2>1. Solo'
    BY <1>1, SoloStep DEF OwnInv
  <2>2. Mine(r)'
    BY <1>1, PublishesStep, CountsStep, PrimedStep, MeasuredStep, RecordedStep, PricedStep
    DEF OwnInv, Mine
  <2>3. ASSUME NEW q \in Runs \ {r} PROVE Mine(q)'
    BY <1>1, OtherRuns
  <2>. QED BY <2>1, <2>2, <2>3 DEF OwnInv
<1>2. CASE UNCHANGED vars
  BY <1>2 DEF vars, OwnInv, Solo, Mine, Publishes, Counts, Primed, Measured, Recorded,
              Priced, Agrees, Said, Up
<1>. QED BY <1>1, <1>2 DEF Next, Quiet, Step

LEMMA OwnInvariance == ASSUME MaxConcurrent = 1 PROVE Spec => [](PipeInv /\ LeftInv /\ OwnInv)
BY PipeInit, PipeStep, InitLeft, StepLeft, InitOwn, StepOwn, PTL DEF Spec

\* Where an agent object serves one run at a time, a prompt carries the recall of
\* its own run or none, in streams and in reflection, too.
THEOREM RecallIsOwn == ASSUME MaxConcurrent = 1 PROVE Spec => []OwnRecall
<1>1. PipeInv /\ LeftInv /\ OwnInv => OwnRecall
  <2>. SUFFICES ASSUME PipeInv, LeftInv, Solo, NEW r \in Runs, prefix[AgentOf[r]] # NoRun,
                       pc[r] \in {"core", "reflect"}
                PROVE  pc[r] = "core" /\ prefix[AgentOf[r]] = r /\ r \notin Streams
    BY DEF OwnRecall, OwnInv, Agent
  <2>1. PrefixOk(AgentOf[r]) /\ prefix[AgentOf[r]] \in Runs
    BY DEF LeftInv, PipeInv, Shapes
  <2>2. prefix[AgentOf[r]] = r
    BY <2>1 DEF PrefixOk, Solo, Up, Live
  <2>3. "recall" \in Mounted(r)
    BY <2>1, <2>2 DEF PrefixOk, LeftInv, HoldOk
  <2>. QED BY <2>1, <2>2, <2>3 DEF PrefixOk, Mounted, Scoped
<1>. QED BY <1>1, OwnInvariance, PTL

\* Where an agent object serves one run at a time, episodic memory and the session
\* keep of a run what its own last_metrics said: its usage, and the outcome in its row.
THEOREM RecordsAreOwn == ASSUME MaxConcurrent = 1 PROVE Spec => []RecordsOwnMetrics
<1>1. OwnInv => RecordsOwnMetrics
  BY DEF OwnInv, Mine, Recorded, RecordsOwnMetrics
<1>. QED BY <1>1, OwnInvariance, PTL

\* Where an agent object serves one run at a time, a run passes its token cap by one
\* call at most, and its reflection, primed with what it has spent, never does.
THEOREM CapHolds == ASSUME MaxConcurrent = 1 PROVE Spec => []CapBounds
<1>1. OwnInv => CapBounds
  BY DEF OwnInv, Mine, Counts, Primed, CapBounds
<1>. QED BY <1>1, OwnInvariance, PTL

\* Where an agent object serves one run at a time, the row of a run has the cost of
\* all the calls its core made: the pipeline and complete() share one accumulator.
THEOREM CostIsExact == ASSUME MaxConcurrent = 1 PROVE Spec => []RunCostExact
<1>1. OwnInv => RunCostExact
  BY DEF OwnInv, Mine, Priced, RunCostExact
<1>. QED BY <1>1, OwnInvariance, PTL

-----------------------------------------------------------------------------
(* The type invariant *)

\* A caller and its worker are the most that count in one context.
Small ==
    /\ depth \in [Contexts -> 0 .. 2]
    /\ token \in [Runs -> [depth : 0 .. 2, gate : Agents \cup {NoAgent}]]
    /\ calls \in [Runs -> 0 .. MaxCalls]

LEMMA SmallCalls ==
    ASSUME PipeInv, NEW r \in Runs, Step(r), calls \in [Runs -> 0 .. MaxCalls]
    PROVE  calls' \in [Runs -> 0 .. MaxCalls]
<1> USE BoundAssumption
<1>1. CASE Call(r) \/ CloseStream(r)
  BY <1>1 DEF Call, CloseStream
<1>2. CASE Start(r) \/ StartCore(r) \/ Telling(r) \/ EndCore(r) \/ Recording(r)
  BY <1>2 DEF Start, StartCore, Telling, Deny, OverBudget, RejectInput, Emit, EndCore,
              Recording, PersistTrajectory, RecordSession
<1>3. CASE ReflectCall(r) \/ ReflectEnds(r) \/ Finish(r) \/ Still(r)
  BY <1>3 DEF ReflectCall, ReflectEnds, Finish, Still
<1>. QED BY <1>1, <1>2, <1>3, StillKinds DEF Counting

LEMMA SmallScopes ==
    ASSUME PipeInv, ScopeInv, Small, NEW r \in Runs, Step(r)
    PROVE  /\ depth' \in [Contexts -> 0 .. 2]
           /\ token' \in [Runs -> [depth : 0 .. 2, gate : Agents \cup {NoAgent}]]
<1> USE DEF Small
<1>1. CASE Start(r)
  BY <1>1 DEF Start, Forked, TopLevel, Context
<1>2. CASE Finish(r) \/ Plain(r)
  BY <1>2 DEF Finish, Plain
<1>3. CASE SetDepth(r)
  <2>1. HasControl(r) /\ "depth" \notin entered[r]
    BY <1>3, NoWorkers DEF SetDepth, Entering, HasControl, Up, Live
  <2>2. depth[ContextOf[r]] \in 0 .. 1
    BY <2>1 DEF ScopeInv, Sees, DepthOf, CallersDepth
  <2>. QED BY <1>3, <2>2 DEF SetDepth, Context
<1>4. CASE SetCapability(r)
  <2>1. gate[ContextOf[r]] \in Agents \cup {NoAgent}
    BY DEF ScopeInv, ScopeShapes
  <2>. QED BY <1>4, <2>1 DEF SetCapability, Context
<1>5. CASE ResetDepth(r)
  BY <1>5 DEF ResetDepth, Context
<1>6. CASE ResetCapability(r)
  BY <1>6 DEF ResetCapability
<1>. QED BY <1>1, <1>2, <1>3, <1>4, <1>5, <1>6, Kinds

\* Every reachable state of the pipeline is well typed, and no more than a caller
\* and its worker count in the audit depth of one context.
THEOREM PipelineTypes == Spec => []TypeOK
<1>1. Init => Small
  BY BoundAssumption DEF Init, Small
<1>2. PipeInv /\ ScopeInv /\ Small /\ [Next]_vars => Small'
  <2> SUFFICES ASSUME PipeInv, ScopeInv, Small, [Next]_vars PROVE Small'
    OBVIOUS
  <2>1. ASSUME NEW r \in Runs, Step(r) PROVE Small'
    BY <2>1, SmallCalls, SmallScopes DEF Small
  <2>2. CASE UNCHANGED vars
    BY <2>2 DEF vars, Small
  <2>. QED BY <2>1, <2>2 DEF Next, Quiet, Step
<1>3. PipeInv /\ ScopeInv /\ Small => TypeOK
  BY DEF PipeInv, Shapes, ScopeInv, ScopeShapes, Small, TypeOK
<1>. QED BY <1>1, <1>2, <1>3, PipeInit, PipeStep, InitScopes, StepScopes, PTL DEF Spec
=============================================================================
