---------------------------- MODULE RunPipeline ----------------------------
(***************************************************************************)
(* One run of an agent, module by module: the onion that                   *)
(* runtime/pipeline.py (Pipeline) makes of the middleware that             *)
(* core/middleware.py (build_chain) mounts, around the instrumented core   *)
(* of core/runnable.py and core/base_agent.py.                             *)
(*                                                                         *)
(* The state falls in three parts: what a run keeps to itself (where it    *)
(* is, the modules it is inside of, its exception); what all runs of one   *)
(* BaseAgent object share (the published usage accumulator, last_metrics,  *)
(* the recall prefix); and what runs share through a contextvars context   *)
(* (the audit depth, the capability gate in force).  A worker that an      *)
(* agent's own code runs shares its caller's context, or gets a copy of it *)
(* when it is forked to a thread.  A module that is mounted but not        *)
(* enabled passes through, like one that is not mounted.                   *)
(***************************************************************************)
EXTENDS Integers, Sequences, FiniteSets

CONSTANTS
    Runs, Agents, Contexts,
    NoRun,
    AgentOf,        \* the agent object of each run
    ParentOf,       \* the run whose core makes this one, or NoRun
    ContextOf,      \* the contextvars context each run executes in
    Streams,        \* the runs made with run_stream
    Disabled,       \* modules that are not mounted on each agent
    Strict,         \* agents that declare `capabilities`: any other skill is
                    \* denied while their gate is in force
    Faulty,         \* the stores that may fail: "ledger", "memory", "session"
    MaxConcurrent,  \* runs that may be in flight on one agent object
    MaxRunTokens,   \* per-run token cap; an LLM call is one token, one turn
                    \* and one unit of cost
    MaxCalls,       \* bound: LLM calls the core of a run may make
    MaxStarts       \* bound: runs that are started

Modules == {"security_input", "policy", "cost", "session", "trajectory",
            "depth", "recall", "reflect", "security_output", "verify",
            "capability"}

TopLevel(r) == ParentOf[r] = NoRun
Forked(r)   == ~TopLevel(r) /\ ContextOf[r] # ContextOf[ParentOf[r]]

ASSUME RunAssumption ==
    /\ IsFiniteSet(Runs) /\ NoRun \notin Runs
    /\ AgentOf \in [Runs -> Agents]
    /\ ParentOf \in [Runs -> Runs \cup {NoRun}]
    /\ ContextOf \in [Runs -> Contexts]
    /\ Disabled \in [Agents -> SUBSET Modules]
    /\ Strict \subseteq Agents
    /\ Faulty \subseteq {"ledger", "memory", "session"}
ASSUME NestingAssumption ==
    /\ Streams \subseteq {r \in Runs : TopLevel(r)}
    /\ \A r \in Runs : ~TopLevel(r) =>
        /\ TopLevel(ParentOf[r])
        /\ AgentOf[r] # AgentOf[ParentOf[r]]
    /\ \A r \in Runs : Forked(r) =>
        \A q \in Runs : ContextOf[q] = ContextOf[r] => q = r
ASSUME BoundAssumption ==
    {MaxConcurrent, MaxRunTokens, MaxCalls, MaxStarts} \subseteq Nat \ {0}

VARIABLES
    pc,          \* phase of each run
    entered,     \* the modules each run is inside of
    exc,         \* what each run is unwinding with
    root,        \* ctx.root
    token,       \* the values that the depth and capability scopes restore
    acc,         \* the accumulator InstrumentedRunnable holds for the run
    calls,       \* LLM calls its core has made
    depth,       \* _audit_depth of each context
    gate,        \* _active_capabilities of each context
    active,      \* _active_ctx of each agent
    metrics,     \* last_metrics of each agent
    prefix,      \* the run whose recall the agent's _recall_prefix holds
    usage,       \* what each accumulator has counted
    held,        \* runs whose budget reservation is not settled
    rows,        \* rows of the audit ledger, by run
    unlogged,    \* runs one of whose ledger writes failed
    trajectory,  \* what episodic memory recorded of each run
    session      \* what the session history recorded of each run

runVars    == <<pc, entered, exc>>
ctxVars    == <<root, token, depth, gate>>
agentVars  == <<active, metrics, prefix>>
usageVars  == <<acc, calls, usage>>
ledgerVars == <<held, rows, unlogged>>
recordVars == <<trajectory, session>>

vars == <<runVars, ctxVars, agentVars, usageVars, ledgerVars, recordVars>>

\* The accumulators: the one Pipeline keeps, the one InstrumentedRunnable makes
\* for itself, the one reflection primes.
Accs  == Runs \X {"pipeline", "core", "reflect"}
NoAcc == <<NoRun, "none">>

Metrics   == [run : Runs \cup {NoRun}, usage : Nat, ok : BOOLEAN]
NoMetrics == [run |-> NoRun, usage |-> 0, ok |-> FALSE]
NoAgent   == "no gate"
Row       == [status : {"ok", "error", "denied", "budget_exceeded"},
              root : BOOLEAN, cost : Nat]

Live == {"pre", "core", "emit", "post", "reflect"}

TypeOK ==
    /\ pc \in [Runs -> Live \cup {"idle", "done"}]
    /\ entered \in [Runs -> SUBSET Modules]
    /\ exc \in [Runs -> {"none", "error", "exit"}]
    /\ root \in [Runs -> BOOLEAN]
    /\ token \in [Runs -> [depth : 0 .. 2, gate : Agents \cup {NoAgent}]]
    /\ acc \in [Runs -> Accs \cup {NoAcc}]
    /\ calls \in [Runs -> 0 .. MaxCalls]
    /\ depth \in [Contexts -> 0 .. 2]
    /\ gate \in [Contexts -> Agents \cup {NoAgent}]
    /\ active \in [Agents -> Accs \cup {NoAcc}]
    /\ metrics \in [Agents -> Metrics]
    /\ prefix \in [Agents -> Runs \cup {NoRun}]
    /\ usage \in [Accs -> Nat]
    /\ held \subseteq Runs
    /\ rows \in [Runs -> Seq(Row)]
    /\ unlogged \subseteq Runs
    /\ trajectory \in [Runs -> Metrics]
    /\ session \in [Runs -> Metrics]

-----------------------------------------------------------------------------
(* The onion *)

\* Mutant of Order: the run is counted before the gates are asked.
OrderDepthFirst ==
    [security_input |-> 10, policy |-> 20, cost |-> 30, session |-> 34,
     trajectory |-> 36, depth |-> 15, recall |-> 60, reflect |-> 70,
     security_output |-> 75, verify |-> 80, capability |-> 90]

\* Mutant of Order: the budget is asked inside the bookkeeping.
OrderCostLate ==
    [security_input |-> 10, policy |-> 20, cost |-> 38, session |-> 34,
     trajectory |-> 36, depth |-> 40, recall |-> 60, reflect |-> 70,
     security_output |-> 75, verify |-> 80, capability |-> 90]

\* Chain positions: lower is entered earlier and left later.
Order ==
    [security_input |-> 10, policy |-> 20, cost |-> 30, session |-> 34,
     trajectory |-> 36, depth |-> 40, recall |-> 60, reflect |-> 70,
     security_output |-> 75, verify |-> 80, capability |-> 90]

\* The modules that offer `scope`, all that a streamed run mounts.
Scoped == {"policy", "cost", "depth", "capability"}

Mounted(r) == (IF r \in Streams THEN Scoped ELSE Modules) \ Disabled[AgentOf[r]]

\* Run r is about to enter module m, the outermost of those it is not inside of.
Entering(r, m) ==
    /\ pc[r] = "pre"
    /\ m \in Mounted(r) \ entered[r]
    /\ \A n \in Mounted(r) \ entered[r] : Order[m] <= Order[n]

\* Run r is about to leave module m, the innermost of those it is inside of.
Leaving(r, m) ==
    /\ pc[r] = "post"
    /\ m \in entered[r]
    /\ \A n \in entered[r] : Order[n] <= Order[m]

Enter(r, m) ==
    /\ entered' = [entered EXCEPT ![r] = @ \cup {m}]
    /\ UNCHANGED <<pc, exc>>

\* A gate refuses: the modules already entered unwind.
Refuse(r) ==
    /\ pc' = [pc EXCEPT ![r] = "post"]
    /\ exc' = [exc EXCEPT ![r] = "error"]
    /\ UNCHANGED entered

Leave(r, m) ==
    /\ entered' = [entered EXCEPT ![r] = @ \ {m}]
    /\ UNCHANGED <<pc, exc>>

\* A post phase that may raise, where nothing is raised yet.
LeaveOrRaise(r, m) ==
    /\ entered' = [entered EXCEPT ![r] = @ \ {m}]
    /\ \/ UNCHANGED exc
       \/ exc[r] = "none" /\ exc' = [exc EXCEPT ![r] = "error"]
    /\ UNCHANGED pc

Context(r) == ContextOf[r]
Agent(r)   == AgentOf[r]

\* SqliteAuditLogger.log behind a subscriber or _write_block: a failure warns.
Log(r, status, isRoot, cost) ==
    \/ /\ rows' = [rows EXCEPT ![r] =
              Append(@, [status |-> status, root |-> isRoot, cost |-> cost])]
       /\ UNCHANGED unlogged
    \/ /\ "ledger" \in Faulty
       /\ unlogged' = unlogged \cup {r}
       /\ UNCHANGED rows

\* The framework's scanners are skills: the gate in force denies them, too.
ScannersAllowed(r) == gate[Context(r)] \notin Strict

-----------------------------------------------------------------------------
(* Starting a run *)

Init ==
    /\ pc = [r \in Runs |-> "idle"]
    /\ entered = [r \in Runs |-> {}]
    /\ exc = [r \in Runs |-> "none"]
    /\ root = [r \in Runs |-> FALSE]
    /\ token = [r \in Runs |-> [depth |-> 0, gate |-> NoAgent]]
    /\ acc = [r \in Runs |-> NoAcc]
    /\ calls = [r \in Runs |-> 0]
    /\ depth = [c \in Contexts |-> 0]
    /\ gate = [c \in Contexts |-> NoAgent]
    /\ active = [a \in Agents |-> NoAcc]
    /\ metrics = [a \in Agents |-> NoMetrics]
    /\ prefix = [a \in Agents |-> NoRun]
    /\ usage = [x \in Accs |-> 0]
    /\ held = {}
    /\ rows = [r \in Runs |-> <<>>]
    /\ unlogged = {}
    /\ trajectory = [r \in Runs |-> NoMetrics]
    /\ session = [r \in Runs |-> NoMetrics]

InFlight(a)   == {r \in Runs : AgentOf[r] = a /\ pc[r] \in Live}
Workers(r)    == {w \in Runs : ParentOf[w] = r}
LiveWorkers(r) == {w \in Workers(r) : pc[w] \in Live}

\* The agent's own code has control in the core of run r.
InControl(r) ==
    /\ pc[r] = "core"
    /\ exc[r] = "none"
    /\ LiveWorkers(r) = {}
    /\ \A w \in Workers(r) : exc[w] = "none"

\* A context drives one run at a time: a top-level run finds its context free,
\* a worker is called by the code in control of its caller's, or forked beside
\* other forked workers.
MayStart(r) ==
    IF TopLevel(r)
    THEN \A q \in Runs : ContextOf[q] = ContextOf[r] => pc[q] \notin Live
    ELSE \/ InControl(ParentOf[r])
         \/ /\ Forked(r)
            /\ pc[ParentOf[r]] = "core"
            /\ exc[ParentOf[r]] = "none"
            /\ \A w \in LiveWorkers(ParentOf[r]) : Forked(w)

\* execute / execute_stream: _new_usage publishes the run's accumulator.
Start(r) ==
    /\ pc[r] = "idle"
    /\ Cardinality({q \in Runs : pc[q] # "idle"}) < MaxStarts
    /\ Cardinality(InFlight(Agent(r))) < MaxConcurrent
    /\ MayStart(r)
    /\ pc' = [pc EXCEPT ![r] = "pre"]
    /\ active' = [active EXCEPT ![Agent(r)] = <<r, "pipeline">>]
    /\ IF Forked(r)
       THEN /\ depth' = [depth EXCEPT ![Context(r)] = depth[ContextOf[ParentOf[r]]]]
            /\ gate' = [gate EXCEPT ![Context(r)] = gate[ContextOf[ParentOf[r]]]]
       ELSE UNCHANGED <<depth, gate>>
    /\ UNCHANGED <<entered, exc, root, token, metrics, prefix>>
    /\ UNCHANGED <<usageVars, ledgerVars, recordVars>>

-----------------------------------------------------------------------------
(* The pre phase *)

\* Modules with nothing to do on the way in, or nothing to object.
PassIn(r, m) ==
    /\ Entering(r, m)
    /\ m \in {"security_input", "policy", "session", "trajectory", "reflect",
              "security_output", "verify"}
    /\ m = "security_input" => ScannersAllowed(r)
    /\ Enter(r, m)
    /\ UNCHANGED <<ctxVars, agentVars, usageVars, ledgerVars, recordVars>>

\* SecurityInputMiddleware: check_input raises; no row is written.
RejectInput(r) ==
    /\ Entering(r, "security_input")
    /\ Refuse(r)
    /\ UNCHANGED <<ctxVars, agentVars, usageVars, ledgerVars, recordVars>>

\* PolicyMiddleware._check (an escalation takes the same path as a denial).
Deny(r) ==
    /\ Entering(r, "policy")
    /\ Refuse(r)
    /\ Log(r, "denied", depth[Context(r)] = 0, 0)
    /\ UNCHANGED held
    /\ UNCHANGED <<ctxVars, agentVars, usageVars, recordVars>>

\* Mutant of Reserve: the hold of a stream is settled when its generator is made.
ReserveForRunsOnly(r) ==
    /\ Entering(r, "cost")
    /\ Enter(r, "cost")
    /\ held' = IF r \in Streams THEN held ELSE held \cup {r}
    /\ UNCHANGED <<rows, unlogged>>
    /\ UNCHANGED <<ctxVars, agentVars, usageVars, recordVars>>

\* CostMiddleware._reserve; the decision itself is module CostLedger.
Reserve(r) ==
    /\ Entering(r, "cost")
    /\ Enter(r, "cost")
    /\ held' = held \cup {r}
    /\ UNCHANGED <<rows, unlogged>>
    /\ UNCHANGED <<ctxVars, agentVars, usageVars, recordVars>>

OverBudget(r) ==
    /\ Entering(r, "cost")
    /\ Refuse(r)
    /\ Log(r, "budget_exceeded", depth[Context(r)] = 0, 0)
    /\ UNCHANGED held
    /\ UNCHANGED <<ctxVars, agentVars, usageVars, recordVars>>

\* DepthMiddleware.scope, on the way in.
SetDepth(r) == LET c == Context(r) IN
    /\ Entering(r, "depth")
    /\ Enter(r, "depth")
    /\ token' = [token EXCEPT ![r].depth = depth[c]]
    /\ depth' = [depth EXCEPT ![c] = @ + 1]
    /\ root' = [root EXCEPT ![r] = depth[c] + 1 = 1]
    /\ UNCHANGED gate
    /\ UNCHANGED <<agentVars, usageVars, ledgerVars, recordVars>>

\* RecallMiddleware._load: a failed recall leaves the prefix empty.
LoadRecall(r) ==
    /\ Entering(r, "recall")
    /\ Enter(r, "recall")
    /\ \E loaded \in IF "memory" \in Faulty THEN {r, NoRun} ELSE {r} :
          prefix' = [prefix EXCEPT ![Agent(r)] = loaded]
    /\ UNCHANGED <<active, metrics>>
    /\ UNCHANGED <<ctxVars, usageVars, ledgerVars, recordVars>>

\* CapabilityMiddleware.scope, on the way in.
SetCapability(r) == LET c == Context(r) IN
    /\ Entering(r, "capability")
    /\ Enter(r, "capability")
    /\ token' = [token EXCEPT ![r].gate = gate[c]]
    /\ gate' = [gate EXCEPT ![c] = Agent(r)]
    /\ UNCHANGED <<root, depth>>
    /\ UNCHANGED <<agentVars, usageVars, ledgerVars, recordVars>>

-----------------------------------------------------------------------------
(* The core: InstrumentedRunnable.run and _instrument_stream *)

\* Mutant of StartCore: the core counts in an accumulator of its own.
StartCoreFresh(r) ==
    /\ pc[r] = "pre"
    /\ entered[r] = Mounted(r)
    /\ pc' = [pc EXCEPT ![r] = "core"]
    /\ acc' = [acc EXCEPT ![r] = <<r, "core">>]
    /\ active' = [active EXCEPT ![Agent(r)] = <<r, "core">>]
    /\ UNCHANGED <<entered, exc, calls, usage, metrics, prefix>>
    /\ UNCHANGED <<ctxVars, ledgerVars, recordVars>>

\* RunStarted, then the run adopts the published accumulator; a stream always
\* makes one of its own.
StartCore(r) ==
    LET adopted == IF r \in Streams \/ active[Agent(r)] = NoAcc
                   THEN <<r, "core">> ELSE active[Agent(r)]
    IN /\ pc[r] = "pre"
       /\ entered[r] = Mounted(r)
       /\ pc' = [pc EXCEPT ![r] = "core"]
       /\ acc' = [acc EXCEPT ![r] = adopted]
       /\ active' = [active EXCEPT ![Agent(r)] = adopted]
       /\ UNCHANGED <<entered, exc, calls, usage, metrics, prefix>>
       /\ UNCHANGED <<ctxVars, ledgerVars, recordVars>>

\* What accruing one call to accumulator x makes of the counts.
Accrue(x) ==
    usage' = IF x = NoAcc THEN usage ELSE [usage EXCEPT ![x] = @ + 1]

\* _count_turn and _enforce_token_cap, after the accrual.
OverCap(x) == x # NoAcc /\ usage'[x] > MaxRunTokens

\* Mutant of Call: the cap is enforced before the call is accrued.
CallChecksFirst(r) == LET x == active[Agent(r)] IN
    /\ InControl(r)
    /\ calls[r] < MaxCalls
    /\ calls' = [calls EXCEPT ![r] = @ + 1]
    /\ Accrue(x)
    /\ exc' = IF x # NoAcc /\ usage[x] > MaxRunTokens
              THEN [exc EXCEPT ![r] = "error"] ELSE exc
    /\ UNCHANGED <<pc, entered, acc>>
    /\ UNCHANGED <<ctxVars, agentVars, ledgerVars, recordVars>>

\* complete / stream_complete: the provider answers, the call is accrued to
\* whatever accumulator the agent publishes, and a cap that is passed aborts.
Call(r) == LET x == active[Agent(r)] IN
    /\ InControl(r)
    /\ calls[r] < MaxCalls
    /\ calls' = [calls EXCEPT ![r] = @ + 1]
    /\ Accrue(x)
    /\ exc' = IF OverCap(x) THEN [exc EXCEPT ![r] = "error"] ELSE exc
    /\ UNCHANGED <<pc, entered, acc>>
    /\ UNCHANGED <<ctxVars, agentVars, ledgerVars, recordVars>>

\* The agent's code or its provider raises, or a skill is denied.
CoreRaises(r) ==
    /\ InControl(r)
    /\ exc' = [exc EXCEPT ![r] = "error"]
    /\ UNCHANGED <<pc, entered>>
    /\ UNCHANGED <<ctxVars, agentVars, usageVars, ledgerVars, recordVars>>

\* The consumer closes a stream at a delta; the provider's usage never arrives.
CloseStream(r) ==
    /\ r \in Streams
    /\ InControl(r)
    /\ calls[r] < MaxCalls
    /\ calls' = [calls EXCEPT ![r] = @ + 1]
    /\ exc' = [exc EXCEPT ![r] = "error"]
    /\ UNCHANGED <<pc, entered, acc, usage>>
    /\ UNCHANGED <<ctxVars, agentVars, ledgerVars, recordVars>>

\* KeyboardInterrupt in the main thread: no `except Exception` sees it.
Interrupt(r) ==
    /\ InControl(r)
    /\ r \notin Streams /\ ~Forked(r)
    /\ exc' = [exc EXCEPT ![r] = "exit"]
    /\ UNCHANGED <<pc, entered>>
    /\ UNCHANGED <<ctxVars, agentVars, usageVars, ledgerVars, recordVars>>

\* A worker's exception goes on in the code that called it.
WorkerRaised(r) ==
    /\ pc[r] = "core"
    /\ exc[r] = "none"
    /\ LiveWorkers(r) = {}
    /\ \E w \in Workers(r) :
          /\ exc[w] # "none"
          /\ exc' = [exc EXCEPT ![r] = exc[w]]
    /\ UNCHANGED <<pc, entered>>
    /\ UNCHANGED <<ctxVars, agentVars, usageVars, ledgerVars, recordVars>>

\* Mutant of EndCore: metrics are recorded for successes alone.
EndCoreRecordsSuccess(r) ==
    /\ InControl(r) \/ (pc[r] = "core" /\ exc[r] # "none")
    /\ metrics' = IF exc[r] # "none" THEN metrics ELSE
           [metrics EXCEPT ![Agent(r)] =
              [run |-> r, usage |-> usage[acc[r]], ok |-> exc[r] # "error"]]
    /\ active' = [active EXCEPT ![Agent(r)] = NoAcc]
    /\ pc' = [pc EXCEPT ![r] = IF exc[r] = "exit" THEN "post" ELSE "emit"]
    /\ UNCHANGED <<entered, exc, prefix>>
    /\ UNCHANGED <<ctxVars, usageVars, ledgerVars, recordVars>>

\* The core returns or raises: `finally` records the metrics, with success
\* unless an Exception was caught, and unpublishes the accumulator.
EndCore(r) ==
    /\ InControl(r) \/ (pc[r] = "core" /\ exc[r] # "none")
    /\ metrics' = [metrics EXCEPT ![Agent(r)] =
          [run |-> r, usage |-> usage[acc[r]], ok |-> exc[r] # "error"]]
    /\ active' = [active EXCEPT ![Agent(r)] = NoAcc]
    /\ pc' = [pc EXCEPT ![r] = IF exc[r] = "exit" THEN "post" ELSE "emit"]
    /\ UNCHANGED <<entered, exc, prefix>>
    /\ UNCHANGED <<ctxVars, usageVars, ledgerVars, recordVars>>

\* Mutant of Emit: a stream's `finally` emits RunCompleted after RunFailed.
EmitTwice(r) ==
    /\ pc[r] = "emit"
    /\ Log(r, IF exc[r] = "none" THEN "ok" ELSE "error", root[r],
           usage[<<r, "pipeline">>])
    /\ pc' = [pc EXCEPT ![r] =
          IF exc[r] = "error" /\ Len(rows[r]) = 0 THEN "emit" ELSE "post"]
    /\ UNCHANGED <<entered, exc, held>>
    /\ UNCHANGED <<ctxVars, agentVars, usageVars, recordVars>>

\* RunCompleted or RunFailed -> AuditSubscriber, with the usage of the
\* accumulator the pipeline keeps.
Emit(r) ==
    /\ pc[r] = "emit"
    /\ Log(r, IF exc[r] = "none" THEN "ok" ELSE "error", root[r],
           usage[<<r, "pipeline">>])
    /\ pc' = [pc EXCEPT ![r] = "post"]
    /\ UNCHANGED <<entered, exc, held>>
    /\ UNCHANGED <<ctxVars, agentVars, usageVars, recordVars>>

-----------------------------------------------------------------------------
(* The post phase *)

\* Mutant of ResetCapability: no `finally`, a failing core keeps its gate.
ResetCapabilityOnSuccess(r) ==
    /\ Leaving(r, "capability")
    /\ Leave(r, "capability")
    /\ gate' = IF exc[r] # "none" THEN gate
               ELSE [gate EXCEPT ![Context(r)] = token[r].gate]
    /\ UNCHANGED <<root, token, depth>>
    /\ UNCHANGED <<agentVars, usageVars, ledgerVars, recordVars>>

ResetCapability(r) ==
    /\ Leaving(r, "capability")
    /\ Leave(r, "capability")
    /\ gate' = [gate EXCEPT ![Context(r)] = token[r].gate]
    /\ UNCHANGED <<root, token, depth>>
    /\ UNCHANGED <<agentVars, usageVars, ledgerVars, recordVars>>

\* VerifyMiddleware: the agent's post-condition may fail a run that succeeded.
Verify(r) ==
    /\ Leaving(r, "verify")
    /\ LeaveOrRaise(r, "verify")
    /\ UNCHANGED <<ctxVars, agentVars, usageVars, ledgerVars, recordVars>>

\* SecurityOutputMiddleware: check_output may fail it, too.
CheckOutput(r) ==
    /\ Leaving(r, "security_output")
    /\ LeaveOrRaise(r, "security_output")
    /\ exc[r] = "none" /\ ~ScannersAllowed(r) => exc'[r] = "error"
    /\ UNCHANGED <<ctxVars, agentVars, usageVars, ledgerVars, recordVars>>

\* ReflectMiddleware._reflect goes on to its LLM call: only for a success, and
\* only with tokens left.
Reflects(r) ==
    /\ exc[r] = "none"
    /\ metrics[Agent(r)].usage < MaxRunTokens

SkipReflect(r) ==
    /\ Leaving(r, "reflect")
    /\ ~Reflects(r)
    /\ Leave(r, "reflect")
    /\ UNCHANGED <<ctxVars, agentVars, usageVars, ledgerVars, recordVars>>

\* _budgeted_call: the run's spending primes an accumulator of its own, and the
\* recalled context is dropped.
ReflectCall(r) ==
    /\ Leaving(r, "reflect")
    /\ Reflects(r)
    /\ pc' = [pc EXCEPT ![r] = "reflect"]
    /\ prefix' = [prefix EXCEPT ![Agent(r)] = NoRun]
    /\ usage' = [usage EXCEPT ![<<r, "reflect">>] = metrics[Agent(r)].usage]
    /\ active' = [active EXCEPT ![Agent(r)] = <<r, "reflect">>]
    /\ UNCHANGED <<entered, exc, acc, calls, metrics>>
    /\ UNCHANGED <<ctxVars, ledgerVars, recordVars>>

\* The call answers or fails; neither fails the run.
ReflectEnds(r) ==
    /\ pc[r] = "reflect"
    /\ \/ Accrue(active[Agent(r)])
       \/ UNCHANGED usage
    /\ active' = [active EXCEPT ![Agent(r)] = NoAcc]
    /\ entered' = [entered EXCEPT ![r] = @ \ {"reflect"}]
    /\ pc' = [pc EXCEPT ![r] = "post"]
    /\ UNCHANGED <<exc, acc, calls, metrics, prefix>>
    /\ UNCHANGED <<ctxVars, ledgerVars, recordVars>>

\* Mutant of ClearRecall: no `finally`, a failing run leaves its recall behind.
ClearRecallOnSuccess(r) ==
    /\ Leaving(r, "recall")
    /\ Leave(r, "recall")
    /\ prefix' = IF exc[r] # "none" THEN prefix
                 ELSE [prefix EXCEPT ![Agent(r)] = NoRun]
    /\ UNCHANGED <<active, metrics>>
    /\ UNCHANGED <<ctxVars, usageVars, ledgerVars, recordVars>>

ClearRecall(r) ==
    /\ Leaving(r, "recall")
    /\ Leave(r, "recall")
    /\ prefix' = [prefix EXCEPT ![Agent(r)] = NoRun]
    /\ UNCHANGED <<active, metrics>>
    /\ UNCHANGED <<ctxVars, usageVars, ledgerVars, recordVars>>

\* Mutant of ResetDepth: a counter that the error path decrements once more.
ResetDepthTwice(r) == LET c == Context(r) IN
    /\ Leaving(r, "depth")
    /\ Leave(r, "depth")
    /\ depth' = [depth EXCEPT ![c] = @ - IF exc[r] # "none" THEN 2 ELSE 1]
    /\ UNCHANGED <<root, token, gate>>
    /\ UNCHANGED <<agentVars, usageVars, ledgerVars, recordVars>>

ResetDepth(r) ==
    /\ Leaving(r, "depth")
    /\ Leave(r, "depth")
    /\ depth' = [depth EXCEPT ![Context(r)] = token[r].depth]
    /\ UNCHANGED <<root, token, gate>>
    /\ UNCHANGED <<agentVars, usageVars, ledgerVars, recordVars>>

\* TrajectoryMiddleware._persist, from last_metrics, through the memory gateway;
\* a store that fails or a screen that is denied warns.
PersistTrajectory(r) ==
    /\ Leaving(r, "trajectory")
    /\ Leave(r, "trajectory")
    /\ \/ /\ ScannersAllowed(r)
          /\ trajectory' = [trajectory EXCEPT ![r] = metrics[Agent(r)]]
       \/ /\ ScannersAllowed(r) => "memory" \in Faulty
          /\ UNCHANGED trajectory
    /\ UNCHANGED session
    /\ UNCHANGED <<ctxVars, agentVars, usageVars, ledgerVars>>

\* SessionMiddleware._record, in the same way.
RecordSession(r) ==
    /\ Leaving(r, "session")
    /\ Leave(r, "session")
    /\ \/ /\ ScannersAllowed(r)
          /\ session' = [session EXCEPT ![r] = metrics[Agent(r)]]
       \/ /\ ScannersAllowed(r) => "session" \in Faulty
          /\ UNCHANGED session
    /\ UNCHANGED trajectory
    /\ UNCHANGED <<ctxVars, agentVars, usageVars, ledgerVars>>

\* Mutant of Settle: settled on the way out of a success only.
SettleOnSuccess(r) ==
    /\ Leaving(r, "cost")
    /\ Leave(r, "cost")
    /\ held' = IF exc[r] # "none" THEN held ELSE held \ {r}
    /\ UNCHANGED <<rows, unlogged>>
    /\ UNCHANGED <<ctxVars, agentVars, usageVars, recordVars>>

Settle(r) ==
    /\ Leaving(r, "cost")
    /\ Leave(r, "cost")
    /\ held' = held \ {r}
    /\ UNCHANGED <<rows, unlogged>>
    /\ UNCHANGED <<ctxVars, agentVars, usageVars, recordVars>>

\* Modules with nothing to do on the way out.
PassOut(r, m) ==
    /\ Leaving(r, m)
    /\ m \in {"security_input", "policy"}
    /\ Leave(r, m)
    /\ UNCHANGED <<ctxVars, agentVars, usageVars, ledgerVars, recordVars>>

\* run() unpublishes the accumulator once more; run_stream() does not.
Finish(r) ==
    /\ pc[r] = "post"
    /\ entered[r] = {}
    /\ pc' = [pc EXCEPT ![r] = "done"]
    /\ active' = IF r \in Streams THEN active
                 ELSE [active EXCEPT ![Agent(r)] = NoAcc]
    /\ UNCHANGED <<entered, exc, metrics, prefix>>
    /\ UNCHANGED <<ctxVars, usageVars, ledgerVars, recordVars>>

-----------------------------------------------------------------------------

Pre(r) ==
    \/ \E m \in Modules : PassIn(r, m)
    \/ RejectInput(r) \/ Deny(r) \/ Reserve(r) \/ OverBudget(r)
    \/ SetDepth(r) \/ LoadRecall(r) \/ SetCapability(r)

Core(r) ==
    \/ StartCore(r) \/ Call(r) \/ CoreRaises(r) \/ CloseStream(r)
    \/ Interrupt(r) \/ WorkerRaised(r) \/ EndCore(r) \/ Emit(r)

Post(r) ==
    \/ ResetCapability(r) \/ Verify(r) \/ CheckOutput(r)
    \/ SkipReflect(r) \/ ReflectCall(r) \/ ReflectEnds(r)
    \/ ClearRecall(r) \/ ResetDepth(r) \/ PersistTrajectory(r)
    \/ RecordSession(r) \/ Settle(r)
    \/ \E m \in Modules : PassOut(r, m)
    \/ Finish(r)

\* Every run is over, or will never be started.
Quiet ==
    /\ \A r \in Runs : pc[r] \notin Live
    /\ UNCHANGED vars

Next ==
    \/ \E r \in Runs : Start(r) \/ Pre(r) \/ Core(r) \/ Post(r)
    \/ Quiet

Spec == Init /\ [][Next]_vars
-----------------------------------------------------------------------------
(* Properties *)

Done(r)        == pc[r] = "done"
ReachedCore(r) == acc[r] # NoAcc
Said(r, kinds) == \E i \in DOMAIN rows[r] : rows[r][i].status \in kinds

\* A run whose core was reached leaves exactly one row in the ledger, "ok" or
\* "error", and a run that a gate refused at most one, with the gate's status:
\* nothing is recorded twice (a stream's except and finally both emit), and a
\* row is missing only where the write failed or the process was interrupted.
OneRowPerRun ==
    \A r \in Runs :
        /\ Len(rows[r]) <= IF r \in unlogged THEN 0 ELSE 1
        /\ Said(r, {"ok", "error"}) => ReachedCore(r)
        /\ Said(r, {"denied", "budget_exceeded"}) => ~ReachedCore(r)
        /\ Done(r) /\ ReachedCore(r) /\ exc[r] # "exit" /\ r \notin unlogged
               => Said(r, {"ok", "error"})

\* What a run has spent is covered, by its reservation until its row carries
\* it: the row comes before the settle, for runs that fail and for streams, too
\* (CostMiddleware: "settles AFTER the run's cost is recorded").
SpendCovered ==
    \A r \in Runs :
        calls[r] > 0 /\ "cost" \in Mounted(r) =>
            r \in held \/ rows[r] # <<>> \/ r \in unlogged \/ exc[r] = "exit"

\* A row is marked root when and only when its run is a top-level one, the rows
\* of refused runs included, and whether a worker shares its caller's context
\* or runs on a thread with a copy.
RootFlagTrue ==
    \A r \in Runs : \A i \in DOMAIN rows[r] :
        (\A q \in {r, ParentOf[r]} \ {NoRun} : "depth" \in Mounted(q)) =>
            rows[r][i].root = TopLevel(r)

\* The gate that r's caller has in force.
CallersGate(r) ==
    IF TopLevel(r) \/ "capability" \notin Mounted(ParentOf[r])
    THEN NoAgent ELSE AgentOf[ParentOf[r]]

\* Wherever a run has control, its context has the run's own capability gate in
\* force inside the capability module, and its caller's outside: released for
\* verify and the bookkeeping, put back for the caller after each worker,
\* failed or not.
GateInForce ==
    \A r \in Runs :
        pc[r] \in Live /\ (\A w \in LiveWorkers(r) : Forked(w)) =>
            gate[Context(r)] = IF "capability" \in entered[r]
                               THEN Agent(r) ELSE CallersGate(r)

\* A prompt carries the recall of its own run or none: streams, which do not
\* mount recall, and reflection calls never see what an earlier run recalled.
OwnRecall ==
    \A r \in Runs :
        /\ pc[r] = "core" =>
              prefix[Agent(r)] \in IF r \in Streams THEN {NoRun} ELSE {r, NoRun}
        /\ pc[r] = "reflect" => prefix[Agent(r)] = NoRun

\* A run that no core was reached for leaves nothing in episodic memory or in
\* the session, although last_metrics may hold an earlier run's
\* ("gates blocked the run before `_execute` -- nothing happened").
RefusedLeavesNothing ==
    \A r \in Runs :
        ~ReachedCore(r) => trajectory[r] = NoMetrics /\ session[r] = NoMetrics

\* What memory and session keep of a run is what that run did: its own usage,
\* and the success or failure that its ledger row tells.
Agrees(r, m) ==
    m # NoMetrics =>
        /\ m.run = r
        /\ r \notin Streams => m.usage = calls[r]
        /\ rows[r] # <<>> => (m.ok <=> Said(r, {"ok"}))

RecordsOwnMetrics ==
    \A r \in Runs : Agrees(r, trajectory[r]) /\ Agrees(r, session[r])

\* A run makes one call past its token cap at most, and reflection, primed with
\* what the run has spent, never passes it ("learning must never be the thing
\* that overspends").
CapBounds ==
    \A r \in Runs :
        /\ calls[r] <= MaxRunTokens + 1
        /\ usage[<<r, "reflect">>] <= MaxRunTokens

\* The row of a run (not a stream) has the cost of the calls its core made,
\* completed or failed: the accumulator the pipeline keeps is the one that
\* complete() fills (_new_usage).
RunCostExact ==
    \A r \in Runs \ Streams : \A i \in DOMAIN rows[r] :
        rows[r][i].cost = calls[r]

\* The same of a stream that completed.
StreamCostExact ==
    \A r \in Streams : \A i \in DOMAIN rows[r] :
        rows[r][i].status = "ok" => rows[r][i].cost = calls[r]

\* "Fail-closed before success is declared": a run whose row says "ok" is not
\* one that its verify hook or the output gate has failed.
OkMeansDelivered ==
    \A r \in Runs : Done(r) /\ Said(r, {"ok"}) => exc[r] = "none"

\* When no run is under way, nothing of the earlier ones is left: no hold, no
\* depth, no gate, no recall, and no published accumulator except that of a
\* stream its gates refused.
NothingLeftBehind ==
    \A r \in Runs :
        /\ Done(r) => r \notin held
        /\ (\A q \in Runs : pc[q] \notin Live) =>
            /\ TopLevel(r) => depth[Context(r)] = 0 /\ gate[Context(r)] = NoAgent
            /\ prefix[Agent(r)] = NoRun
            /\ active[Agent(r)] \in {NoAcc} \cup
                  {<<s, "pipeline">> : s \in {q \in Streams : ~ReachedCore(q)}}
=============================================================================
