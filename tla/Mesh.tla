-------------------------------- MODULE Mesh --------------------------------
(***************************************************************************)
(* A mesh agent (mesh/base.py): a supervisor asks an LLM which worker runs *)
(* next, until it says FINISH, on one of two engines.  LocalEngine         *)
(* (mesh/local.py) is a loop in memory.  LangGraphEngine                   *)
(* (mesh/langgraph_engine.py) runs a graph in supersteps, checkpoints      *)
(* every one, runs a fan-out's workers in parallel, and stops in front of  *)
(* the workers of interrupt_before until a human approves or rejects.      *)
(*                                                                         *)
(* A thread is one conversation with the mesh: its first run, and on       *)
(* LangGraph the resumes of it, one call at a time.  The checkpoint holds  *)
(* the history and the nodes that are next; a worker's writes are put as   *)
(* it ends, so a superstep that fails half-way leaves the finished part.   *)
(***************************************************************************)
EXTENDS Integers, Sequences, FiniteSets, SequencesExt

CONSTANTS
    Workers,      \* the declared nodes: naturals, in the order of their names
    Gated,        \* interrupt_before
    Threads,      \* thread ids (uuid4 or given)
    NoAnswer, NoPlan,
    Routings,     \* bound: the lists of names that a supervisor may answer
    MaxSteps,     \* MeshInput.max_steps
    ResumeLimit,  \* recursion limit of a resume, which sets none: LangGraph's own
    MaxResumes,   \* bound: resumes of one thread
    MaxCrashes    \* bound: restarts of the process

Supervisor == 0
FINISH     == 1

ASSUME WorkersAssumption ==
    /\ IsFiniteSet(Workers) /\ Workers \subseteq Nat \ {Supervisor, FINISH}
    /\ Gated \subseteq Workers
ASSUME RoutingsAssumption ==
    \A d \in Routings : d \in Seq(Workers \cup {FINISH}) /\ Len(d) > 0
ASSUME LimitAssumption ==
    /\ {MaxSteps, ResumeLimit} \subseteq Nat \ {0}
    /\ {MaxResumes, MaxCrashes} \subseteq Nat

VARIABLES
    engine,      \* "local" or "langgraph"
    durable,     \* LangGraph's checkpointer is sqlite, not memory
    pc,          \* each thread: "new", "running", or how its last call ended
    history,     \* MeshState.history (in the checkpoint, on LangGraph)
    next,        \* the nodes the next superstep runs
    stamp,       \* history's length when the superstep began
    bypass,      \* the superstep an approval begins with: not interrupted
    busy,        \* the workers of the superstep are executing
    steps,       \* supersteps (LocalEngine: routings) left to the call
    recorder,    \* PlanRecorder.decisions of a first run, NoPlan in a resume
    plans,       \* the plan files: one per thread, and "last"
    answer,      \* history of the last result returned for each thread
    approved,    \* approvals given to each thread
    spent,       \* executions of a gated worker that were begun
    resumes, crashes

meshVars == <<pc, history, next, stamp, bypass, busy, steps>>
planVars == <<recorder, plans, answer>>
countVars == <<approved, spent, resumes, crashes>>
vars == <<engine, durable, meshVars, planVars, countVars>>

Plans == Threads \cup {"last"}
\* What a supervisor may choose: FINISH, a worker, or several names at once
\* (SupervisorRouter resolves each name of a list, FINISH among them).
Names     == Workers \cup {FINISH}
Decisions == {<<FINISH>>} \cup Routings

StepResults == [worker : Workers, verdict : {"ran", "rejected"}, step : Nat]

ASSUME NoAnswerAssumption == NoAnswer \notin Seq(StepResults)

TypeOK ==
    /\ engine \in {"local", "langgraph"} /\ durable \in BOOLEAN
    /\ pc \in [Threads -> {"new", "running", "interrupted", "complete", "failed"}]
    /\ history \in [Threads -> Seq(StepResults)]
    /\ next \in [Threads -> Seq(Workers \cup {Supervisor})]
    /\ stamp \in [Threads -> Nat]
    /\ bypass \in [Threads -> BOOLEAN] /\ busy \in [Threads -> BOOLEAN]
    /\ steps \in [Threads -> Nat]
    /\ recorder \in [Threads -> Seq(Seq(Names)) \cup {NoPlan}]
    /\ plans \in [Plans -> [thread : Threads, steps : Seq(Seq(Names))]
                            \cup {NoPlan}]
    /\ answer \in [Threads -> Seq(StepResults) \cup {NoAnswer}]
    /\ approved \in [Threads -> Nat] /\ spent \in [Threads -> Nat]
    /\ resumes \in [Threads -> 0 .. MaxResumes] /\ crashes \in 0 .. MaxCrashes

Init ==
    /\ engine \in {"local", "langgraph"}
    /\ durable \in (IF engine = "langgraph" THEN BOOLEAN ELSE {FALSE})
    /\ pc = [t \in Threads |-> "new"]
    /\ history = [t \in Threads |-> <<>>]
    /\ next = [t \in Threads |-> <<>>]
    /\ stamp = [t \in Threads |-> 0]
    /\ bypass = [t \in Threads |-> FALSE]
    /\ busy = [t \in Threads |-> FALSE]
    /\ steps = [t \in Threads |-> 0]
    /\ recorder = [t \in Threads |-> NoPlan]
    /\ plans = [k \in Plans |-> NoPlan]
    /\ answer = [t \in Threads |-> NoAnswer]
    /\ approved = [t \in Threads |-> 0]
    /\ spent = [t \in Threads |-> 0]
    /\ resumes = [t \in Threads |-> 0]
    /\ crashes = 0

Running(t)  == pc[t] = "running"
IsGated(q)  == \E i \in DOMAIN q : q[i] \in Gated
\* snap.next holds a worker of interrupt_before: _snapshot says "interrupted".
Waiting(t)  == engine = "langgraph" /\ IsGated(next[t])
Pending(q)  == Cardinality({i \in DOMAIN q : q[i] \in Gated})
Asked(t)    == IF engine = "local" THEN 0 ELSE Pending(next[t])
Routing(t)  == Running(t) /\ next[t] = <<Supervisor>>
Known(t)    == engine = "langgraph" /\ (history[t] # <<>> \/ next[t] # <<>>)

\* How every call begins: at the checkpoint, or with the supervisor.
Begin(t, limit, nodes, approval) ==
    /\ pc' = [pc EXCEPT ![t] = "running"]
    /\ next' = [next EXCEPT ![t] = nodes]
    /\ steps' = [steps EXCEPT ![t] = limit]
    /\ bypass' = [bypass EXCEPT ![t] = approval]

\* How it ends: what the call itself kept is gone.
EndCall(t, how) ==
    /\ pc' = [pc EXCEPT ![t] = how]
    /\ steps' = [steps EXCEPT ![t] = 0]
    /\ bypass' = [bypass EXCEPT ![t] = FALSE]
    /\ recorder' = [recorder EXCEPT ![t] = NoPlan]

\* The call raises: LangGraph keeps the thread at its checkpoint.
Fail(t) ==
    /\ EndCall(t, "failed")
    /\ busy' = [busy EXCEPT ![t] = FALSE]
    /\ UNCHANGED <<history, next, stamp, plans, answer, countVars>>

\* MeshAgent._execute
Run(t) ==
    /\ pc[t] = "new"
    /\ Begin(t, IF engine = "local" THEN MaxSteps ELSE 3 * MaxSteps,
             <<Supervisor>>, FALSE)
    /\ recorder' = [recorder EXCEPT ![t] = <<>>]
    /\ UNCHANGED <<history, stamp, busy, plans, answer, countVars>>

-----------------------------------------------------------------------------
(* The supervisor *)

\* PlanRecorder.__call__: a lone FINISH is no step of the plan.
Recorded(t, d) ==
    IF recorder[t] = NoPlan \/ d = <<FINISH>> THEN recorder[t]
                                              ELSE Append(recorder[t], d)

\* The budget of the call is used up, or the LLM fails, names an undeclared
\* worker, or lists FINISH beside a worker, for which the graph has no node.
RouteFails(t) == Routing(t) /\ Fail(t)

Route(t, d) ==
    /\ Routing(t)
    /\ steps[t] > 0
    /\ FINISH \notin ToSet(d)
    /\ engine = "local" => Len(d) = 1
    /\ next' = [next EXCEPT ![t] = d]
    /\ stamp' = [stamp EXCEPT ![t] = Len(history[t])]
    /\ bypass' = [bypass EXCEPT ![t] = FALSE]
    /\ steps' = [steps EXCEPT ![t] = @ - 1]
    /\ recorder' = [recorder EXCEPT ![t] = Recorded(t, d)]
    /\ UNCHANGED <<pc, history, busy, plans, answer, countVars>>

\* sorted(history, key=(step, worker)): Python's sort keeps the order of equals.
Before(h, i, j) ==
    \/ h[i].step < h[j].step
    \/ h[i].step = h[j].step /\ h[i].worker < h[j].worker
    \/ h[i].step = h[j].step /\ h[i].worker = h[j].worker /\ i < j
Rank(h, i) == Cardinality({j \in DOMAIN h : Before(h, j, i)})
Sorted(h)  == [k \in DOMAIN h |-> h[CHOOSE i \in DOMAIN h : Rank(h, i) = k - 1]]

\* LocalEngine's history is in order; LangGraph's is sorted.
Result(t) == IF engine = "local" THEN history[t] ELSE Sorted(history[t])

\* MeshAgent._save_plan: a first run that is complete, and best effort.
SavePlan(t, decided) ==
    \/ UNCHANGED plans
    \/ /\ decided # NoPlan
       /\ plans' = [plans EXCEPT ![IF engine = "local" THEN "last" ELSE t] =
                       [thread |-> t, steps |-> decided]]

\* FINISH.  LocalEngine reads only decision.next, which a fan-out sets to
\* FINISH as well.
Finish(t, d) ==
    /\ Routing(t)
    /\ steps[t] > 0
    /\ d = <<FINISH>> \/ (engine = "local" /\ Len(d) > 1)
    /\ EndCall(t, "complete")
    /\ next' = [next EXCEPT ![t] = <<>>]
    /\ answer' = [answer EXCEPT ![t] = Result(t)]
    /\ SavePlan(t, Recorded(t, d))
    /\ UNCHANGED <<history, stamp, busy, countVars>>

-----------------------------------------------------------------------------
(* The workers *)

AtWorkers(t) == Running(t) /\ next[t] # <<>> /\ ~Routing(t)

\* Mutant: only a first run stops in front of gated workers.
HeldOnFirstRun(t) == Waiting(t) /\ ~bypass[t] /\ resumes[t] = 0

\* interrupt_before stops the call in front of a superstep with such a worker.
Held(t) == Waiting(t) /\ ~bypass[t]

Interrupt(t) ==
    /\ AtWorkers(t) /\ Held(t) /\ steps[t] > 0
    /\ EndCall(t, "interrupted")
    /\ answer' = [answer EXCEPT ![t] = history[t]]
    /\ UNCHANGED <<history, next, stamp, busy, plans, countVars>>

\* A superstep executes all of its workers at once.
Launch(t) ==
    /\ AtWorkers(t) /\ ~Held(t) /\ ~busy[t]
    /\ engine = "langgraph" => steps[t] > 0
    /\ busy' = [busy EXCEPT ![t] = TRUE]
    /\ spent' = [spent EXCEPT ![t] = @ + Asked(t)]
    /\ UNCHANGED <<pc, history, next, stamp, bypass, steps, planVars,
                   approved, resumes, crashes>>

\* Mutant: a parallel worker's step keeps the default position.
DoneUnstamped(t, i) ==
    [worker |-> next[t][i], verdict |-> "ran", step |-> 0]

\* Workers of one superstep end in any order.  _wrap stamps a step with the
\* history's length at the routing, the same for all of a fan-out.
Done(t, i) ==
    [worker |-> next[t][i], verdict |-> "ran",
     step |-> IF engine = "local" THEN 0 ELSE stamp[t]]

\* Mutant: the node returns its whole history, which the reducer appends.
AddWhole(t, step) == history[t] \o Append(history[t], step)

\* What a superstep adds to the history: the delta past `base`, by operator.add.
Add(t, step) == Append(history[t], step)

Work(t, i) ==
    /\ Running(t) /\ busy[t]
    /\ history' = [history EXCEPT ![t] = Add(t, Done(t, i))]
    /\ next' = [next EXCEPT ![t] =
                   IF Len(@) = 1 THEN <<Supervisor>> ELSE RemoveAt(@, i)]
    /\ busy' = [busy EXCEPT ![t] = Len(next[t]) > 1]
    /\ steps' = [steps EXCEPT ![t] =
                   IF engine = "langgraph" /\ Len(next[t]) = 1 THEN @ - 1 ELSE @]
    /\ UNCHANGED <<pc, stamp, bypass, planVars, countVars>>

\* A worker raises, having done what it did, or no superstep is left.
WorkFails(t) ==
    /\ AtWorkers(t)
    /\ busy[t] \/ (engine = "langgraph" /\ steps[t] = 0)
    /\ Fail(t)

-----------------------------------------------------------------------------
(* Resuming *)

Resumable(t) == pc[t] \notin {"new", "running"} /\ resumes[t] < MaxResumes

\* LocalEngine has no checkpoint; the thread is not in this process's memory;
\* or edited_input names a field that is not editable.
ResumeRefused(t) ==
    /\ Resumable(t)
    /\ resumes' = [resumes EXCEPT ![t] = @ + 1]
    /\ UNCHANGED <<meshVars, planVars, approved, spent, crashes>>

\* An approval, also of a thread that a failure or a crash left half-way.
Approve(t) ==
    /\ Resumable(t) /\ Known(t)
    /\ Begin(t, ResumeLimit, next[t], TRUE)
    /\ recorder' = [recorder EXCEPT ![t] = NoPlan]
    /\ approved' = [approved EXCEPT ![t] = @ + Asked(t)]
    /\ resumes' = [resumes EXCEPT ![t] = @ + 1]
    /\ UNCHANGED <<history, stamp, busy, plans, answer, spent, crashes>>

\* Mutant: the rejection is recorded as the node that ran last.
RejectedLast(t) == Supervisor

\* The rejection is recorded as a step of snap.next[0]; LangGraph drops the
\* other sends of a fan-out.  A human rejects what was shown as pending.
Rejected(t) == next[t][1]

Reject(t) ==
    /\ Resumable(t) /\ Known(t) /\ Waiting(t)
    /\ history' = [history EXCEPT ![t] =
           Append(@, [worker |-> Rejected(t), verdict |-> "rejected",
                      step |-> Len(@)])]
    /\ Begin(t, ResumeLimit, <<Supervisor>>, FALSE)
    /\ recorder' = [recorder EXCEPT ![t] = NoPlan]
    /\ resumes' = [resumes EXCEPT ![t] = @ + 1]
    /\ UNCHANGED <<stamp, busy, plans, answer, approved, spent, crashes>>

\* Mutant: a result is made for first runs only.
EndAgainFirst(t) ==
    /\ Running(t) /\ next[t] = <<>> /\ recorder[t] # NoPlan
    /\ Finish(t, <<FINISH>>)

\* An approval of a finished thread: no superstep, the same result again.
EndAgain(t) ==
    /\ Running(t) /\ next[t] = <<>>
    /\ EndCall(t, "complete")
    /\ answer' = [answer EXCEPT ![t] = Result(t)]
    /\ UNCHANGED <<history, next, stamp, busy, plans, countVars>>

\* The process restarts: calls die, and with them what only memory held.
Crash ==
    /\ crashes < MaxCrashes
    /\ crashes' = crashes + 1
    /\ pc' = [t \in Threads |-> IF Running(t) THEN "failed" ELSE pc[t]]
    /\ recorder' = [t \in Threads |-> NoPlan]
    /\ IF durable
       THEN UNCHANGED <<history, next>>
       ELSE /\ history' = [t \in Threads |-> <<>>]
            /\ next' = [t \in Threads |-> <<>>]
    /\ busy' = [t \in Threads |-> FALSE]
    /\ steps' = [t \in Threads |-> 0]
    /\ bypass' = [t \in Threads |-> FALSE]
    /\ UNCHANGED <<stamp, plans, answer, approved, spent, resumes>>

Progress(t) ==
    /\ Running(t)
    /\ \/ RouteFails(t) \/ Interrupt(t) \/ Launch(t) \/ WorkFails(t) \/ EndAgain(t)
       \/ \E d \in Decisions : Route(t, d) \/ Finish(t, d)
       \/ \E i \in DOMAIN next[t] : Work(t, i)
    /\ UNCHANGED <<engine, durable>>

Decide(t) ==
    /\ Run(t) \/ ResumeRefused(t) \/ Approve(t) \/ Reject(t)
    /\ UNCHANGED <<engine, durable>>

Next ==
    \/ \E t \in Threads : Decide(t) \/ Progress(t)
    \/ Crash /\ UNCHANGED <<engine, durable>>

Spec == Init /\ [][Next]_vars

\* A call that is under way goes on; callers, humans and crashes are free.
FairSpec == Spec /\ \A t \in Threads : WF_vars(Progress(t))
-----------------------------------------------------------------------------
(* Properties *)

\* A worker of interrupt_before executes only for an approval of its own
\* (langgraph_engine.py, interrupt_before and resume): one that failed, or whose
\* process died, has used its approval up and is asked for again.
ApprovalNeeded == \A t \in Threads : spent[t] <= approved[t]

\* The groups of a plan, in order, are what ran; workers of a group in any order.
Start(plan, i) == Len(FlattenSeq(SubSeq(plan, 1, i - 1)))

GroupRan(group, start, ran) ==
    \E f \in Bijection(DOMAIN group, DOMAIN group) :
        \A j \in DOMAIN group : ran[start + j].worker = group[f[j]]

RunsPlan(plan, ran) ==
    /\ Len(ran) = Len(FlattenSeq(plan))
    /\ \A i \in DOMAIN plan : GroupRan(plan[i], Start(plan, i), ran)

\* A saved plan is what ran: its groups of workers, in order, are the history
\* that was returned (mesh/base.py: "Exact by construction").  Left out is the
\* fan-out that LocalEngine ends a run with, recorded and not run.
PlanIsWhatRan ==
    \A k \in Plans :
        plans[k] # NoPlan =>
            LET plan == plans[k].steps
            IN  \/ engine = "local" /\ plan # <<>> /\ Len(Last(plan)) > 1
                \/ RunsPlan(plan, answer[plans[k].thread])

J == INSTANCE MeshJournal WITH
        Steps  <- StepResults,
        record <- history,
        asked  <- {t \in Threads : Waiting(t) /\ ~Running(t)}

\* What a human is shown and asked is kept as MeshJournal promises, over
\* fan-outs, failures, rejections and restarts (langgraph_engine.py, the
\* checkpointed history and the snapshot of it).
Journal == J!JournalSpec

\* Every call that runs or resumes a mesh comes to an end, whatever the
\* supervisor answers.
EveryCallEnds == \A t \in Threads : Running(t) ~> ~Running(t)
=============================================================================
