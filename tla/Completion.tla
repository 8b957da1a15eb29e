----------------------------- MODULE Completion -----------------------------
(***************************************************************************)
(* The model calls of one agent's runs, through the chain of providers     *)
(* that project/discovery.py builds from lottie.yaml (llm/routing.py), and *)
(* the provider that the run's row in the audit ledger names.  Runs follow *)
(* each other on one agent object, as behind `lottie serve`.               *)
(***************************************************************************)
EXTENDS Naturals, Sequences

CONSTANTS
    Chain,        \* how many providers, in routing order
    MaxRuns, MaxCalls, MaxDeltas    \* bounds: runs, calls of a run, deltas of a call

Providers == 1 .. Chain
NoRow     == [provider |-> 0, served |-> <<>>]

VARIABLES
    active,     \* RoutedProvider._active
    named,      \* the provider that the pipeline of this run was built with
    served,     \* the providers that completed the run's calls
    rowOf,      \* the last run's row, and who had served it
    lpc,        \* "idle", "run", "asked", or "streaming" (a delta has escaped)
    streamed,   \* whether the call is stream_complete
    index,      \* the provider being asked
    outcome,    \* what each provider did in this call
    voices,     \* whose deltas the caller has got in this call
    deltas, calls, runs

completionVars == <<active, named, served, rowOf, lpc, streamed, index, outcome, voices,
                    deltas, calls, runs>>

Outcomes == {"unasked", "transient", "refused", "broken", "answered"}

TypeOK ==
    /\ {active, named, index} \subseteq Providers /\ voices \subseteq Providers
    /\ served \in Seq(Providers) /\ Len(served) <= MaxCalls
    /\ rowOf \in [provider : Providers \cup {0}, served : Seq(Providers)]
    /\ lpc \in {"idle", "run", "asked", "streaming"} /\ streamed \in BOOLEAN
    /\ outcome \in [Providers -> Outcomes]
    /\ deltas \in 0 .. MaxDeltas /\ calls \in 0 .. MaxCalls /\ runs \in 0 .. MaxRuns

Unasked == [p \in Providers |-> "unasked"]

Init ==
    /\ active = 1 /\ named = 1 /\ index = 1 /\ served = <<>> /\ rowOf = NoRow
    /\ lpc = "idle" /\ streamed = FALSE /\ outcome = Unasked /\ voices = {}
    /\ deltas = 0 /\ calls = 0 /\ runs = 0

\* _build_pipeline: Pipeline(provider=self.provider), which is the chain's model
\* at this moment.
StartRun ==
    /\ lpc = "idle" /\ runs < MaxRuns /\ runs' = runs + 1
    /\ lpc' = "run" /\ named' = active /\ served' = <<>> /\ calls' = 0
    /\ UNCHANGED <<active, rowOf, streamed, index, outcome, voices, deltas>>

\* complete, stream_complete, or a summary that the compaction asks for.
Ask ==
    /\ lpc = "run" /\ calls < MaxCalls /\ calls' = calls + 1
    /\ lpc' = "asked" /\ streamed' \in BOOLEAN
    /\ index' = 1 /\ outcome' = Unasked /\ voices' = {} /\ deltas' = 0
    /\ UNCHANGED <<active, named, served, rowOf, runs>>

\* The provider asked returns, or its stream ends.
Answer ==
    /\ lpc = "asked" \/ lpc = "streaming"
    /\ lpc' = "run" /\ active' = index /\ served' = Append(served, index)
    /\ outcome' = [outcome EXCEPT ![index] = "answered"]
    /\ UNCHANGED <<named, rowOf, streamed, index, voices, deltas, calls, runs>>

Delta ==
    /\ lpc \in {"asked", "streaming"} /\ streamed /\ deltas < MaxDeltas
    /\ lpc' = "streaming" /\ deltas' = deltas + 1 /\ voices' = voices \cup {index}
    /\ UNCHANGED <<active, named, served, rowOf, streamed, index, outcome, calls, runs>>

\* is_transient: the listed kinds; a refusal, a bad request and an unknown
\* error are not.
Kinds == {"transient", "refused"}
FallsBackAnytime(kind) == kind = "transient" /\ index < Chain
FallsBack(kind) == lpc # "streaming" /\ kind = "transient" /\ index < Chain

\* The provider asked raises.  The chain advances, or the error leaves the call
\* and the agent ends its run or goes on without the answer.
Fail == \E kind \in Kinds :
    /\ lpc \in {"asked", "streaming"}
    /\ outcome' = [outcome EXCEPT ![index] = IF lpc = "streaming" THEN "broken" ELSE kind]
    /\ IF FallsBack(kind)
       THEN lpc' = "asked" /\ index' = index + 1
       ELSE lpc' = "run" /\ UNCHANGED index
    /\ UNCHANGED <<active, named, served, rowOf, streamed, voices, deltas, calls, runs>>

\* The client closes the stream: GeneratorExit is no Exception, so that the chain
\* does not advance; nor is `_active` set.
CloseStream ==
    /\ lpc = "streaming" /\ lpc' = "run"
    /\ UNCHANGED <<active, named, served, rowOf, streamed, index, outcome, voices,
                   deltas, calls, runs>>

\* The run ends, well or not, and its row is written.
EndRun ==
    /\ lpc = "run" /\ lpc' = "idle"
    /\ rowOf' = [provider |-> named, served |-> served]
    /\ UNCHANGED <<active, named, served, streamed, index, outcome, voices, deltas,
                   calls, runs>>

Next == StartRun \/ Ask \/ Answer \/ Delta \/ Fail \/ CloseStream \/ EndRun

Spec == Init /\ [][Next]_completionVars

-----------------------------------------------------------------------------
(* Properties *)

\* An answer is never spliced from two models, and a refusal is never shopped
\* around: what the caller has got of one call comes from one provider, and
\* behind one that refused, or broke off after its first delta, nobody is asked
\* (llm/routing.py, the two rules of its docstrings).
OneVoice ==
    /\ \A p, q \in voices : p = q
    /\ \A p, q \in Providers :
          p < q /\ outcome[p] \in {"refused", "broken"} =>
              outcome[q] = "unasked" /\ q \notin voices
    /\ \A p \in Providers : outcome[p] = "answered" =>
          voices \subseteq {p} /\ \A q \in 1 .. p - 1 : outcome[q] = "transient"

\* The row of a run names the provider that served its last call: "so
\* `agent.provider` - which feeds the audit record - names what actually ran
\* rather than what was intended" (llm/routing.py).
RowNamesServer ==
    rowOf.served # <<>> => rowOf.provider = rowOf.served[Len(rowOf.served)]
=============================================================================
