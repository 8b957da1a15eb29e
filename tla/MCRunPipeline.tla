--------------------------- MODULE MCRunPipeline ---------------------------
(* Instances of RunPipeline for TLC. *)
EXTENDS RunPipeline, TLC

CONSTANTS m, n, s, w, v,     \* runs
          a1, a2, a3,        \* agent objects
          main, tv           \* contexts

\* Agent a1 makes two plain runs (m, n) and a stream (s) on one context; n has
\* a worker of agent a2 in its own context (w), and one of agent a3 on a thread
\* (v).
MCRuns      == {m, n, s, w, v}
MCAgents    == {a1, a2, a3}
MCContexts  == {main, tv}
MCAgentOf   == (m :> a1) @@ (n :> a1) @@ (s :> a1) @@ (w :> a2) @@ (v :> a3)
MCParentOf  == (m :> NoRun) @@ (n :> NoRun) @@ (s :> NoRun) @@ (w :> n) @@ (v :> n)
MCContextOf == (m :> main) @@ (n :> main) @@ (s :> main) @@ (w :> main) @@ (v :> tv)
MCDisabled  == (a1 :> {}) @@ (a2 :> {"recall", "reflect"})
                         @@ (a3 :> {"recall", "reflect", "trajectory", "session",
                                   "capability"})

\* `lottie serve`: two requests on the one cached agent object, each on a worker
\* thread with a context of its own.
MCServeRuns      == {m, n}
MCServeAgentOf   == (m :> a1) @@ (n :> a1)
MCServeParentOf  == (m :> NoRun) @@ (n :> NoRun)
MCServeContextOf == (m :> main) @@ (n :> tv)
=============================================================================
