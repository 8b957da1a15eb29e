------------------------------ MODULE MCServe -------------------------------
(* An instance of Serve for TLC. *)
EXTENDS Serve

CONSTANTS q1, q2, q3    \* the requests

Ask(route, agent, key, input) ==
    [route |-> route, agent |-> agent, key |-> key, input |-> input, thread |-> None]

Mix(a, b, c) == q1 :> a @@ q2 :> b @@ q3 :> c
Resume(agent, t, input) == [Ask("resume", agent, "key", input) EXCEPT !.thread = t]

\* A request that is never sent: nobody is told its thread before it runs.
Silent(q) == Resume("mesh", q, "fine")
Bad      == Ask("run", "plain", "key", "malformed")
Mesh     == Ask("run", "mesh", "key", "fine")
Stream(agent, input) == Ask("stream", agent, "key", input)

\* A stream by itself; two builds of a mesh and a resume; three requests at the
\* limiter; and every way in which a request is refused.
MCTraffic ==
    {Mix(Stream("talker", "fine"), Silent(q2), Silent(q3)), Mix(Bad, Bad, Bad)}
    \cup {Mix(Mesh, Mesh, Resume("mesh", q1, i)) : i \in {"fine", "misfit"}}
    \cup {Mix(Stream("talker", i), Stream("plain", i), Ask("chat", "plain", "key", i)) :
            i \in {"hostile", "misfit", "malformed"}}
    \cup {Mix(Stream("plain", "fine"), Ask("resume", "plain", "key", "fine"),
               Ask("tool", "plain", None, "fine")),
          Mix(Ask("run", "gone", "key", "fine"), Ask("run", "broken", "key", "fine"),
              Ask("resume", "broken", "key", "fine")),
          Mix(Ask("resume", "gone", "key", "fine"), Ask("chat", "broken", "key", "fine"),
              Ask("resume", "mesh", "key", "fine"))}

MCDeltas == {<<"s">>, <<"k">>, <<"a", "nl">>, <<"k", "nl", "s">>, <<"a", "a">>}
=============================================================================
