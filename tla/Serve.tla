------------------------------- MODULE Serve --------------------------------
(***************************************************************************)
(* The HTTP server of a project (serve/): the rate limiter and the key     *)
(* check in front, the OpenAI and REST routes, and the AgentService that   *)
(* they share.  A request is dispatched on the event loop, which is one    *)
(* step: nothing there is shared but the rate limiter's bucket.  The       *)
(* service's part runs on a thread of its own, so that two requests meet   *)
(* at the cache of built agents.  A streamed chat pulls the agent's run    *)
(* through the StreamGate, one pull at a time, and its client may leave.   *)
(*                                                                         *)
(* An agent's run itself is RunPipeline's and Mesh's; here it ends in an   *)
(* output, an interrupt, or an exception.                                  *)
(***************************************************************************)
EXTENDS StreamGate, FiniteSets

CONSTANTS
    Requests,
    Traffic,        \* bound: the mixes of requests that the clients may send
    Agents,         \* the names that requests use
    Present,        \* those with an agents/<name>/agent.py
    Broken,         \* those of Present that cannot be loaded
    Chat,           \* those with a chat block
    Streaming,      \* those that implement _stream
    Meshes,         \* those that can interrupt, and resume
    Keys,           \* LOTTIE_API_KEYS; empty leaves the server open
    Rate,           \* LOTTIE_RATE_LIMIT_PER_MIN; 0 switches the limiter off
    Tick, MaxTime,  \* bound: the seconds a clock step takes, and its last value
    Deltas,         \* bound: the deltas a streaming run may produce
    MaxText,        \* bound: a run that has produced as much ends
    MaxRestarts,    \* bound
    None

Routes == {"chat", "stream", "run", "resume", "tool"}
\* input: "hostile" is what the input gate flags, "misfit" what the agent's
\* Input model refuses, "malformed" what is not a request at all.
RequestType == [route : Routes, agent : Agents, key : Keys \cup {None},
                input : {"fine", "hostile", "misfit", "malformed"},
                thread : Requests \cup {None}]

Replies == {"ok", "interrupted", "withheld", "rate_limited", "unauthorized",
            "invalid", "blocked", "not_found", "not_resumable",
            "thread_not_found", "internal_error",
            "stop", "content_filter", "error"}

ASSUME ServeAssumption ==
    /\ IsFiniteSet(Requests) /\ None \notin Requests \cup Replies
    /\ None \notin [tokens : Nat, last : Nat]
    /\ Traffic \subseteq [Requests -> RequestType]
    /\ Broken \cup Chat \cup Streaming \cup Meshes \subseteq Present
    /\ Present \subseteq Agents /\ Chat \cap Broken = {}
    /\ {Rate, Tick, MaxTime, MaxText, MaxRestarts} \subseteq Nat

\* A client resumes a run of the same agent.  (One that waits for its own answer is
\* never sent.)
ASSUME ThreadsAssumption == \A f \in Traffic : \A r \in Requests :
    LET t == f[r].thread IN
    t \in Requests \ {r} => f[t].agent = f[r].agent /\ f[t].route # "resume"

VARIABLES
    durable,    \* LOTTIE_MESH_CHECKPOINT: sqlite, or memory
    now,        \* time.monotonic(), in seconds
    bucket,     \* RateLimitMiddleware._buckets: each identity's tokens (in
                \* sixtieths) and the time of its last refill
    admitted,   \* the times at which each identity was let in
    cache,      \* AgentService._agents: the request that built each instance
    replaced,   \* a build replaced an instance that was in the cache
    thread,     \* where the thread of a request's interrupted run is kept: in
                \* an instance's memory, or in the file ("db")
    req,        \* what each client sends
    pc, reply,
    inst,       \* the instance a request has got
    run,        \* a streaming run: "none", "fresh", "open" or "closed"
    text,       \* what it has produced
    buffer,     \* scan_stream's
    sent,       \* what the client was sent
    client,     \* "there" or "left"
    restarts

gateVars  == <<now, bucket, admitted>>
agentVars == <<cache, replaced, thread, durable>>
streamVars == <<run, text, buffer, sent, client>>
vars == <<gateVars, agentVars, streamVars, req, pc, reply, inst, restarts>>

TypeOK ==
    /\ durable \in BOOLEAN /\ now \in 0 .. MaxTime
    /\ bucket \in [Keys \cup {None} ->
                    [tokens : 0 .. 60 * Rate, last : 0 .. MaxTime] \cup {None}]
    /\ admitted \in [Keys \cup {None} -> Seq(0 .. MaxTime)]
    /\ cache \in [Present -> Requests \cup {None}] /\ replaced \in BOOLEAN
    /\ thread \in [Requests -> Requests \cup {"db", None}]
    /\ req \in Traffic
    /\ pc \in [Requests -> {"new", "lookup", "build", "call", "running",
                            "between", "pulling", "closing", "over", "lost"}]
    /\ reply \in [Requests -> Replies \cup {None}]
    /\ inst \in [Requests -> Requests \cup {None}]
    /\ run \in [Requests -> {"none", "fresh", "open", "closed"}]
    /\ \A r \in Requests : /\ Len(sent[r]) \in Nat /\ Len(buffer[r]) \in Nat
                           /\ Len(sent[r]) + Len(buffer[r]) <= Len(text[r])
    /\ client \in [Requests -> {"there", "left"}] /\ restarts \in 0 .. MaxRestarts

Init ==
    /\ durable \in BOOLEAN /\ now = 0 /\ restarts = 0 /\ replaced = FALSE
    /\ bucket = [k \in Keys \cup {None} |-> None]
    /\ admitted = [k \in Keys \cup {None} |-> <<>>]
    /\ cache = [a \in Present |-> None]
    /\ thread = [r \in Requests |-> None]
    /\ req \in Traffic /\ pc = [r \in Requests |-> "new"]
    /\ reply = [r \in Requests |-> None] /\ inst = [r \in Requests |-> None]
    /\ run = [r \in Requests |-> "none"]
    /\ text = [r \in Requests |-> <<>>] /\ buffer = [r \in Requests |-> <<>>]
    /\ sent = [r \in Requests |-> <<>>] /\ client = [r \in Requests |-> "there"]

Goto(r, label) == pc' = [pc EXCEPT ![r] = label]
Answer(r, a) == Goto(r, "over") /\ reply' = [reply EXCEPT ![r] = a]

-----------------------------------------------------------------------------
(* In front of the routes *)

\* RateLimitMiddleware: the bucket of the presented key (or of the host).
NoCap(k) == IF bucket[k] = None THEN 60 * Rate
            ELSE bucket[k].tokens + (now - bucket[k].last) * Rate
Tokens(k) ==
    IF bucket[k] = None THEN 60 * Rate
    ELSE LET refilled == bucket[k].tokens + (now - bucket[k].last) * Rate
         IN  IF refilled > 60 * Rate THEN 60 * Rate ELSE refilled
LimitedAtZero(k) == Rate > 0 /\ Tokens(k) <= 0
Limited(k) == Rate > 0 /\ Tokens(k) < 60
Take(k) ==
    /\ bucket' = IF Rate = 0 THEN bucket ELSE
                 [bucket EXCEPT ![k] =
                     [tokens |-> Tokens(k) - (IF Limited(k) THEN 0 ELSE 60),
                      last   |-> now]]
    /\ admitted' = IF Limited(k) THEN admitted
                   ELSE [admitted EXCEPT ![k] = Append(@, now)]

\* ApiKeyAuthMiddleware
Unauthorized(q) == Keys # {} /\ q.key \notin Keys

\* What a route refuses by itself, before it calls the service.
RouteRefusal(q) ==
    IF q.input = "malformed" THEN "invalid"
    ELSE IF q.route \in {"chat", "stream"} /\ q.agent \notin Chat THEN "not_found"
    ELSE None

\* run_agent's checks, in its order, until it wants the instance.  A misfit
\* decision of a resume is only found by the mesh (EditedInputError).
RunRefusal(q) ==
    IF q.agent \notin Present THEN "not_found"
    ELSE IF q.input = "hostile" THEN "blocked"
    ELSE IF q.agent \in Broken THEN "internal_error"
    ELSE IF q.input = "misfit" THEN "invalid"
    ELSE None
\* resume_agent and stream_agent want the instance first.
Refusal(q) ==
    IF q.route \in {"stream", "resume"}
    THEN IF q.agent \notin Present THEN "not_found" ELSE None
    ELSE RunRefusal(q)

\* A request is let through to the service, or its first checks refuse it.
\* A thread's id is a uuid4: only the answer of its run tells it to a client.
Admitted(r) == LET q == req[r] IN
    IF RouteRefusal(q) # None THEN Answer(r, RouteRefusal(q))
    ELSE IF Refusal(q) # None THEN Answer(r, Refusal(q))
    ELSE Goto(r, "lookup") /\ UNCHANGED reply
Arrives(r) ==
    /\ pc[r] = "new" /\ (req[r].thread # None => reply[req[r].thread] = "interrupted")
    /\ UNCHANGED <<agentVars, streamVars, req, inst, restarts>>

\* An HTTP request: limiter, keys, route.
Dispatch(r) == LET q == req[r] IN
    /\ Arrives(r) /\ q.route # "tool" /\ Take(q.key) /\ UNCHANGED now
    /\ IF Limited(q.key) THEN Answer(r, "rate_limited")
       ELSE IF Unauthorized(q) THEN Answer(r, "unauthorized") ELSE Admitted(r)
\* An MCP tool call comes over stdio, past both middlewares.
CallTool(r) == Arrives(r) /\ req[r].route = "tool" /\ Admitted(r) /\ UNCHANGED gateVars

-----------------------------------------------------------------------------
(* The service *)

Threading(r, label) == pc[r] = label /\ UNCHANGED <<gateVars, req, restarts>>

\* With the instance: run_agent and resume_agent go on to call it; stream_agent
\* makes the checks that run_agent made before, and turns to run_agent when the
\* agent does not stream.
WithAgent(r) ==
    LET q == req[r] IN
    IF q.route = "resume" /\ q.agent \notin Meshes
    THEN Answer(r, "not_resumable") /\ UNCHANGED streamVars
    ELSE IF q.route = "stream" /\ RunRefusal(q) # None
    THEN Answer(r, RunRefusal(q)) /\ UNCHANGED streamVars
    ELSE IF q.route = "stream" /\ q.agent \in Streaming
    THEN /\ Goto(r, "between") /\ run' = [run EXCEPT ![r] = "fresh"]
         /\ UNCHANGED <<reply, text, buffer, sent, client>>
    ELSE Goto(r, "call") /\ UNCHANGED <<reply, streamVars>>

\* _get_agent: the cached instance, or a build (outside any lock).
Lookup(r) ==
    /\ Threading(r, "lookup")
    /\ LET cached == cache[req[r].agent] IN
       IF cached # None
       THEN inst' = [inst EXCEPT ![r] = cached] /\ WithAgent(r)
       ELSE Goto(r, "build") /\ UNCHANGED <<inst, reply, streamVars>>
    /\ UNCHANGED agentVars

ForgetBuild(r) ==
    /\ Threading(r, "build")
    /\ IF req[r].agent \in Broken
       THEN Answer(r, "internal_error") /\ UNCHANGED <<agentVars, inst, streamVars>>
       ELSE /\ inst' = [inst EXCEPT ![r] = r] /\ WithAgent(r)
            /\ UNCHANGED agentVars
Build(r) ==
    /\ Threading(r, "build")
    /\ IF req[r].agent \in Broken
       THEN Answer(r, "internal_error") /\ UNCHANGED <<agentVars, inst, streamVars>>
       ELSE /\ inst' = [inst EXCEPT ![r] = r] /\ WithAgent(r)
            /\ cache' = [cache EXCEPT ![req[r].agent] = r]
            /\ replaced' = (replaced \/ cache[req[r].agent] # None)
            /\ UNCHANGED <<thread, durable>>

\* MeshAgent.resume looks the thread up in the checkpoints it can see.
Known(r) ==
    LET t == req[r].thread
    IN  t # None /\ thread[t] \in (IF durable THEN {"db"} ELSE {inst[r]})
Call(r) ==
    /\ Threading(r, "call")
    /\ IF req[r].route = "resume" /\ ~Known(r) THEN Answer(r, "thread_not_found")
       ELSE IF req[r].route = "resume" /\ req[r].input = "misfit"
       THEN Answer(r, "invalid")
       ELSE Goto(r, "running") /\ UNCHANGED reply
    /\ UNCHANGED <<agentVars, streamVars, inst>>

\* The run ends: its output passes the gate or is withheld, it stops for a
\* human (its thread is then in the checkpoint), or it raises.
Ended(r) ==
    /\ Threading(r, "running")
    /\ \/ /\ \E a \in {"ok", "withheld", "internal_error"} : Answer(r, a)
          /\ UNCHANGED thread
       \/ /\ req[r].agent \in Meshes
          /\ \E a \in {"interrupted", "withheld"} : Answer(r, a)
          /\ thread' = IF req[r].route = "resume" THEN thread
                       ELSE [thread EXCEPT ![r] = IF durable THEN "db" ELSE inst[r]]
    /\ UNCHANGED <<cache, replaced, durable, streamVars, inst>>

-----------------------------------------------------------------------------
(* A streamed chat: _sse_real pulls _gated_stream(run_stream) *)

Streamed(r, label) ==
    pc[r] = label /\ UNCHANGED <<gateVars, agentVars, req, inst, restarts>>

\* The next pull.  The first one begins the run.
Pull(r) ==
    /\ Streamed(r, "between") /\ client[r] = "there"
    /\ Goto(r, "pulling")
    /\ run' = [run EXCEPT ![r] = IF @ = "fresh" THEN "open" ELSE @]
    /\ UNCHANGED <<reply, text, buffer, sent, client>>

\* The client leaves, between two pulls or during one.
Leave(r) ==
    /\ client[r] = "there" /\ pc[r] \in {"between", "pulling"}
    /\ client' = [client EXCEPT ![r] = "left"]
    /\ UNCHANGED <<gateVars, agentVars, req, inst, restarts, pc, reply,
                   run, text, buffer, sent>>

\* In a pull, while the buffer holds no line: the run yields a delta.
Delta(r) ==
    /\ Streamed(r, "pulling") /\ run[r] = "open"
    /\ ~Complete(buffer[r]) /\ ~TooLong(buffer[r])
    /\ Len(text[r]) < MaxText
    /\ \E d \in Deltas :
          /\ text' = [text EXCEPT ![r] = @ \o d]
          /\ buffer' = [buffer EXCEPT ![r] = @ \o d]
    /\ UNCHANGED <<pc, reply, run, sent, client>>

\* The pull returns a scanned line; a client that left gets nothing any more.
Yielded(r, line) ==
    /\ sent' = [sent EXCEPT ![r] = IF client[r] = "left" THEN @ ELSE @ \o line]
    /\ Goto(r, "between") /\ UNCHANGED <<reply, text, client>>
LeftOpen(r, finish) ==
    /\ Goto(r, "closing")
    /\ reply' = [reply EXCEPT ![r] = IF client[r] = "left" THEN None ELSE finish]
    /\ UNCHANGED <<run, text, buffer, sent, client>>
\* The pull ends the generator: _gated_stream has closed the run.
Finished(r, finish) ==
    /\ run' = [run EXCEPT ![r] = "closed"]
    /\ Goto(r, "closing")
    /\ reply' = [reply EXCEPT ![r] = IF client[r] = "left" THEN None ELSE finish]
    /\ UNCHANGED <<text, buffer, sent, client>>

\* scan_stream, with a whole line in the buffer.
EmitAnyway(r) ==
    /\ Streamed(r, "pulling") /\ Complete(buffer[r])
    /\ Yielded(r, FirstLine(buffer[r]))
    /\ buffer' = [buffer EXCEPT ![r] = AfterLine(@)] /\ UNCHANGED run
Line(r) ==
    /\ Streamed(r, "pulling") /\ Complete(buffer[r])
    /\ IF HasSecret(FirstLine(buffer[r])) THEN Finished(r, "content_filter")
       ELSE /\ Yielded(r, FirstLine(buffer[r]))
            /\ buffer' = [buffer EXCEPT ![r] = AfterLine(@)] /\ UNCHANGED run

\* A line without an end is withheld.
OverLong(r) ==
    /\ Streamed(r, "pulling") /\ TooLong(buffer[r])
    /\ Finished(r, "content_filter")

\* The run is exhausted: the tail is scanned and let out, then the stream stops.
Exhausted(r) ==
    /\ Streamed(r, "pulling") /\ ~Complete(buffer[r]) /\ ~TooLong(buffer[r])
    /\ IF buffer[r] = <<>> THEN Finished(r, "stop")
       ELSE IF HasSecret(buffer[r]) THEN Finished(r, "content_filter")
       ELSE /\ Yielded(r, buffer[r])
            /\ buffer' = [buffer EXCEPT ![r] = <<>>]
            /\ run' = [run EXCEPT ![r] = "closed"]

\* A gate of the run, or its agent, raises.
Raises(r) ==
    /\ Streamed(r, "pulling") /\ run[r] = "open"
    /\ ~Complete(buffer[r]) /\ ~TooLong(buffer[r])
    /\ Finished(r, "error")

CloseAtEndOnly(r) ==
    /\ Streamed(r, "closing") /\ Goto(r, "over")
    /\ UNCHANGED <<reply, streamVars>>
\* The finally of _sse_real closes the generator, and it the run; then the
\* finish chunk is sent.  A client that left between two pulls ends here too.
Close(r) ==
    /\ \/ Streamed(r, "closing")
       \/ Streamed(r, "between") /\ client[r] = "left"
    /\ run' = IF pc[r] = "between" /\ run[r] = "open"
              THEN [run EXCEPT ![r] = "closed"] ELSE run
    /\ Goto(r, "over")
    /\ UNCHANGED <<reply, text, buffer, sent, client>>
-----------------------------------------------------------------------------
Clock ==
    /\ now + Tick <= MaxTime /\ now' = now + Tick
    /\ UNCHANGED <<bucket, admitted, agentVars, streamVars, req, pc, reply, inst,
                   restarts>>

\* The process is started again: what it was doing, its buckets, its instances
\* and the threads in their memory are gone.
Restart ==
    /\ restarts < MaxRestarts /\ restarts' = restarts + 1
    /\ pc' = [r \in Requests |-> IF pc[r] \in {"new", "over"} THEN pc[r] ELSE "lost"]
    /\ run' = [r \in Requests |-> IF run[r] = "open" THEN "none" ELSE run[r]]
    /\ bucket' = [k \in DOMAIN bucket |-> None]
    /\ admitted' = [k \in DOMAIN admitted |-> <<>>]
    /\ cache' = [a \in Present |-> None]
    /\ thread' = [r \in Requests |-> IF thread[r] = "db" THEN "db" ELSE None]
    /\ UNCHANGED <<now, replaced, durable, text, buffer, sent, client, req, reply,
                   inst>>

Step(r) ==
    \/ Lookup(r) \/ Build(r) \/ Call(r) \/ Ended(r)
    \/ Pull(r) \/ Delta(r) \/ Line(r) \/ OverLong(r) \/ Exhausted(r)
    \/ Raises(r) \/ Close(r)

Next ==
    \/ \E r \in Requests : Dispatch(r) \/ CallTool(r) \/ Step(r) \/ Leave(r)
    \/ Clock \/ Restart

Spec == Init /\ [][Next]_vars
\* A thread of the pool, and the task of a response, are run; an agent's run
\* ends, its provider being bounded by a timeout (external).
FairSpec == Spec /\ \A r \in Requests : WF_vars(Step(r))

-----------------------------------------------------------------------------
(* Properties *)

Streams(r) == run[r] # "none"

\* However a run's text is cut into deltas, the client is sent whole lines of
\* it, none with a secret; "stop" says that it has got everything, and
\* "content_filter" that the very next line was a secret's or had no end
\* (stream_gate.py's soundness: line by line equals a scan of the whole text).
ReleasedIsScanned == \A r \in Requests :
    /\ WholeLines(sent[r], text[r]) /\ ~HasSecret(sent[r])
    /\ reply[r] = "stop" => sent[r] = text[r]
    /\ reply[r] = "content_filter" =>
          LET line == NextLine(sent[r], text[r])
          IN  HasSecret(line) \/ TooLong(line)

\* When a streamed response is over, by its finish chunk, a withheld line or a
\* client that left, its run has been closed, so that its audit record is
\* written and its depth reset (service.py, _gated_stream).
NoOrphanRun == \A r \in Requests : pc[r] = "over" => run[r] # "open"

\* In any stretch of time a key gets in at most Rate times, and Rate a minute
\* more (ratelimit.py, the token bucket).
RateBound ==
    Rate > 0 => \A k \in DOMAIN admitted : \A i, j \in DOMAIN admitted[k] :
        i <= j => (j - i + 1) * 60
                     <= 60 * Rate + (admitted[k][j] - admitted[k][i]) * Rate

\* A client that was told "interrupted" can resume, unless the checkpoints are
\* in memory and either the process was restarted or two requests built the
\* agent at once (service.py, the cache of agents and its comment).
ResumeFindsThread == \A r \in Requests :
    reply[r] = "thread_not_found" /\ req[r].thread # None
        => ~durable /\ (replaced \/ restarts > 0)

\* Every request is answered, unless its client leaves or the process stops.
EveryRequestEnds == \A r \in Requests :
    (pc[r] # "new") ~> (pc[r] \in {"over", "lost"})
=============================================================================
