----------------------------- MODULE ServeProofs ----------------------------
(***************************************************************************)
(* Theorems about Serve for any requests, agents, keys, rates and clocks.  *)
(***************************************************************************)
EXTENDS Serve, TLAPS, SequenceTheorems, FiniteSetTheorems, WellFoundedInduction

Labels == {"new", "lookup", "build", "call", "running", "between", "pulling", "closing",
           "over", "lost"}
Runs   == {"none", "fresh", "open", "closed"}

(* No run is left open *)

\* Only a stream between two pulls, or in one, has an open run.
OpenInv ==
    /\ run \in [Requests -> Runs] /\ pc \in [Requests -> Labels]
    /\ \A r \in Requests : run[r] = "open" => pc[r] \in {"between", "pulling"}

LEMMA InitOpen == Init => OpenInv
BY DEF Init, OpenInv, Runs, Labels

\* A request that has no open run goes somewhere.
LEMMA Moves ==
    ASSUME OpenInv, NEW r \in Requests, NEW p \in Labels,
           pc[r] \notin {"between", "pulling"} \/ p \in {"between", "pulling"},
           Goto(r, p), UNCHANGED run
    PROVE  OpenInv'
BY DEF OpenInv, Goto

\* A request changes its run and moves on.
LEMMA RunMoves ==
    ASSUME OpenInv, NEW r \in Requests, NEW p \in Labels, NEW x \in Runs,
           x = "open" => p \in {"between", "pulling"},
           Goto(r, p), run' = [run EXCEPT ![r] = x]
    PROVE  OpenInv'
BY DEF OpenInv, Goto

\* It is answered.
LEMMA Answered ==
    ASSUME OpenInv, NEW r \in Requests, pc[r] \notin {"between", "pulling"},
           NEW a, Answer(r, a), UNCHANGED run
    PROVE  OpenInv'
BY Moves DEF Answer, Labels

LEMMA DispatchOpen ==
    ASSUME OpenInv, NEW r \in Requests, Dispatch(r) \/ CallTool(r)
    PROVE  OpenInv'
<1>1. pc[r] = "new" /\ UNCHANGED run
  BY DEF Dispatch, CallTool, Arrives, streamVars
<1>2. ASSUME Admitted(r) PROVE OpenInv'
  BY <1>1, <1>2, Answered, Moves DEF Admitted, Labels
<1>. QED BY <1>1, <1>2, Answered DEF Dispatch, CallTool

\* With its instance a request goes on to a call, to a refusal, or to a stream.
LEMMA WithAgentOpen ==
    ASSUME OpenInv, NEW r \in Requests, pc[r] \in {"lookup", "build"}, WithAgent(r)
    PROVE  OpenInv'
<1>1. CASE UNCHANGED run /\ \E a : Answer(r, a)
  BY <1>1, Answered
<1>2. CASE UNCHANGED run /\ Goto(r, "call")
  BY <1>2, Moves DEF Labels
<1>3. CASE run' = [run EXCEPT ![r] = "fresh"] /\ Goto(r, "between")
  BY <1>3, RunMoves DEF Labels, Runs
<1>. QED BY <1>1, <1>2, <1>3 DEF WithAgent, streamVars

LEMMA ServiceOpen ==
    ASSUME OpenInv, NEW r \in Requests, Lookup(r) \/ Build(r) \/ Call(r) \/ Ended(r)
    PROVE  OpenInv'
<1>1. CASE Lookup(r) \/ Build(r)
  <2>1. pc[r] \in {"lookup", "build"}
    BY <1>1 DEF Lookup, Build, Threading
  <2>2. \/ WithAgent(r)
        \/ UNCHANGED run /\ Goto(r, "build")
        \/ UNCHANGED run /\ Answer(r, "internal_error")
    BY <1>1 DEF Lookup, Build, streamVars
  <2>. QED BY <2>1, <2>2, WithAgentOpen, Moves, Answered DEF Labels
<1>2. CASE Call(r) \/ Ended(r)
  <2>1. pc[r] \in {"call", "running"} /\ UNCHANGED run
    BY <1>2 DEF Call, Ended, Threading, streamVars
  <2>2. (\E a : Answer(r, a)) \/ Goto(r, "running")
    BY <1>2 DEF Call, Ended
  <2>. QED BY <2>1, <2>2, Moves, Answered DEF Labels
<1>. QED BY <1>1, <1>2

\* The end of a pull that ends the generator.
LEMMA FinishedOpen ==
    ASSUME OpenInv, NEW r \in Requests, NEW finish, Finished(r, finish)
    PROVE  OpenInv'
BY RunMoves DEF Finished, Labels, Runs

\* Every way out of a stream closes the run.
LEMMA StreamOpen ==
    ASSUME OpenInv, NEW r \in Requests,
           \/ Pull(r) \/ Delta(r) \/ Line(r) \/ OverLong(r) \/ Exhausted(r)
           \/ Raises(r) \/ Close(r)
    PROVE  OpenInv'
<1>1. CASE Pull(r)
  BY <1>1 DEF Pull, Goto, OpenInv, Labels, Runs
<1>2. CASE Delta(r)
  BY <1>2 DEF Delta, OpenInv
<1>3. CASE Line(r)
  <2>1. (\E f : Finished(r, f)) \/ (UNCHANGED run /\ Goto(r, "between"))
    BY <1>3 DEF Line, Yielded
  <2>. QED BY <2>1, FinishedOpen, Moves DEF Labels
<1>4. CASE OverLong(r) \/ Raises(r)
  BY <1>4, FinishedOpen DEF OverLong, Raises
<1>5. CASE Exhausted(r)
  <2>1. \/ \E f : Finished(r, f)
        \/ run' = [run EXCEPT ![r] = "closed"] /\ Goto(r, "between")
    BY <1>5 DEF Exhausted, Yielded
  <2>. QED BY <2>1, FinishedOpen, RunMoves DEF Labels, Runs
<1>6. CASE Close(r)
  BY <1>6 DEF Close, Streamed, Goto, OpenInv, Labels, Runs
<1>. QED BY <1>1, <1>2, <1>3, <1>4, <1>5, <1>6

LEMMA StepOpen ==
    ASSUME OpenInv, [Next]_vars
    PROVE  OpenInv'
<1>1. CASE Restart
  BY <1>1 DEF Restart, OpenInv, Labels, Runs
<1>2. CASE Clock \/ UNCHANGED vars \/ \E r \in Requests : Leave(r)
  BY <1>2 DEF Clock, Leave, vars, streamVars, OpenInv
<1>. QED BY <1>1, <1>2, DispatchOpen, ServiceOpen, StreamOpen DEF Next, Step

\* A response that is over has closed its run (service.py, _gated_stream), in
\* whatever order clients leave, runs end and the process is restarted.
THEOREM NoOrphanRunAlways == Spec => []NoOrphanRun
<1>1. OpenInv => NoOrphanRun
  BY DEF OpenInv, NoOrphanRun
<1>. QED BY <1>1, InitOpen, StepOpen, PTL DEF Spec

-----------------------------------------------------------------------------
(* The rate limit *)

\* What a key's requests have taken since the i-th one, and what its bucket holds at
\* some moment, is at most a full bucket and what flowed in since.
Covered(times, i, held, moment) ==
    60 * (Len(times) - i + 1) + held <= 60 * Rate + (moment - times[i]) * Rate

Account(b, times) ==
    /\ times \in Seq(Nat)
    /\ b = None => times = <<>>
    /\ b # None =>
          /\ b \in [tokens : Nat, last : Nat] /\ b.tokens <= 60 * Rate
          /\ \A i \in 1 .. Len(times) :
                times[i] <= b.last /\ Covered(times, i, b.tokens, b.last)

Bounded(times) == \A i, j \in 1 .. Len(times) :
    i <= j => (j - i + 1) * 60 <= 60 * Rate + (times[j] - times[i]) * Rate

Identities == Keys \cup {None}

RateInv ==
    /\ now \in Nat /\ req \in Traffic
    /\ bucket \in [Identities -> [tokens : Nat, last : Nat] \cup {None}]
    /\ admitted \in [Identities -> Seq(Nat)]
    /\ \A k \in Identities :
          /\ bucket[k] # None => bucket[k].last <= now
          /\ Account(bucket[k], admitted[k]) /\ Bounded(admitted[k])

LEMMA InitRate == Rate > 0 /\ Init => RateInv
BY ServeAssumption DEF Init, RateInv, Identities, Account, Bounded

LEMMA Product == ASSUME NEW x \in Int, NEW y \in Int PROVE x * y \in Int
OBVIOUS

LEMMA Linear ==
    ASSUME NEW c \in Int, NEW h \in Int, NEW t \in Int, NEW full \in Int,
           NEW x \in Int, NEW y \in Int, NEW z \in Int,
           c + h <= full + x, t <= h + y, x + y = z
    PROVE  c + t <= full + z
OBVIOUS

\* What flows in until `now` is added to what flowed in until the bucket's last
\* refill.
LEMMA Inflow ==
    ASSUME NEW a \in Nat, NEW last \in Nat, NEW w \in Nat, NEW rate \in Nat,
           NEW c \in Int, NEW h \in Int, NEW t \in Int,
           c + h <= 60 * rate + (last - a) * rate, t <= h + (w - last) * rate
    PROVE  c + t <= 60 * rate + (w - a) * rate
<1>1. (last - a) * rate + (w - last) * rate = (w - a) * rate
  OBVIOUS
<1>2. /\ (last - a) * rate \in Int /\ (w - last) * rate \in Int
      /\ (w - a) * rate \in Int /\ 60 * rate \in Int
  BY Product
<1>. QED BY <1>1, <1>2, Linear

\* A bucket holds at most a minute's tokens when it is refilled.
LEMMA Refilled ==
    ASSUME RateInv, NEW k \in Identities, Rate > 0
    PROVE  /\ Tokens(k) \in Nat /\ Tokens(k) <= 60 * Rate
           /\ bucket[k] # None =>
                 Tokens(k) <= bucket[k].tokens + (now - bucket[k].last) * Rate
<1>1. Rate \in Nat
  BY ServeAssumption
<1>2. CASE bucket[k] = None
  BY <1>1, <1>2 DEF Tokens
<1>3. CASE bucket[k] # None
  <2>1. bucket[k].tokens \in Nat /\ now - bucket[k].last \in Nat
    BY <1>3 DEF RateInv, Account
  <2>2. (now - bucket[k].last) * Rate \in Nat
    BY <1>1, <2>1
  <2>. QED BY <1>1, <1>3, <2>1, <2>2 DEF Tokens
<1>. QED BY <1>2, <1>3

\* The account of a key at a request, with the refilled bucket.
LEMMA AccountNow ==
    ASSUME RateInv, Rate > 0, NEW k \in Identities, NEW i \in 1 .. Len(admitted[k])
    PROVE  /\ admitted[k][i] \in Nat /\ admitted[k][i] <= now
           /\ Covered(admitted[k], i, Tokens(k), now)
<1>1. Rate \in Nat /\ now \in Nat /\ admitted[k] \in Seq(Nat)
  BY ServeAssumption DEF RateInv
<1>2. bucket[k] # None /\ admitted[k][i] \in Nat
  BY <1>1 DEF RateInv, Account
<1>3. /\ bucket[k].last \in Nat /\ bucket[k].tokens \in Nat
      /\ bucket[k].last <= now /\ admitted[k][i] <= bucket[k].last
      /\ Covered(admitted[k], i, bucket[k].tokens, bucket[k].last)
  BY <1>2 DEF RateInv, Account
<1>4. /\ Tokens(k) <= bucket[k].tokens + (now - bucket[k].last) * Rate
      /\ Tokens(k) \in Nat
  BY <1>2, Refilled
<1> DEFINE a    == admitted[k][i]
           last == bucket[k].last
           held == bucket[k].tokens
           c    == 60 * (Len(admitted[k]) - i + 1)
<1>5. c \in Int /\ c + held <= 60 * Rate + (last - a) * Rate
  BY <1>1, <1>3 DEF Covered
<1>6. Tokens(k) <= held + (now - last) * Rate /\ Tokens(k) \in Nat
  BY <1>4
<1>7. /\ a \in Nat /\ last \in Nat /\ now \in Nat /\ held \in Nat /\ Rate \in Nat
      /\ a <= last /\ last <= now
  BY <1>1, <1>2, <1>3
<1>. HIDE DEF a, last, held, c
<1>8. a <= now
  BY <1>7
<1>9. c + Tokens(k) <= 60 * Rate + (now - a) * Rate
  BY <1>5, <1>6, <1>7, Inflow
<1>. QED BY <1>7, <1>8, <1>9 DEF Covered, a, c

\* A request that is let in takes a token; its own time joins the others.
LEMMA TakeRate ==
    ASSUME RateInv, Rate > 0, NEW k \in Identities, ~Limited(k),
           NEW b, NEW times,
           b = [tokens |-> Tokens(k) - 60, last |-> now],
           times = Append(admitted[k], now)
    PROVE  b \in [tokens : Nat, last : Nat] /\ Account(b, times) /\ Bounded(times)
<1>. PICK n \in Nat : n = Len(admitted[k])
  BY DEF RateInv
<1>1. Rate \in Nat /\ now \in Nat /\ admitted[k] \in Seq(Nat)
  BY ServeAssumption DEF RateInv
<1>2. Tokens(k) \in Nat /\ Tokens(k) >= 60 /\ Tokens(k) <= 60 * Rate
  BY Refilled DEF Limited
<1>3. /\ b \in [tokens : Nat, last : Nat] /\ b.tokens <= 60 * Rate /\ b.last = now
      /\ b.tokens = Tokens(k) - 60 /\ b # None
  BY <1>1, <1>2, ServeAssumption
<1>4. /\ times \in Seq(Nat) /\ Len(times) = n + 1
      /\ \A i \in 1 .. n : times[i] = admitted[k][i]
      /\ times[n + 1] = now
  BY <1>1
<1>5. ASSUME NEW i \in 1 .. n + 1
      PROVE  /\ times[i] \in Nat /\ times[i] <= now
             /\ Covered(times, i, b.tokens, now)
  <2>1. CASE i = n + 1
    <3>1. times[i] = now /\ (now - now) * Rate = 0
      BY <1>1, <1>4, <2>1
    <3>. QED BY <1>1, <1>2, <1>3, <1>4, <2>1, <3>1 DEF Covered
  <2>2. CASE i # n + 1
    <3>1. i \in 1 .. n /\ times[i] = admitted[k][i]
      BY <1>4, <2>2
    <3>2. /\ times[i] \in Nat /\ times[i] <= now
          /\ 60 * (n - i + 1) + Tokens(k) <= 60 * Rate + (now - times[i]) * Rate
      BY <3>1, AccountNow DEF Covered
    <3>3. 60 * (n + 1 - i + 1) + b.tokens = 60 * (n - i + 1) + Tokens(k)
      BY <1>2, <1>3, <3>1
    <3>. QED BY <1>4, <3>2, <3>3 DEF Covered
  <2>. QED BY <2>1, <2>2
<1>6. Account(b, times)
  BY <1>3, <1>4, <1>5 DEF Account
<1>7. Bounded(times)
  <2>. SUFFICES ASSUME NEW i \in 1 .. n + 1, NEW j \in 1 .. n + 1, i <= j
                PROVE  (j - i + 1) * 60 <= 60 * Rate + (times[j] - times[i]) * Rate
    BY <1>4 DEF Bounded
  <2>1. CASE j = n + 1
    <3>1. times[j] = now /\ (j - i + 1) * 60 = 60 * (n + 1 - i + 1)
      BY <1>4, <2>1
    <3>2. 60 * (n + 1 - i + 1) + b.tokens <= 60 * Rate + (now - times[i]) * Rate
      BY <1>4, <1>5 DEF Covered
    <3>3. /\ (now - times[i]) * Rate \in Int /\ 60 * Rate \in Int
          /\ 60 * Rate + (now - times[i]) * Rate \in Int
      <4>1. now - times[i] \in Int
        BY <1>1, <1>5
      <4>2. \A x \in Int, y \in Int : x + y \in Int
        OBVIOUS
      <4>3. Rate \in Int /\ 60 \in Int
        BY <1>1
      <4>4. (now - times[i]) * Rate \in Int /\ 60 * Rate \in Int
        BY <4>1, <4>3, Product
      <4>. QED BY <4>2, <4>4
    <3>6. b.tokens \in Nat /\ 60 * (n + 1 - i + 1) \in Int
      BY <1>2, <1>3
    <3>4. \A x \in Int, y \in Int, t \in Nat : x + t <= y => x <= y
      OBVIOUS
    <3>5. 60 * (n + 1 - i + 1) <= 60 * Rate + (now - times[i]) * Rate
      BY <3>2, <3>3, <3>4, <3>6
    <3>. QED BY <3>1, <3>5
  <2>2. CASE j # n + 1
    <3>1. i \in 1 .. n /\ j \in 1 .. n
      BY <2>2
    <3>2. times[i] = admitted[k][i] /\ times[j] = admitted[k][j]
      BY <1>4, <3>1
    <3>3. Bounded(admitted[k])
      BY DEF RateInv
    <3>4. (j - i + 1) * 60 <= 60 * Rate + (admitted[k][j] - admitted[k][i]) * Rate
      BY <3>1, <3>3 DEF Bounded
    <3>. QED BY <3>2, <3>4
  <2>. QED BY <2>1, <2>2
<1>. QED BY <1>3, <1>6, <1>7

\* A request that is refused leaves its refilled bucket behind.
LEMMA RefuseRate ==
    ASSUME RateInv, Rate > 0, NEW k \in Identities,
           NEW b, b = [tokens |-> Tokens(k) - 0, last |-> now]
    PROVE  b \in [tokens : Nat, last : Nat] /\ Account(b, admitted[k])
<1>1. Rate \in Nat /\ now \in Nat /\ admitted[k] \in Seq(Nat)
  BY ServeAssumption DEF RateInv
<1>2. /\ b \in [tokens : Nat, last : Nat] /\ b.last = now /\ b.tokens = Tokens(k)
      /\ b.tokens <= 60 * Rate /\ b # None
  BY <1>1, Refilled, ServeAssumption
<1>3. \A i \in 1 .. Len(admitted[k]) :
        admitted[k][i] <= b.last /\ Covered(admitted[k], i, b.tokens, b.last)
  BY <1>2, AccountNow
<1>. QED BY <1>1, <1>2, <1>3 DEF Account

\* One key's bucket and times change.
LEMMA OneKey ==
    ASSUME RateInv, NEW k \in Identities,
           NEW b \in [tokens : Nat, last : Nat], NEW times \in Seq(Nat),
           b.last = now, Account(b, times), Bounded(times), UNCHANGED <<now, req>>,
           bucket' = [bucket EXCEPT ![k] = b], admitted' = [admitted EXCEPT ![k] = times]
    PROVE  RateInv'
<1>1. ASSUME NEW i \in Identities
      PROVE  /\ bucket'[i] # None => bucket'[i].last <= now
             /\ Account(bucket'[i], admitted'[i]) /\ Bounded(admitted'[i])
  <2>1. CASE i = k
    BY <2>1 DEF RateInv
  <2>2. CASE i # k
    BY <2>2 DEF RateInv
  <2>. QED BY <2>1, <2>2
<1>. QED BY <1>1 DEF RateInv

LEMMA DispatchRate ==
    ASSUME RateInv, Rate > 0, NEW r \in Requests, Dispatch(r)
    PROVE  RateInv'
<1> DEFINE k == req[r].key
<1>1. k \in Identities
  BY ServeAssumption DEF RateInv, RequestType, Identities
<1>2. UNCHANGED <<now, req>> /\ Take(k)
  BY DEF Dispatch, Arrives
<1>. HIDE DEF k
<1>. DEFINE b == [tokens |-> Tokens(k) - (IF Limited(k) THEN 0 ELSE 60), last |-> now]
<1>3. bucket' = [bucket EXCEPT ![k] = b]
  BY <1>2, ServeAssumption DEF Take
<1>4. CASE Limited(k)
  <2>1. b \in [tokens : Nat, last : Nat] /\ Account(b, admitted[k])
    BY <1>1, <1>4, RefuseRate
  <2>2. admitted' = [admitted EXCEPT ![k] = admitted[k]]
    BY <1>2, <1>4 DEF Take, RateInv
  <2>3. admitted[k] \in Seq(Nat) /\ Bounded(admitted[k]) /\ b.last = now
    BY <1>1 DEF RateInv
  <2>. HIDE DEF b
  <2>. QED BY <1>1, <1>2, <1>3, <2>1, <2>2, <2>3, OneKey
<1>5. CASE ~Limited(k)
  <2>1. admitted' = [admitted EXCEPT ![k] = Append(admitted[k], now)]
    BY <1>2, <1>5 DEF Take
  <2>. DEFINE times == Append(admitted[k], now)
  <2>2. b \in [tokens : Nat, last : Nat] /\ Account(b, times) /\ Bounded(times)
    BY <1>1, <1>5, TakeRate
  <2>3. times \in Seq(Nat) /\ b.last = now
    BY <2>2 DEF Account
  <2>4. admitted' = [admitted EXCEPT ![k] = times]
    BY <2>1
  <2>. HIDE DEF b, times
  <2>. QED BY <1>1, <1>2, <1>3, <2>2, <2>3, <2>4, OneKey
<1>. QED BY <1>4, <1>5

\* Time passes: what flows in later is not counted before the next request.
LEMMA ClockRate == ASSUME RateInv, Clock PROVE RateInv'
BY ServeAssumption DEF RateInv, Clock

LEMMA RestartRate == ASSUME RateInv, Rate > 0, Restart PROVE RateInv'
BY ServeAssumption DEF RateInv, Restart, Account, Bounded, Identities

LEMMA StepRate ==
    ASSUME RateInv, Rate > 0, [Next]_vars
    PROVE  RateInv'
<1>1. ASSUME UNCHANGED <<gateVars, req>> PROVE RateInv'
  BY <1>1 DEF gateVars, RateInv
<1>2. ASSUME NEW r \in Requests, CallTool(r) \/ Step(r) \/ Leave(r)
      PROVE  UNCHANGED <<gateVars, req>>
  BY <1>2 DEF CallTool, Arrives, Step, Lookup, Build, Call, Ended, Pull, Delta, Line,
              OverLong, Exhausted, Raises, Close, Leave, Threading, Streamed
<1>3. UNCHANGED vars => UNCHANGED <<gateVars, req>>
  BY DEF vars
<1>. QED BY <1>1, <1>2, <1>3, DispatchRate, ClockRate, RestartRate DEF Next

\* However requests, refusals, clock steps and restarts alternate, a key gets in
\* at most Rate times and Rate a minute more (ratelimit.py, the token bucket).
THEOREM RateBoundAlways == Spec => []RateBound
<1>1. CASE Rate > 0
  <2>1. RateInv => RateBound
    <3>. SUFFICES ASSUME RateInv, NEW k \in Identities
                  PROVE  DOMAIN admitted[k] = 1 .. Len(admitted[k]) /\ Bounded(admitted[k])
      BY DEF RateInv, RateBound, Bounded
    <3>. QED BY DEF RateInv
  <2>2. Init => RateInv
    BY <1>1, InitRate
  <2>3. RateInv /\ [Next]_vars => RateInv'
    BY <1>1, StepRate
  <2>. QED BY <2>1, <2>2, <2>3, PTL DEF Spec
<1>2. CASE ~(Rate > 0)
  <2>1. RateBound
    BY <1>2 DEF RateBound
  <2>. QED BY <2>1, PTL
<1>. QED BY <1>1, <1>2

-----------------------------------------------------------------------------
(* An interrupted run can be resumed *)

\* One instance of each agent is the only one there has been.
Together == ~replaced /\ restarts = 0

\* The thread of an interrupted run is where a resume will look for it.
Kept(r) == IF durable THEN thread[r] = "db"
           ELSE Together => /\ req[r].agent \in Present /\ thread[r] # None
                            /\ thread[r] = cache[req[r].agent]

ServeShapes ==
    /\ pc \in [Requests -> Labels] /\ reply \in [Requests -> Replies \cup {None}]
    /\ req \in Traffic
    /\ inst \in [Requests -> Requests \cup {None}]
    /\ cache \in [Present -> Requests \cup {None}]
    /\ thread \in [Requests -> Requests \cup {"db", None}]
    /\ durable \in BOOLEAN /\ replaced \in BOOLEAN /\ restarts \in Nat

Told(r) == reply[r] = "interrupted" /\ req[r].route # "resume" => Kept(r)
Final(r) == reply[r] \in {"interrupted", "thread_not_found"} => pc[r] = "over"
Holds(r) ==
    /\ inst[r] # None /\ Together =>
          req[r].agent \in Present /\ inst[r] = cache[req[r].agent]
    /\ pc[r] \in {"call", "running"} => inst[r] # None
    /\ pc[r] \in {"lookup", "build", "call", "running"} => req[r].agent \in Present
Asked(r) == pc[r] # "new" /\ req[r].thread # None => reply[req[r].thread] = "interrupted"
NotFound(r) == reply[r] = "thread_not_found" /\ req[r].thread # None => ~durable /\ ~Together

ResumeInv ==
    /\ ServeShapes
    /\ \A r \in Requests : Told(r) /\ Final(r) /\ Holds(r) /\ Asked(r) /\ NotFound(r)

LEMMA InitResume == Init => ResumeInv
<1>. SUFFICES ASSUME Init PROVE ResumeInv
  OBVIOUS
<1>1. ServeShapes
  BY DEF Init, ServeShapes, Labels
<1>2. \A r \in Requests : reply[r] = None /\ inst[r] = None /\ pc[r] = "new"
  BY DEF Init
<1>3. None \notin Replies
  BY ServeAssumption
<1>. QED BY <1>1, <1>2, <1>3 DEF ResumeInv, Told, Final, Holds, Asked, NotFound, Replies

\* The answers about a thread.
Threaded == {"interrupted", "thread_not_found"}

\* A request goes on and says nothing about threads.
LEMMA Quiet ==
    ASSUME ResumeInv, NEW r \in Requests, NEW p \in Labels \ {"new"},
           NEW a \in (Replies \cup {None}) \ Threaded,
           pc[r] # "over", Goto(r, p), reply' = [reply EXCEPT ![r] = a],
           UNCHANGED <<cache, replaced, thread, durable, req, inst, restarts>>,
           p \in {"lookup", "build", "call", "running"} => req[r].agent \in Present,
           p \in {"call", "running"} => inst[r] # None,
           pc[r] = "new" /\ req[r].thread # None => reply[req[r].thread] = "interrupted"
    PROVE  ResumeInv'
<1>1. ServeShapes'
  BY DEF ServeShapes, ResumeInv, Goto
<1>2. ASSUME NEW q \in Requests
      PROVE  Told(q)' /\ Final(q)' /\ Holds(q)' /\ NotFound(q)'
  BY <1>2 DEF Threaded, ResumeInv, ServeShapes, Told, Final, Holds, NotFound, Kept, Together, Goto
<1>3. ASSUME NEW q \in Requests, pc'[q] # "new", req'[q].thread # None
      PROVE  reply'[req[q].thread] = "interrupted"
  <2>1. reply[req[q].thread] = "interrupted"
    <3>1. CASE q = r
      BY <1>3, <3>1 DEF ResumeInv, Asked
    <3>2. CASE q # r
      BY <1>3, <3>2 DEF ResumeInv, ServeShapes, Asked, Goto
    <3>. QED BY <3>1, <3>2
  <2>2. req[q].thread # r
    BY <2>1 DEF ResumeInv, Final
  <2>. QED BY <2>1, <2>2 DEF ResumeInv, ServeShapes
<1>. QED BY <1>1, <1>2, <1>3 DEF ResumeInv, Asked

\* ... with such an answer.
LEMMA Refused ==
    ASSUME ResumeInv, NEW r \in Requests, pc[r] # "over",
           NEW a \in Replies \ Threaded, Answer(r, a),
           UNCHANGED <<cache, replaced, thread, durable, req, inst, restarts>>,
           pc[r] = "new" /\ req[r].thread # None => reply[req[r].thread] = "interrupted"
    PROVE  ResumeInv'
BY Quiet DEF Answer, Labels, Threaded

\* ... or without one.
LEMMA Onward ==
    ASSUME ResumeInv, NEW r \in Requests, pc[r] # "over", NEW p \in Labels \ {"new"},
           Goto(r, p), UNCHANGED reply,
           UNCHANGED <<cache, replaced, thread, durable, req, inst, restarts>>,
           p \in {"lookup", "build", "call", "running"} => req[r].agent \in Present,
           p \in {"call", "running"} => inst[r] # None,
           pc[r] = "new" /\ req[r].thread # None => reply[req[r].thread] = "interrupted"
    PROVE  ResumeInv'
<1>1. reply' = [reply EXCEPT ![r] = reply[r]] /\ reply[r] \in Replies \cup {None}
  BY DEF ResumeInv, ServeShapes
<1>2. reply[r] \notin Threaded
  BY DEF ResumeInv, Final, Threaded
<1>. QED BY <1>1, <1>2, Quiet

\* The refusals that come before the instance.
LEMMA Refusals ==
    ASSUME NEW q
    PROVE  /\ RouteRefusal(q) \in (Replies \cup {None}) \ Threaded
           /\ RunRefusal(q) \in (Replies \cup {None}) \ Threaded
           /\ Refusal(q) \in (Replies \cup {None}) \ Threaded
           /\ Refusal(q) = None => q.agent \in Present
<1>. None \notin Replies
  BY ServeAssumption
<1>. QED BY DEF RouteRefusal, RunRefusal, Refusal, Replies, Threaded

LEMMA DispatchResume ==
    ASSUME ResumeInv, NEW r \in Requests, Dispatch(r) \/ CallTool(r)
    PROVE  ResumeInv'
<1>1. /\ pc[r] = "new"
      /\ UNCHANGED <<cache, replaced, thread, durable, req, inst, restarts>>
      /\ req[r].thread # None => reply[req[r].thread] = "interrupted"
  BY DEF Dispatch, CallTool, Arrives, agentVars
<1>2. ASSUME Admitted(r) PROVE ResumeInv'
  <2>1. CASE \E a \in Replies \ Threaded : Answer(r, a)
    BY <1>1, <2>1, Refused
  <2>2. CASE Refusal(req[r]) = None /\ Goto(r, "lookup") /\ UNCHANGED reply
    BY <1>1, <2>2, Onward, Refusals DEF Labels
  <2>3. CASE RouteRefusal(req[r]) # None
    BY <1>2, <2>1, <2>3, Refusals DEF Admitted
  <2>4. CASE RouteRefusal(req[r]) = None /\ Refusal(req[r]) # None
    BY <1>2, <2>1, <2>4, Refusals DEF Admitted
  <2>5. CASE RouteRefusal(req[r]) = None /\ Refusal(req[r]) = None
    BY <1>2, <2>2, <2>5 DEF Admitted
  <2>. QED BY <2>3, <2>4, <2>5
<1>3. ASSUME Answer(r, "rate_limited") \/ Answer(r, "unauthorized") PROVE ResumeInv'
  BY <1>1, <1>3, Refused DEF Replies, Threaded
<1>. QED BY <1>2, <1>3 DEF Dispatch, CallTool

\* A stream tells its client nothing of threads.
LEMMA StreamResume ==
    ASSUME ResumeInv, NEW r \in Requests,
           \/ Pull(r) \/ Delta(r) \/ Line(r) \/ OverLong(r) \/ Exhausted(r)
           \/ Raises(r) \/ Close(r)
    PROVE  ResumeInv'
<1>1. /\ pc[r] \in {"between", "pulling", "closing"}
      /\ UNCHANGED <<cache, replaced, thread, durable, req, inst, restarts>>
  BY DEF Pull, Delta, Line, OverLong, Exhausted, Raises, Close, Streamed, agentVars
<1>2. ASSUME NEW p \in {"between", "pulling", "over"}, Goto(r, p), UNCHANGED reply
      PROVE  ResumeInv'
  BY <1>1, <1>2, Onward DEF Labels
<1>3. ASSUME NEW f \in {"stop", "content_filter", "error"}, Finished(r, f)
      PROVE  ResumeInv'
  <2>1. f \in Replies \ Threaded /\ None \notin Threaded
    BY ServeAssumption DEF Replies, Threaded
  <2>2. PICK a \in {None, f} : reply' = [reply EXCEPT ![r] = a]
    BY <1>3 DEF Finished
  <2>. QED BY <1>1, <1>3, <2>1, <2>2, Quiet DEF Finished, Labels
<1>4. CASE Delta(r)
  BY <1>1, <1>4 DEF Delta, ResumeInv, ServeShapes, Told, Final, Holds, Asked, NotFound,
                    Kept, Together
<1>5. CASE Line(r)
  BY <1>2, <1>3, <1>5 DEF Line, Yielded
<1>6. CASE Exhausted(r)
  BY <1>2, <1>3, <1>6 DEF Exhausted, Yielded
<1>. QED BY <1>2, <1>3, <1>4, <1>5, <1>6 DEF Pull, OverLong, Raises, Close

\* What a request that has its instance says, if anything.
LEMMA AgentAnswer ==
    ASSUME ResumeInv, NEW r \in Requests, pc[r] # "over", WithAgent(r)
    PROVE  \E p \in {"over", "between", "call"}, a \in (Replies \cup {None}) \ Threaded :
              Goto(r, p) /\ reply' = [reply EXCEPT ![r] = a]
<1>1. CASE UNCHANGED reply /\ \E p \in {"between", "call"} : Goto(r, p)
  <2>1. reply' = [reply EXCEPT ![r] = reply[r]]
    BY <1>1 DEF ResumeInv, ServeShapes
  <2>2. reply[r] \in (Replies \cup {None}) \ Threaded
    BY DEF ResumeInv, ServeShapes, Final, Threaded
  <2>. QED BY <1>1, <2>1, <2>2
<1>2. CASE Answer(r, "not_resumable")
  BY <1>2 DEF Answer, Replies, Threaded
<1>3. CASE Answer(r, RunRefusal(req[r]))
  BY <1>3, Refusals DEF Answer
<1>4. \/ UNCHANGED reply /\ \E p \in {"between", "call"} : Goto(r, p)
      \/ Answer(r, "not_resumable") \/ Answer(r, RunRefusal(req[r]))
  BY DEF WithAgent
<1>. QED BY <1>1, <1>2, <1>3, <1>4

\* The instance of an agent is got from the cache, or built.
LEMMA GotAgent ==
    ASSUME ResumeInv, NEW r \in Requests, pc[r] \in {"lookup", "build"},
           WithAgent(r), inst'[r] # None,
           UNCHANGED <<req, thread, durable, restarts>>,
           inst' \in [Requests -> Requests \cup {None}],
           \A q \in Requests \ {r} : inst'[q] = inst[q],
           \/ UNCHANGED <<cache, replaced>> /\ inst'[r] = cache[req[r].agent]
           \/ /\ cache' = [cache EXCEPT ![req[r].agent] = r] /\ inst'[r] = r
              /\ replaced' = (replaced \/ cache[req[r].agent] # None)
    PROVE  ResumeInv'
<1>1. req[r].agent \in Present /\ pc[r] \notin {"new", "over"}
  BY DEF ResumeInv, Holds
<1>. PICK p \in {"over", "between", "call"}, a \in (Replies \cup {None}) \ Threaded :
        Goto(r, p) /\ reply' = [reply EXCEPT ![r] = a]
  BY <1>1, AgentAnswer
<1>2. ServeShapes'
  <2>1. replaced' \in BOOLEAN
    BY Zenon DEF ResumeInv, ServeShapes
  <2>2. cache' \in [Present -> Requests \cup {None}]
    BY <1>1 DEF ResumeInv, ServeShapes
  <2>3. /\ pc' \in [Requests -> Labels] /\ reply' \in [Requests -> Replies \cup {None}]
    BY <1>1 DEF ResumeInv, ServeShapes, Goto, Labels
  <2>. QED BY <2>1, <2>2, <2>3 DEF ResumeInv, ServeShapes
<1>3. Together' =>
        /\ Together
        /\ \A q \in Requests : req[q].agent \in Present =>
              \/ cache'[req[q].agent] = cache[req[q].agent]
              \/ req[q].agent = req[r].agent /\ cache[req[q].agent] = None
  BY <1>1 DEF Together, ResumeInv, ServeShapes
<1>4. Together' => inst'[r] = cache'[req[r].agent]
  BY <1>1 DEF ResumeInv, ServeShapes
<1>5. ASSUME NEW q \in Requests
      PROVE  Told(q)' /\ Final(q)' /\ Holds(q)' /\ NotFound(q)'
  <2>1. Told(q)'
    BY <1>1, <1>3 DEF ResumeInv, ServeShapes, Told, Kept, Threaded
  <2>2. Final(q)'
    BY <1>1 DEF ResumeInv, ServeShapes, Final, Goto, Threaded
  <2>3. Holds(q)'
    BY <1>1, <1>3, <1>4 DEF ResumeInv, ServeShapes, Holds, Goto
  <2>4. NotFound(q)'
    BY <1>1, <1>3 DEF ResumeInv, ServeShapes, NotFound, Threaded
  <2>. QED BY <2>1, <2>2, <2>3, <2>4
<1>6. ASSUME NEW q \in Requests, pc'[q] # "new", req'[q].thread # None
      PROVE  reply'[req[q].thread] = "interrupted"
  <2>1. pc[q] # "new"
    BY <1>1, <1>6 DEF ResumeInv, ServeShapes, Goto
  <2>2. reply[req[q].thread] = "interrupted"
    BY <1>6, <2>1 DEF ResumeInv, Asked
  <2>3. req[q].thread # r
    BY <1>1, <2>2 DEF ResumeInv, Final
  <2>. QED BY <2>2, <2>3 DEF ResumeInv, ServeShapes
<1>. QED BY <1>2, <1>5, <1>6 DEF ResumeInv, Asked

LEMMA LookupResume ==
    ASSUME ResumeInv, NEW r \in Requests, Lookup(r) \/ Build(r)
    PROVE  ResumeInv'
<1>1. /\ pc[r] \in {"lookup", "build"} /\ req[r].agent \in Present
      /\ UNCHANGED <<req, thread, durable, restarts>>
  BY DEF Lookup, Build, Threading, agentVars, ResumeInv, Holds
<1>2. CASE Lookup(r) /\ cache[req[r].agent] # None
  <2>1. inst' = [inst EXCEPT ![r] = cache[req[r].agent]] /\ WithAgent(r)
        /\ UNCHANGED <<cache, replaced>>
    BY <1>2 DEF Lookup, agentVars
  <2>2. cache[req[r].agent] \in Requests
    BY <1>1, <1>2 DEF ResumeInv, ServeShapes
  <2>3. /\ inst' \in [Requests -> Requests \cup {None}]
        /\ inst'[r] = cache[req[r].agent]
        /\ \A q \in Requests \ {r} : inst'[q] = inst[q]
    BY <2>1, <2>2 DEF ResumeInv, ServeShapes
  <2>. QED BY <1>1, <1>2, <2>1, <2>3, GotAgent
<1>3. CASE Lookup(r) /\ cache[req[r].agent] = None
  BY <1>1, <1>3, Onward DEF Lookup, Labels, agentVars
<1>4. CASE Build(r) /\ req[r].agent \in Broken
  BY <1>1, <1>4, Refused DEF Build, agentVars, Replies, Threaded
<1>5. CASE Build(r) /\ req[r].agent \notin Broken
  <2>1. /\ inst' = [inst EXCEPT ![r] = r] /\ WithAgent(r)
        /\ cache' = [cache EXCEPT ![req[r].agent] = r]
        /\ replaced' = (replaced \/ cache[req[r].agent] # None)
    BY <1>5 DEF Build
  <2>2. /\ inst' \in [Requests -> Requests \cup {None}]
        /\ inst'[r] = r /\ r # None
        /\ \A q \in Requests \ {r} : inst'[q] = inst[q]
    BY <2>1, ServeAssumption DEF ResumeInv, ServeShapes
  <2>. QED BY <1>1, <2>1, <2>2, GotAgent
<1>. QED BY <1>2, <1>3, <1>4, <1>5

\* A resume finds what was kept for it.
LEMMA FindsKept ==
    ASSUME ResumeInv, NEW r \in Requests, pc[r] = "call",
           req[r].thread # None, ~Known(r)
    PROVE  ~durable /\ ~Together
<1> DEFINE t == req[r].thread
<1>1. t \in Requests
  BY ServeAssumption DEF ResumeInv, ServeShapes, RequestType
<1>2. reply[t] = "interrupted"
  BY DEF ResumeInv, Asked
<1>3. t # r
  BY <1>2 DEF ResumeInv, Final
<1>4. req[t].agent = req[r].agent /\ req[t].route # "resume"
  BY <1>1, <1>3, ThreadsAssumption DEF ResumeInv, ServeShapes
<1>5. Kept(t)
  BY <1>1, <1>2, <1>4 DEF ResumeInv, Told
<1>6. inst[r] # None /\ (Together => inst[r] = cache[req[r].agent])
  BY DEF ResumeInv, Holds
<1>. QED BY <1>1, <1>4, <1>5, <1>6 DEF Known, Kept

LEMMA CallResume ==
    ASSUME ResumeInv, NEW r \in Requests, Call(r)
    PROVE  ResumeInv'
<1>1. /\ pc[r] = "call" /\ UNCHANGED <<cache, replaced, thread, durable, req, inst, restarts>>
  BY DEF Call, Threading, agentVars
<1>2. CASE Answer(r, "thread_not_found") /\ ~Known(r)
  <2>1. /\ pc' = [pc EXCEPT ![r] = "over"]
        /\ reply' = [reply EXCEPT ![r] = "thread_not_found"]
    BY <1>2 DEF Answer, Goto
  <2>2. ServeShapes'
    BY <1>1, <2>1 DEF ResumeInv, ServeShapes, Labels, Replies
  <2>3. req[r].thread # None => ~durable /\ ~Together
    BY <1>1, <1>2, FindsKept
  <2>4. ASSUME NEW q \in Requests
        PROVE  Told(q)' /\ Final(q)' /\ Holds(q)' /\ NotFound(q)'
    BY <1>1, <2>1, <2>3 DEF ResumeInv, ServeShapes, Told, Final, Holds, NotFound, Kept,
                            Together
  <2>5. ASSUME NEW q \in Requests PROVE Asked(q)'
    <3>1. req[q].thread # None /\ pc'[q] # "new" =>
              reply[req[q].thread] = "interrupted" /\ req[q].thread # r
      BY <1>1, <2>1 DEF ResumeInv, ServeShapes, Asked, Final
    <3>. QED BY <1>1, <2>1, <3>1 DEF Asked, ResumeInv, ServeShapes
  <2>. QED BY <2>2, <2>4, <2>5 DEF ResumeInv
<1>3. CASE Answer(r, "invalid")
  BY <1>1, <1>3, Refused DEF Replies, Threaded
<1>4. CASE Goto(r, "running") /\ UNCHANGED reply
  BY <1>1, <1>4, Onward DEF Labels, ResumeInv, Holds
<1>. QED BY <1>2, <1>3, <1>4 DEF Call

LEMMA EndedResume ==
    ASSUME ResumeInv, NEW r \in Requests, Ended(r)
    PROVE  ResumeInv'
<1>1. pc[r] = "running" /\ UNCHANGED <<cache, replaced, durable, req, inst, restarts>>
  BY DEF Ended, Threading
<1>2. CASE UNCHANGED thread
           /\ \E a \in {"ok", "withheld", "internal_error"} : Answer(r, a)
  BY <1>1, <1>2, Refused DEF Replies, Threaded
<1>3. CASE /\ \E a \in {"interrupted", "withheld"} : Answer(r, a)
           /\ thread' = IF req[r].route = "resume" THEN thread
                        ELSE [thread EXCEPT ![r] = IF durable THEN "db" ELSE inst[r]]
  <2>. PICK a \in {"interrupted", "withheld"} :
          pc' = [pc EXCEPT ![r] = "over"] /\ reply' = [reply EXCEPT ![r] = a]
    BY <1>3 DEF Answer, Goto
  <2>1. /\ \A q \in Requests \ {r} : thread'[q] = thread[q]
        /\ req[r].route # "resume" => thread'[r] = IF durable THEN "db" ELSE inst[r]
        /\ thread' \in [Requests -> Requests \cup {"db", None}]
    BY <1>3 DEF ResumeInv, ServeShapes
  <2>2. ServeShapes'
    BY <1>1, <2>1 DEF ResumeInv, ServeShapes, Labels, Replies
  <2>3. Told(r)'
    BY <1>1, <2>1 DEF ResumeInv, ServeShapes, Told, Kept, Holds, Together
  <2>4. ASSUME NEW q \in Requests, q # r PROVE Told(q)'
    BY <1>1, <2>1, <2>4 DEF ResumeInv, ServeShapes, Told, Kept, Together
  <2>5. ASSUME NEW q \in Requests
        PROVE  Final(q)' /\ Holds(q)' /\ NotFound(q)'
    BY <1>1 DEF ResumeInv, ServeShapes, Final, Holds, NotFound, Together
  <2>6. ASSUME NEW q \in Requests PROVE Asked(q)'
    <3>1. req[q].thread # None /\ pc'[q] # "new" =>
              reply[req[q].thread] = "interrupted" /\ req[q].thread # r
      BY <1>1 DEF ResumeInv, ServeShapes, Asked, Final
    <3>. QED BY <1>1, <3>1 DEF Asked, ResumeInv, ServeShapes
  <2>. QED BY <2>2, <2>3, <2>4, <2>5, <2>6 DEF ResumeInv
<1>. QED BY <1>2, <1>3 DEF Ended

LEMMA RestartResume == ASSUME ResumeInv, Restart PROVE ResumeInv'
<1>1. ServeShapes' /\ ~Together' /\ (~Together \/ restarts = 0)
  BY DEF Restart, ResumeInv, ServeShapes, Together, Labels
<1>. QED BY <1>1 DEF Restart, ResumeInv, ServeShapes, Told, Final, Holds, Asked, NotFound,
                     Kept

LEMMA StepResume ==
    ASSUME ResumeInv, [Next]_vars
    PROVE  ResumeInv'
<1>1. CASE Clock \/ UNCHANGED vars \/ \E r \in Requests : Leave(r)
  BY <1>1 DEF Clock, Leave, vars, agentVars, ResumeInv, ServeShapes, Told, Final, Holds,
              Asked, NotFound, Kept, Together
<1>. QED BY <1>1, DispatchResume, StreamResume, LookupResume, CallResume, EndedResume,
            RestartResume DEF Next, Step

\* A client that was told "interrupted" can resume, unless the checkpoints are in
\* memory and the process was restarted or two requests built the agent at once
\* (service.py, the cache of agents), for any clients that resume their own runs.
THEOREM ResumeFindsThreadAlways == Spec => []ResumeFindsThread
<1>1. ResumeInv => ResumeFindsThread
  BY DEF ResumeInv, ServeShapes, NotFound, Together, ResumeFindsThread
<1>. QED BY <1>1, InitResume, StepResume, PTL DEF Spec

-----------------------------------------------------------------------------
(* The gate: texts cut in two *)

\* The first newline: of the sets 1 .. i with a newline at i, one has no other as
\* a proper part.
LEMMA LineEndIs ==
    ASSUME NEW C, NEW b \in Seq(C), Complete(b)
    PROVE  /\ LineEnd(b) \in 1 .. Len(b) /\ b[LineEnd(b)] = Newline
           /\ \A j \in 1 .. LineEnd(b) - 1 : b[j] # Newline
<1> DEFINE Stops == {i \in 1 .. Len(b) : b[i] = Newline}
           T == {1 .. i : i \in Stops}
<1>1. Len(b) \in Nat /\ DOMAIN b = 1 .. Len(b)
  BY LenProperties
<1>2. Stops # {} /\ Stops \subseteq Nat \ {0}
  BY <1>1 DEF Complete
<1>3. T # {} /\ T \subseteq FiniteSubsetsOf(Nat)
  <2>1. \A i \in Nat : IsFiniteSet(1 .. i)
    BY FS_Interval
  <2>. QED BY <1>2, <2>1 DEF FiniteSubsetsOf
<1>4. PICK x \in T : \A y \in T : <<y, x>> \notin StrictSubsetOrdering(Nat)
  <2>1. IsWellFoundedOn(StrictSubsetOrdering(Nat), FiniteSubsetsOf(Nat))
    BY FS_StrictSubsetOrderingWellFounded
  <2> HIDE DEF T
  <2>. QED BY <1>3, <2>1, WFMin
<1>5. PICK i \in Stops : x = 1 .. i
  BY <1>4
<1>6. \A j \in 1 .. i - 1 : b[j] # Newline
  <2>. SUFFICES ASSUME NEW j \in 1 .. i - 1, b[j] = Newline PROVE FALSE
    OBVIOUS
  <2>1. 1 .. j \in T /\ i \in Nat /\ j \in Nat /\ j < i
    BY <1>1, <1>5
  <2>2. 1 .. j \subseteq 1 .. i /\ 1 .. j # 1 .. i
    BY <2>1
  <2>3. <<1 .. j, 1 .. i>> \in StrictSubsetOrdering(Nat)
    <3>1. 1 .. j \in SUBSET Nat /\ 1 .. i \in SUBSET Nat
      BY <2>1
    <3>. QED BY <2>2, <3>1 DEF StrictSubsetOrdering
  <2>. QED BY <1>4, <1>5, <2>1, <2>3
<1>7. \E k \in DOMAIN b : b[k] = Newline /\ \A j \in 1 .. k - 1 : b[j] # Newline
  BY <1>1, <1>5, <1>6
<1>. QED BY <1>1, <1>7 DEF LineEnd

\* A buffer with a line is the line and what follows it.
LEMMA CutLine ==
    ASSUME NEW C, NEW b \in Seq(C), Complete(b)
    PROVE  /\ FirstLine(b) \in Seq(C) /\ AfterLine(b) \in Seq(C)
           /\ b = FirstLine(b) \o AfterLine(b)
           /\ FirstLine(b) # <<>> /\ Last(FirstLine(b)) = Newline
<1> DEFINE k == LineEnd(b)
<1>1. k \in 1 .. Len(b) /\ b[k] = Newline
  BY LineEndIs
<1>2. Len(b) \in Nat /\ \A i \in 1 .. Len(b) : b[i] \in C
  BY LenProperties, ElementOfSeq
<1>3. /\ FirstLine(b) \in Seq(C) /\ Len(FirstLine(b)) = k
      /\ \A i \in 1 .. k : FirstLine(b)[i] = b[i]
  <2>1. \A i \in 1 .. k : b[i] \in C
    BY <1>1, <1>2
  <2> HIDE DEF k
  <2>. QED BY <1>1, <1>2, <2>1, SubSeqProperties DEF FirstLine, k
<1>4. /\ AfterLine(b) \in Seq(C) /\ Len(AfterLine(b)) = Len(b) - k
      /\ \A i \in 1 .. Len(b) - k : AfterLine(b)[i] = b[k + i]
  <2>1. \A i \in k + 1 .. Len(b) : b[i] \in C
    BY <1>1, <1>2
  <2> HIDE DEF k
  <2>2. k + 1 \in Int /\ Len(b) \in Int
    BY <1>1, <1>2
  <2>3. AfterLine(b) = SubSeq(b, k + 1, Len(b))
    BY DEF AfterLine, k
  <2>4. /\ SubSeq(b, k + 1, Len(b)) \in Seq(C)
        /\ Len(SubSeq(b, k + 1, Len(b)))
              = IF k + 1 <= Len(b) THEN Len(b) - (k + 1) + 1 ELSE 0
        /\ \A i \in 1 .. Len(b) - (k + 1) + 1 :
              SubSeq(b, k + 1, Len(b))[i] = b[k + 1 + i - 1]
    BY <2>1, <2>2, SubSeqProperties
  <2>. QED BY <1>1, <1>2, <2>3, <2>4
<1> HIDE DEF k
<1>5. b = FirstLine(b) \o AfterLine(b)
  <2> DEFINE f == FirstLine(b)
             g == AfterLine(b)
  <2>1. /\ f \in Seq(C) /\ Len(f) = k /\ \A i \in 1 .. k : f[i] = b[i]
        /\ g \in Seq(C) /\ Len(g) = Len(b) - k /\ \A i \in 1 .. Len(b) - k : g[i] = b[k + i]
    BY <1>3, <1>4
  <2> HIDE DEF f, g
  <2>2. /\ f \o g \in Seq(C) /\ Len(f \o g) = Len(f) + Len(g)
        /\ \A i \in 1 .. Len(f) + Len(g) :
              (f \o g)[i] = IF i <= Len(f) THEN f[i] ELSE g[i - Len(f)]
    BY <2>1, ConcatProperties
  <2>3. Len(f) + Len(g) = Len(b)
    BY <1>1, <1>2, <2>1
  <2>4. ASSUME NEW i \in 1 .. Len(b) PROVE b[i] = (f \o g)[i]
    <3>1. CASE i <= k
      BY <1>1, <1>2, <2>1, <2>2, <2>3, <3>1
    <3>2. CASE ~(i <= k)
      <4>1. i - k \in 1 .. Len(b) - k /\ k + (i - k) = i
        BY <1>1, <1>2, <3>2
      <4>. QED BY <1>1, <1>2, <2>1, <2>2, <2>3, <3>2, <4>1
    <3>. QED BY <3>1, <3>2
  <2>5. b = f \o g
    BY <2>2, <2>3, <2>4, SeqEqual
  <2>. QED BY <2>5 DEF f, g
<1>6. FirstLine(b) # <<>>
  BY <1>1, <1>3
<1>7. Last(FirstLine(b)) = Newline
  BY <1>1, <1>3 DEF Last
<1>. QED BY <1>3, <1>4, <1>5, <1>6, <1>7

\* No secret lies across the end of a line.
Ends(s) == s = <<>> \/ Last(s) = Newline

LEMMA NotAcross ==
    ASSUME NEW C, NEW s \in Seq(C), NEW l \in Seq(C), Ends(s),
           ~HasSecret(s), ~HasSecret(l)
    PROVE  ~HasSecret(s \o l)
<1>1. Len(s) \in Nat /\ Len(l) \in Nat
  BY LenProperties
<1>2. /\ Len(s \o l) = Len(s) + Len(l)
      /\ \A i \in 1 .. Len(s) + Len(l) :
            (s \o l)[i] = IF i <= Len(s) THEN s[i] ELSE l[i - Len(s)]
  BY ConcatProperties
<1>. SUFFICES ASSUME HasSecret(s \o l) PROVE FALSE
  OBVIOUS
<1>. PICK i \in 1 .. Len(s \o l) - 1 :
        (s \o l)[i] = SecretHead /\ (s \o l)[i + 1] = SecretTail
  BY DEF HasSecret
<1>0. i \in 1 .. Len(s) + Len(l) - 1
  BY <1>2
<1>3. CASE i < Len(s)
  <2>1. i \in 1 .. Len(s) - 1 /\ s[i] = SecretHead /\ s[i + 1] = SecretTail
    BY <1>0, <1>1, <1>2, <1>3
  <2>. QED BY <2>1 DEF HasSecret
<1>4. CASE i = Len(s)
  <2>1. s[Len(s)] = SecretHead /\ s # <<>>
    BY <1>0, <1>1, <1>2, <1>4
  <2>. QED BY <2>1, GateAssumption DEF Ends, Last
<1>5. CASE i > Len(s)
  <2> DEFINE j == i - Len(s)
  <2>1. j \in 1 .. Len(l) - 1 /\ l[j] = SecretHead /\ l[j + 1] = SecretTail
    BY <1>0, <1>1, <1>2, <1>5
  <2>. QED BY <2>1 DEF HasSecret
<1>. QED BY <1>0, <1>1, <1>3, <1>4, <1>5

\* A text in two parts begins with the first, and the second is what remains.
LEMMA TwoParts ==
    ASSUME NEW C, NEW s \in Seq(C), NEW b \in Seq(C)
    PROVE  /\ IsPrefix(s, s \o b)
           /\ SubSeq(s \o b, Len(s) + 1, Len(s \o b)) = b
           /\ (s = s \o b) => b = <<>>
<1> DEFINE t == s \o b
<1>1. Len(s) \in Nat /\ Len(b) \in Nat
  BY LenProperties
<1>2. /\ t \in Seq(C) /\ Len(t) = Len(s) + Len(b)
      /\ \A i \in 1 .. Len(s) + Len(b) :
            t[i] = IF i <= Len(s) THEN s[i] ELSE b[i - Len(s)]
  BY ConcatProperties
<1>3. \A i \in 1 .. Len(t) : t[i] \in C
  BY <1>2, ElementOfSeq
<1> HIDE DEF t
<1>4. SubSeq(s, 1, Len(s)) = s
  BY SubSeqFull
<1>5. /\ SubSeq(t, 1, Len(s)) \in Seq(C) /\ Len(SubSeq(t, 1, Len(s))) = Len(s)
      /\ \A i \in 1 .. Len(s) : SubSeq(t, 1, Len(s))[i] = t[i]
  <2>1. \A i \in 1 .. Len(s) : t[i] \in C
    BY <1>1, <1>2, <1>3
  <2>. QED BY <1>1, <2>1, SubSeqProperties
<1>6. SubSeq(t, 1, Len(s)) = s
  <2>1. \A i \in 1 .. Len(s) : SubSeq(t, 1, Len(s))[i] = s[i]
    BY <1>1, <1>2, <1>5
  <2>. QED BY <1>5, <2>1, SeqEqual
<1>7. /\ SubSeq(t, Len(s) + 1, Len(t)) \in Seq(C)
      /\ Len(SubSeq(t, Len(s) + 1, Len(t))) = Len(b)
      /\ \A i \in 1 .. Len(b) : SubSeq(t, Len(s) + 1, Len(t))[i] = t[Len(s) + i]
  <2>1. \A i \in Len(s) + 1 .. Len(t) : t[i] \in C
    BY <1>1, <1>2, <1>3
  <2>2. Len(s) + 1 \in Int /\ Len(t) \in Int
    BY <1>1, <1>2
  <2>3. /\ SubSeq(t, Len(s) + 1, Len(t)) \in Seq(C)
        /\ Len(SubSeq(t, Len(s) + 1, Len(t)))
              = IF Len(s) + 1 <= Len(t) THEN Len(t) - (Len(s) + 1) + 1 ELSE 0
        /\ \A i \in 1 .. Len(t) - (Len(s) + 1) + 1 :
              SubSeq(t, Len(s) + 1, Len(t))[i] = t[Len(s) + 1 + i - 1]
    BY <2>1, <2>2, SubSeqProperties
  <2>. QED BY <1>1, <1>2, <2>3
<1>8. SubSeq(t, Len(s) + 1, Len(t)) = b
  <2>1. ASSUME NEW i \in 1 .. Len(b)
        PROVE  SubSeq(t, Len(s) + 1, Len(t))[i] = b[i]
    <3>1. /\ Len(s) + i \in 1 .. Len(s) + Len(b) /\ ~(Len(s) + i <= Len(s))
          /\ Len(s) + i - Len(s) = i
      BY <1>1
    <3>2. t[Len(s) + i] = b[i]
      BY <1>2, <3>1
    <3>. QED BY <1>7, <3>2
  <2>. QED BY <1>7, <2>1, SeqEqual
<1>9. s = t => b = <<>>
  BY ConcatEqualIffEmpty DEF t
<1>10. Len(s) <= Len(t)
  BY <1>1, <1>2
<1>. QED BY <1>4, <1>6, <1>8, <1>9, <1>10 DEF IsPrefix, t

\* What begins a text begins it still when more is produced.
LEMMA PrefixGrows ==
    ASSUME NEW C, NEW s \in Seq(C), NEW t \in Seq(C), NEW d \in Seq(C), IsPrefix(s, t)
    PROVE  IsPrefix(s, t \o d)
<1>1. Len(s) \in Nat /\ Len(t) \in Nat /\ Len(d) \in Nat /\ Len(s) <= Len(t)
  BY LenProperties DEF IsPrefix
<1>2. /\ t \o d \in Seq(C) /\ Len(t \o d) = Len(t) + Len(d)
      /\ \A i \in 1 .. Len(t) + Len(d) :
            (t \o d)[i] = IF i <= Len(t) THEN t[i] ELSE d[i - Len(t)]
  BY ConcatProperties
<1>3. \A i \in 1 .. Len(s) : t[i] \in C /\ (t \o d)[i] = t[i]
  BY <1>1, <1>2, ElementOfSeq
<1>4. /\ SubSeq(t, 1, Len(s)) \in Seq(C) /\ Len(SubSeq(t, 1, Len(s))) = Len(s)
      /\ \A i \in 1 .. Len(s) : SubSeq(t, 1, Len(s))[i] = t[i]
  BY <1>1, <1>3, SubSeqProperties
<1>5. /\ SubSeq(t \o d, 1, Len(s)) \in Seq(C)
      /\ Len(SubSeq(t \o d, 1, Len(s))) = Len(s)
      /\ \A i \in 1 .. Len(s) : SubSeq(t \o d, 1, Len(s))[i] = (t \o d)[i]
  <2>1. \A i \in 1 .. Len(s) : (t \o d)[i] \in C
    BY <1>3
  <2>. QED BY <1>1, <2>1, SubSeqProperties
<1>6. \A i \in 1 .. Len(s) : SubSeq(t \o d, 1, Len(s))[i] = SubSeq(t, 1, Len(s))[i]
  BY <1>3, <1>4, <1>5
<1>7. SubSeq(t \o d, 1, Len(s)) = SubSeq(t, 1, Len(s))
  BY <1>4, <1>5, <1>6, SeqEqual
<1>. QED BY <1>1, <1>2, <1>7 DEF IsPrefix

-----------------------------------------------------------------------------
(* What the gate lets out *)

\* While the client is there, what was produced is what it was sent and what the
\* gate still holds; what it was sent ends at the end of a line, until the tail.
Piece(s, b, t, c, x) ==
    /\ IsPrefix(s, t) /\ ~HasSecret(s)
    /\ c = "there" => t = s \o b
    /\ Ends(s) \/ (x = "closed" /\ s = t)

Withheld(s, t) == HasSecret(NextLine(s, t)) \/ TooLong(NextLine(s, t))

\* The answers that say something of the text, and where a request that has one, or a
\* closed run, can be.
Verdicts == {"stop", "content_filter"}
Done     == {"closing", "over", "lost"}
Opened   == {"between", "pulling"} \cup Done

Clean(s, b, t, c, x, p, a) ==
    /\ Piece(s, b, t, c, x)
    /\ x = "closed" => p \in Opened
    /\ a \in Verdicts => p \in Done
    /\ a = "stop" => s = t
    /\ a = "content_filter" => Withheld(s, t)

GateShapes(C) ==
    /\ text \in [Requests -> Seq(C)] /\ buffer \in [Requests -> Seq(C)]
    /\ sent \in [Requests -> Seq(C)] /\ client \in [Requests -> {"there", "left"}]

GateInv(C) ==
    /\ GateShapes(C)
    /\ \A r \in Requests :
          Clean(sent[r], buffer[r], text[r], client[r], run[r], pc[r], reply[r])

\* What becomes of a piece when the run yields a delta,
LEMMA PieceDelta ==
    ASSUME NEW C, NEW s \in Seq(C), NEW b \in Seq(C), NEW t \in Seq(C), NEW d \in Seq(C),
           NEW c, NEW x, Piece(s, b, t, c, x), x # "closed"
    PROVE  Piece(s, b \o d, t \o d, c, x)
<1>1. IsPrefix(s, t \o d)
  BY PrefixGrows DEF Piece
<1>2. (s \o b) \o d = s \o (b \o d)
  BY ConcatAssociative
<1>. QED BY <1>1, <1>2 DEF Piece

\* and when the gate lets a text go: a line, or the tail of a run that is closed.
LEMMA PieceSent ==
    ASSUME NEW C, NEW s \in Seq(C), NEW b \in Seq(C), NEW t \in Seq(C), NEW c, NEW x,
           Piece(s, b, t, c, x), NEW l \in Seq(C), NEW rest \in Seq(C), NEW y,
           b = l \o rest, l # <<>>, ~HasSecret(l), c = "there",
           Ends(l) \/ (y = "closed" /\ rest = <<>>)
    PROVE  Piece(s \o l, rest, t, c, y)
<1>1. t = s \o (l \o rest)
  BY DEF Piece
<1>2. t = (s \o l) \o rest /\ s \o l \in Seq(C)
  BY <1>1, ConcatAssociative, ConcatProperties
<1>3. Ends(s)
  <2>1. l \o rest # <<>>
    BY ConcatEmptySeq, ConcatProperties, EmptySeq
  <2>. QED BY <1>1, <2>1, TwoParts DEF Piece
<1>4. ~HasSecret(s \o l)
  BY <1>3, NotAcross DEF Piece
<1>5. IsPrefix(s \o l, t)
  BY <1>2, TwoParts
<1>6. rest = <<>> => s \o l = t
  BY <1>2, ConcatEmptySeq
<1>7. Ends(l) => Ends(s \o l)
  <2>1. Last(s \o l) = Last(l) /\ Len(l) > 0
    BY ConcatProperties, LenProperties, EmptySeq DEF Last
  <2>. QED BY <2>1 DEF Ends
<1>. QED BY <1>2, <1>4, <1>5, <1>6, <1>7 DEF Piece

\* A client that left is sent nothing.
LEMMA PieceLeft ==
    ASSUME NEW s, NEW b, NEW t, NEW c, NEW x, Piece(s, b, t, c, x), c # "there",
           NEW d, NEW y, x = "closed" => y = "closed"
    PROVE  Piece(s, d, t, c, y)
BY DEF Piece

\* The line after what was sent is the gate's.
LEMMA NextIs ==
    ASSUME NEW C, NEW s \in Seq(C), NEW b \in Seq(C), NEW t \in Seq(C), NEW x,
           Piece(s, b, t, "there", x)
    PROVE  NextLine(s, t) = IF Complete(b) THEN FirstLine(b) ELSE b
<1>1. t = s \o b
  BY DEF Piece
<1>2. SubSeq(t, Len(s) + 1, Len(t)) = b
  BY <1>1, TwoParts
<1>. QED BY <1>2 DEF NextLine

LEMMA InitGate == ASSUME NEW C, Init PROVE GateInv(C)
<1>1. <<>> \in Seq(C) /\ Len(<<>>) = 0
  BY EmptySeq
<1>2. GateShapes(C)
  BY <1>1 DEF Init, GateShapes
<1>3. IsPrefix(<<>>, <<>>) /\ ~HasSecret(<<>>) /\ <<>> = <<>> \o <<>>
  <2>1. SubSeq(<<>>, 1, 0) = <<>>
    OBVIOUS
  <2>. QED BY <1>1, <2>1 DEF IsPrefix, HasSecret
<1>4. None \notin Verdicts
  BY ServeAssumption DEF Verdicts, Replies
<1>5. Piece(<<>>, <<>>, <<>>, "there", "none")
  BY <1>3 DEF Piece, Ends
<1>6. Clean(<<>>, <<>>, <<>>, "there", "none", "new", None)
  BY <1>4, <1>5 DEF Clean, Verdicts
<1>7. ASSUME NEW r \in Requests
      PROVE  /\ sent[r] = <<>> /\ buffer[r] = <<>> /\ text[r] = <<>>
             /\ client[r] = "there" /\ run[r] = "none" /\ pc[r] = "new"
             /\ reply[r] = None
  BY DEF Init
<1>. QED BY <1>2, <1>6, <1>7 DEF GateInv

\* What is known of one request, and what a step leaves of another.
CleanAt(r) == Clean(sent[r], buffer[r], text[r], client[r], run[r], pc[r], reply[r])
Apart(r) == \A q \in Requests \ {r} :
    UNCHANGED <<sent[q], buffer[q], text[q], client[q], run[q], pc[q], reply[q]>>

LEMMA OneRequest ==
    ASSUME NEW C, GateInv(C), NEW r \in Requests, GateShapes(C)', Apart(r), CleanAt(r)'
    PROVE  GateInv(C)'
<1>1. ASSUME NEW q \in Requests PROVE CleanAt(q)'
  <2>1. CASE q = r
    BY <2>1
  <2>2. CASE q # r
    BY <2>2 DEF GateInv, Apart, CleanAt
  <2>. QED BY <2>1, <2>2
<1>. QED BY <1>1 DEF GateInv, CleanAt

\* A request that is not yet streamed, and an answer that says nothing of a text.
LEMMA Before ==
    ASSUME NEW C, GateInv(C), OpenInv, ServeShapes, NEW r \in Requests,
           pc[r] \notin Opened, NEW p, Goto(r, p),
           NEW a, a \notin Verdicts, reply' = [reply EXCEPT ![r] = a] \/ UNCHANGED reply,
           NEW x \in {"none", "fresh"}, run' = [run EXCEPT ![r] = x] \/ UNCHANGED run,
           UNCHANGED <<text, buffer, sent, client>>
    PROVE  GateInv(C)'
<1>1. Apart(r)
  BY DEF Apart, Goto, OpenInv, ServeShapes
<1>2. GateShapes(C)'
  BY DEF GateInv, GateShapes
<1>3. CleanAt(r)
  BY DEF GateInv, CleanAt
<1>4. run[r] # "closed" /\ reply[r] \notin Verdicts
  BY <1>3 DEF CleanAt, Clean, Opened
<1>5. run'[r] # "closed" /\ reply'[r] \notin Verdicts
  BY <1>4 DEF OpenInv, ServeShapes
<1>6. Piece(sent[r], buffer[r], text[r], client[r], run'[r])
  BY <1>3, <1>4 DEF CleanAt, Clean, Piece
<1>7. CleanAt(r)'
  BY <1>5, <1>6 DEF CleanAt, Clean, Verdicts
<1>. QED BY <1>1, <1>2, <1>7, OneRequest

LEMMA Mild ==
    ASSUME NEW q
    PROVE  /\ RouteRefusal(q) \notin Verdicts /\ RunRefusal(q) \notin Verdicts
           /\ Refusal(q) \notin Verdicts
<1>1. None \notin Verdicts
  BY ServeAssumption DEF Verdicts, Replies
<1>. QED BY <1>1 DEF RouteRefusal, RunRefusal, Refusal, Verdicts

LEMMA BeforeAnswer ==
    ASSUME NEW C, GateInv(C), OpenInv, ServeShapes, NEW r \in Requests,
           pc[r] \notin Opened, NEW a, a \notin Verdicts, Answer(r, a),
           UNCHANGED streamVars
    PROVE  GateInv(C)'
<1>1. Goto(r, "over") /\ reply' = [reply EXCEPT ![r] = a]
  BY DEF Answer
<1>2. UNCHANGED run /\ UNCHANGED <<text, buffer, sent, client>>
  BY DEF streamVars
<1>. QED BY <1>1, <1>2, Before

LEMMA BeforeGoto ==
    ASSUME NEW C, GateInv(C), OpenInv, ServeShapes, NEW r \in Requests,
           pc[r] \notin Opened, NEW p, Goto(r, p), UNCHANGED reply,
           UNCHANGED streamVars
    PROVE  GateInv(C)'
<1>1. None \notin Verdicts
  BY ServeAssumption DEF Verdicts, Replies
<1>2. UNCHANGED run /\ UNCHANGED <<text, buffer, sent, client>>
  BY DEF streamVars
<1>. QED BY <1>1, <1>2, Before

LEMMA DispatchGate ==
    ASSUME NEW C, GateInv(C), OpenInv, ServeShapes, NEW r \in Requests,
           Dispatch(r) \/ CallTool(r)
    PROVE  GateInv(C)'
<1>1. pc[r] \notin Opened /\ UNCHANGED streamVars
  BY DEF Dispatch, CallTool, Arrives, Opened, Done
<1>2. ASSUME Admitted(r) PROVE GateInv(C)'
  <2>1. \/ Answer(r, RouteRefusal(req[r])) \/ Answer(r, Refusal(req[r]))
        \/ Goto(r, "lookup") /\ UNCHANGED reply
    BY <1>2 DEF Admitted
  <2>. QED BY <1>1, <2>1, Mild, BeforeAnswer, BeforeGoto
<1>3. ASSUME Answer(r, "rate_limited") \/ Answer(r, "unauthorized") PROVE GateInv(C)'
  BY <1>1, <1>3, BeforeAnswer DEF Verdicts
<1>. QED BY <1>2, <1>3 DEF Dispatch, CallTool

LEMMA WithAgentGate ==
    ASSUME NEW C, GateInv(C), OpenInv, ServeShapes, NEW r \in Requests,
           pc[r] \notin Opened, WithAgent(r)
    PROVE  GateInv(C)'
<1>1. CASE Answer(r, "not_resumable") /\ UNCHANGED streamVars
  BY <1>1, BeforeAnswer DEF Verdicts
<1>2. CASE Answer(r, RunRefusal(req[r])) /\ UNCHANGED streamVars
  BY <1>2, BeforeAnswer, Mild
<1>3. CASE /\ Goto(r, "between") /\ run' = [run EXCEPT ![r] = "fresh"]
           /\ UNCHANGED <<reply, text, buffer, sent, client>>
  <2>1. "error" \notin Verdicts
    BY DEF Verdicts
  <2>. QED BY <1>3, <2>1, Before
<1>4. CASE Goto(r, "call") /\ UNCHANGED <<reply, streamVars>>
  BY <1>4, BeforeGoto
<1>. QED BY <1>1, <1>2, <1>3, <1>4 DEF WithAgent

LEMMA ServiceGate ==
    ASSUME NEW C, GateInv(C), OpenInv, ServeShapes, NEW r \in Requests,
           Lookup(r) \/ Build(r) \/ Call(r) \/ Ended(r)
    PROVE  GateInv(C)'
<1>1. pc[r] \notin Opened
  BY DEF Lookup, Build, Call, Ended, Threading, Opened, Done
<1>2. CASE Lookup(r) \/ Build(r)
  <2>1. \/ WithAgent(r)
        \/ Goto(r, "build") /\ UNCHANGED <<reply, streamVars>>
        \/ Answer(r, "internal_error") /\ UNCHANGED streamVars
    BY <1>2 DEF Lookup, Build
  <2>. QED BY <1>1, <2>1, WithAgentGate, BeforeGoto, BeforeAnswer DEF Verdicts
<1>3. CASE Call(r) \/ Ended(r)
  <2>1. /\ UNCHANGED streamVars
        /\ \/ Goto(r, "running") /\ UNCHANGED reply
           \/ \E a \in Replies \ Verdicts : Answer(r, a)
    BY <1>3 DEF Call, Ended, Replies, Verdicts
  <2>. QED BY <1>1, <2>1, BeforeGoto, BeforeAnswer
<1>. QED BY <1>2, <1>3

\* The next pull and the end of a response leave the text alone.
LEMMA PullGate ==
    ASSUME NEW C, GateInv(C), OpenInv, ServeShapes, NEW r \in Requests,
           Pull(r) \/ Close(r)
    PROVE  GateInv(C)'
<1>1. /\ pc[r] \in {"between", "closing"}
      /\ Goto(r, "over") \/ (pc[r] = "between" /\ Goto(r, "pulling"))
      /\ UNCHANGED <<reply, text, buffer, sent, client>>
  BY DEF Pull, Close, Streamed
<1>2. /\ \A q \in Requests \ {r} : run'[q] = run[q]
      /\ run[r] = "closed" => run'[r] = "closed"
      /\ run'[r] \in Runs
      /\ run'[r] = "closed" => run[r] = "closed" \/ run[r] = "open"
  BY DEF Pull, Close, OpenInv, Runs
<1>3. pc'[r] \in {"pulling", "over"} /\ (pc[r] = "closing" => pc'[r] = "over")
  BY <1>1 DEF Goto, OpenInv
<1>4. Apart(r)
  BY <1>1, <1>2 DEF Apart, Goto, OpenInv
<1>5. GateShapes(C)'
  BY <1>1 DEF GateInv, GateShapes
<1>6. CleanAt(r)
  BY DEF GateInv, CleanAt
<1>7. Piece(sent[r], buffer[r], text[r], client[r], run'[r])
  BY <1>2, <1>6 DEF CleanAt, Clean, Piece
<1>8. CleanAt(r)'
  BY <1>1, <1>3, <1>6, <1>7 DEF CleanAt, Clean, Verdicts, Opened, Done
<1>. QED BY <1>4, <1>5, <1>8, OneRequest

LEMMA DeltaGate ==
    ASSUME NEW C, Deltas \subseteq Seq(C), GateInv(C), OpenInv, ServeShapes,
           NEW r \in Requests, Delta(r)
    PROVE  GateInv(C)'
<1>. PICK d \in Seq(C) : /\ text' = [text EXCEPT ![r] = @ \o d]
                         /\ buffer' = [buffer EXCEPT ![r] = @ \o d]
  BY DEF Delta
<1>1. pc[r] = "pulling" /\ run[r] = "open" /\ UNCHANGED <<pc, reply, run, sent, client>>
  BY DEF Delta, Streamed
<1>2. /\ text[r] \in Seq(C) /\ buffer[r] \in Seq(C) /\ sent[r] \in Seq(C)
      /\ text'[r] = text[r] \o d /\ buffer'[r] = buffer[r] \o d
      /\ text'[r] \in Seq(C) /\ buffer'[r] \in Seq(C)
  BY ConcatProperties DEF GateInv, GateShapes
<1>3. Apart(r) /\ GateShapes(C)'
  BY <1>1, <1>2 DEF Apart, GateInv, GateShapes
<1>4. CleanAt(r)
  BY DEF GateInv, CleanAt
<1>5. Piece(sent[r], buffer[r] \o d, text[r] \o d, client[r], run[r])
  BY <1>1, <1>2, <1>4, PieceDelta DEF CleanAt, Clean
<1>6. CleanAt(r)'
  BY <1>1, <1>2, <1>4, <1>5 DEF CleanAt, Clean, Verdicts, Opened, Done
<1>. QED BY <1>3, <1>6, OneRequest

\* The pull ends the run, with a finish that is true of the text.
LEMMA FinishedGate ==
    ASSUME NEW C, GateInv(C), OpenInv, ServeShapes, NEW r \in Requests,
           pc[r] = "pulling", NEW f, Finished(r, f),
           client[r] = "there" /\ f = "stop" => sent[r] = text[r],
           client[r] = "there" /\ f = "content_filter" => Withheld(sent[r], text[r])
    PROVE  GateInv(C)'
<1>1. /\ Goto(r, "closing") /\ run' = [run EXCEPT ![r] = "closed"]
      /\ UNCHANGED <<text, buffer, sent, client>>
      /\ reply' = [reply EXCEPT ![r] = IF client[r] = "left" THEN None ELSE f]
  BY DEF Finished
<1>2. /\ pc'[r] = "closing" /\ run'[r] = "closed"
      /\ reply'[r] = IF client[r] = "left" THEN None ELSE f
  BY <1>1 DEF Goto, OpenInv, ServeShapes
<1>3. Apart(r) /\ GateShapes(C)'
  BY <1>1 DEF Apart, Goto, GateInv, GateShapes, OpenInv, ServeShapes
<1>4. CleanAt(r) /\ client[r] \in {"there", "left"}
  BY DEF GateInv, CleanAt, GateShapes
<1>5. Piece(sent[r], buffer[r], text[r], client[r], "closed")
  BY <1>4 DEF CleanAt, Clean, Piece
<1>6. None \notin Verdicts
  BY ServeAssumption DEF Verdicts, Replies
<1>7. /\ reply'[r] = "stop" => sent[r] = text[r]
      /\ reply'[r] = "content_filter" => Withheld(sent[r], text[r])
  BY <1>2, <1>4, <1>6 DEF Verdicts
<1>8. CleanAt(r)'
  BY <1>1, <1>2, <1>5, <1>7 DEF CleanAt, Clean, Opened, Done
<1>. QED BY <1>3, <1>8, OneRequest

\* The pull returns a text without a secret: a line, or the tail of a closed run.
LEMMA YieldedGate ==
    ASSUME NEW C, GateInv(C), OpenInv, ServeShapes, NEW r \in Requests,
           pc[r] = "pulling", NEW l \in Seq(C), NEW rest \in Seq(C), NEW y \in Runs,
           Yielded(r, l), buffer' = [buffer EXCEPT ![r] = rest],
           run' = [run EXCEPT ![r] = y], run[r] = "closed" => y = "closed",
           buffer[r] = l \o rest, l # <<>>, ~HasSecret(l),
           Ends(l) \/ (y = "closed" /\ rest = <<>>)
    PROVE  GateInv(C)'
<1>1. /\ sent' = [sent EXCEPT ![r] = IF client[r] = "left" THEN @ ELSE @ \o l]
      /\ Goto(r, "between") /\ UNCHANGED <<reply, text, client>>
  BY DEF Yielded
<1>2. /\ sent[r] \in Seq(C) /\ buffer[r] \in Seq(C) /\ text[r] \in Seq(C)
      /\ sent[r] \o l \in Seq(C) /\ client[r] \in {"there", "left"}
  BY ConcatProperties DEF GateInv, GateShapes
<1>3. /\ sent'[r] = IF client[r] = "left" THEN sent[r] ELSE sent[r] \o l
      /\ buffer'[r] = rest /\ run'[r] = y /\ pc'[r] = "between"
  BY <1>1 DEF GateInv, GateShapes, OpenInv, Goto
<1>4. Apart(r) /\ GateShapes(C)'
  BY <1>1, <1>2 DEF Apart, Goto, GateInv, GateShapes, OpenInv, ServeShapes
<1>5. CleanAt(r)
  BY DEF GateInv, CleanAt
<1>6. Piece(sent[r], buffer[r], text[r], client[r], run[r])
  BY <1>5 DEF CleanAt, Clean
<1>7. Piece(sent'[r], rest, text[r], client[r], y)
  <2>1. CASE client[r] = "there"
    <3>1. Piece(sent[r] \o l, rest, text[r], client[r], y)
      BY <1>2, <1>6, <2>1, PieceSent
    <3>. QED BY <1>3, <2>1, <3>1
  <2>2. CASE client[r] = "left"
    <3>1. Piece(sent[r], rest, text[r], client[r], y)
      BY <1>6, <2>2, PieceLeft
    <3>. QED BY <1>3, <2>2, <3>1
  <2>. QED BY <1>2, <2>1, <2>2
<1>8. CleanAt(r)'
  BY <1>1, <1>3, <1>5, <1>7 DEF CleanAt, Clean, Verdicts, Opened, Done
<1>. QED BY <1>4, <1>8, OneRequest

\* What the gate's verdict is about is the line after what was sent.
LEMMA VerdictIs ==
    ASSUME NEW C, GateInv(C), NEW r \in Requests, client[r] = "there"
    PROVE  NextLine(sent[r], text[r])
              = IF Complete(buffer[r]) THEN FirstLine(buffer[r]) ELSE buffer[r]
<1>1. Piece(sent[r], buffer[r], text[r], "there", run[r])
  BY DEF GateInv, Clean
<1>. QED BY <1>1, NextIs DEF GateInv, GateShapes

LEMMA LineGate ==
    ASSUME NEW C, GateInv(C), OpenInv, ServeShapes, NEW r \in Requests, Line(r)
    PROVE  GateInv(C)'
<1>1. pc[r] = "pulling" /\ Complete(buffer[r]) /\ buffer[r] \in Seq(C)
  BY DEF Line, Streamed, GateInv, GateShapes
<1>2. CASE HasSecret(FirstLine(buffer[r])) /\ Finished(r, "content_filter")
  <2>1. client[r] = "there" => Withheld(sent[r], text[r])
    BY <1>1, <1>2, VerdictIs DEF Withheld
  <2>. QED BY <1>1, <1>2, <2>1, FinishedGate
<1>3. CASE /\ ~HasSecret(FirstLine(buffer[r])) /\ Yielded(r, FirstLine(buffer[r]))
           /\ buffer' = [buffer EXCEPT ![r] = AfterLine(@)] /\ UNCHANGED run
  <2> DEFINE l == FirstLine(buffer[r])
             rest == AfterLine(buffer[r])
  <2>1. /\ l \in Seq(C) /\ rest \in Seq(C) /\ buffer[r] = l \o rest
        /\ l # <<>> /\ Ends(l)
    BY <1>1, CutLine DEF Ends
  <2>2. /\ run[r] \in Runs /\ run' = [run EXCEPT ![r] = run[r]]
        /\ buffer' = [buffer EXCEPT ![r] = rest] /\ Yielded(r, l) /\ ~HasSecret(l)
    BY <1>3 DEF OpenInv
  <2> HIDE DEF l, rest
  <2>. QED BY <1>1, <2>1, <2>2, YieldedGate
<1>. QED BY <1>2, <1>3 DEF Line

LEMMA EndGate ==
    ASSUME NEW C, GateInv(C), OpenInv, ServeShapes, NEW r \in Requests,
           OverLong(r) \/ Raises(r) \/ Exhausted(r)
    PROVE  GateInv(C)'
<1>1. pc[r] = "pulling" /\ buffer[r] \in Seq(C)
  BY DEF OverLong, Raises, Exhausted, Streamed, GateInv, GateShapes
<1>2. CASE Finished(r, "error")
  BY <1>1, <1>2, FinishedGate
<1>3. CASE /\ ~Complete(buffer[r]) /\ Finished(r, "content_filter")
           /\ HasSecret(buffer[r]) \/ TooLong(buffer[r])
  <2>1. client[r] = "there" => Withheld(sent[r], text[r])
    BY <1>3, VerdictIs DEF Withheld
  <2>. QED BY <1>1, <1>3, <2>1, FinishedGate
<1>4. CASE buffer[r] = <<>> /\ Finished(r, "stop")
  <2>1. client[r] = "there" => text[r] = sent[r] \o <<>>
    BY <1>4 DEF GateInv, Clean, Piece
  <2>2. sent[r] \in Seq(C)
    BY DEF GateInv, GateShapes
  <2>3. client[r] = "there" => sent[r] = text[r]
    BY <2>1, <2>2, ConcatEmptySeq
  <2>. QED BY <1>1, <1>4, <2>3, FinishedGate
<1>5. CASE /\ buffer[r] # <<>> /\ ~HasSecret(buffer[r]) /\ Yielded(r, buffer[r])
           /\ buffer' = [buffer EXCEPT ![r] = <<>>]
           /\ run' = [run EXCEPT ![r] = "closed"]
  <2>1. <<>> \in Seq(C) /\ buffer[r] = buffer[r] \o <<>>
    BY <1>1, EmptySeq, ConcatEmptySeq
  <2>2. "closed" \in Runs
    BY DEF Runs
  <2>. QED BY <1>1, <1>5, <2>1, <2>2, YieldedGate
<1>. QED BY <1>2, <1>3, <1>4, <1>5 DEF OverLong, Raises, Exhausted, TooLong

LEMMA LeaveGate ==
    ASSUME NEW C, GateInv(C), NEW r \in Requests, Leave(r)
    PROVE  GateInv(C)'
<1>1. /\ client' = [client EXCEPT ![r] = "left"]
      /\ UNCHANGED <<pc, reply, run, text, buffer, sent>>
  BY DEF Leave
<1>2. GateShapes(C)' /\ Apart(r) /\ client'[r] = "left"
  BY <1>1 DEF GateInv, GateShapes, Apart
<1>3. CleanAt(r)
  BY DEF GateInv, CleanAt
<1>4. Piece(sent[r], buffer[r], text[r], "left", run[r])
  BY <1>3 DEF CleanAt, Clean, Piece
<1>5. CleanAt(r)'
  BY <1>1, <1>2, <1>3, <1>4 DEF CleanAt, Clean
<1>. QED BY <1>2, <1>5, OneRequest

\* A restart loses the responses that were not over, and their open runs.
LEMMA RestartGate ==
    ASSUME NEW C, GateInv(C), OpenInv, Restart
    PROVE  GateInv(C)'
<1>1. UNCHANGED <<text, buffer, sent, client, reply>>
  BY DEF Restart
<1>2. GateShapes(C)'
  BY <1>1 DEF GateInv, GateShapes
<1>3. ASSUME NEW r \in Requests PROVE CleanAt(r)'
  <2>1. CleanAt(r)
    BY DEF GateInv, CleanAt
  <2>2. /\ pc'[r] = IF pc[r] \in {"new", "over"} THEN pc[r] ELSE "lost"
        /\ run'[r] = IF run[r] = "open" THEN "none" ELSE run[r]
    BY DEF Restart
  <2>3. Piece(sent[r], buffer[r], text[r], client[r], run'[r])
    BY <2>1, <2>2 DEF CleanAt, Clean, Piece
  <2>4. /\ run'[r] = "closed" => pc'[r] \in Opened
        /\ reply[r] \in Verdicts => pc'[r] \in Done
    BY <2>1, <2>2 DEF CleanAt, Clean, Opened, Done
  <2>. QED BY <1>1, <2>1, <2>3, <2>4 DEF CleanAt, Clean
<1>. QED BY <1>2, <1>3 DEF GateInv, CleanAt

LEMMA StepGate ==
    ASSUME NEW C, Deltas \subseteq Seq(C), GateInv(C), OpenInv, ServeShapes, [Next]_vars
    PROVE  GateInv(C)'
<1>1. CASE Clock \/ UNCHANGED vars
  <2>1. UNCHANGED <<text, buffer, sent, client, run, pc, reply>>
    BY <1>1 DEF Clock, vars, streamVars
  <2>. QED BY <2>1 DEF GateInv, GateShapes
<1>. QED BY <1>1, DispatchGate, ServiceGate, PullGate, DeltaGate, LineGate, EndGate,
            LeaveGate, RestartGate DEF Next, Step

\* For any texts, cut into deltas in any way, clients that leave and restarts: what a
\* client is sent is whole lines of the text, none with a secret, and the finish
\* chunk is true of them (stream_gate.py's soundness).
THEOREM ReleasedIsScannedAlways ==
    ASSUME NEW Chars, Deltas \subseteq Seq(Chars)
    PROVE  Spec => []ReleasedIsScanned
<1> DEFINE Inv == GateInv(Chars)
<1>1. Inv => ReleasedIsScanned
  <2>. SUFFICES ASSUME Inv, NEW r \in Requests
                PROVE  /\ WholeLines(sent[r], text[r]) /\ ~HasSecret(sent[r])
                       /\ reply[r] = "stop" => sent[r] = text[r]
                       /\ reply[r] = "content_filter" => Withheld(sent[r], text[r])
    BY DEF ReleasedIsScanned, Withheld
  <2>1. Clean(sent[r], buffer[r], text[r], client[r], run[r], pc[r], reply[r])
    BY DEF GateInv
  <2>. QED BY <2>1 DEF Clean, Piece, WholeLines, Ends
<1>2. Init => Inv
  BY InitGate
<1>3. OpenInv /\ ResumeInv /\ Inv /\ [Next]_vars => Inv'
  BY StepGate DEF ResumeInv
<1> HIDE DEF Inv
<1>. QED BY <1>1, <1>2, <1>3, InitOpen, StepOpen, InitResume, StepResume, PTL DEF Spec

-----------------------------------------------------------------------------
(* Type correctness *)

\* The bucket of a key holds at most a minute's tokens and was never refilled in the
\* future; clock and restarts stay in their bounds.
MeterTypes ==
    /\ now \in 0 .. MaxTime /\ restarts \in 0 .. MaxRestarts
    /\ bucket \in [Identities -> [tokens : 0 .. 60 * Rate, last : 0 .. MaxTime] \cup {None}]
    /\ admitted \in [Identities -> Seq(0 .. MaxTime)]
    /\ \A k \in Identities : bucket[k] # None => bucket[k].last <= now

LEMMA InitMeter == Init => MeterTypes
<1>. SUFFICES ASSUME Init PROVE MeterTypes
  OBVIOUS
<1>1. /\ now = 0 /\ restarts = 0 /\ bucket = [k \in Identities |-> None]
      /\ admitted = [k \in Identities |-> <<>>]
  BY DEF Init, Identities
<1>2. 0 \in 0 .. MaxTime /\ 0 \in 0 .. MaxRestarts
  BY ServeAssumption
<1>3. <<>> \in Seq(0 .. MaxTime)
  BY EmptySeq
<1>. QED BY <1>1, <1>2, <1>3 DEF MeterTypes

\* What a bucket holds now is between nothing and a minute's tokens.
LEMMA TokensTyped ==
    ASSUME MeterTypes, NEW k \in Identities
    PROVE  Tokens(k) \in 0 .. 60 * Rate
<1>1. Rate \in Nat /\ 60 * Rate \in Nat
  BY ServeAssumption
<1>2. CASE bucket[k] = None
  BY <1>1, <1>2 DEF Tokens
<1>3. CASE bucket[k] # None
  <2>1. bucket[k].tokens \in Nat /\ now - bucket[k].last \in Nat
    BY <1>1, <1>3, ServeAssumption DEF MeterTypes
  <2>2. (now - bucket[k].last) * Rate \in Nat
    BY <1>1, <2>1
  <2> DEFINE refilled == bucket[k].tokens + (now - bucket[k].last) * Rate
  <2>3. refilled \in Nat
    BY <2>1, <2>2
  <2>4. Tokens(k) = IF refilled > 60 * Rate THEN 60 * Rate ELSE refilled
    BY <1>3 DEF Tokens
  <2> HIDE DEF refilled
  <2>. QED BY <1>1, <2>3, <2>4
<1>. QED BY <1>2, <1>3

LEMMA TakeMeter ==
    ASSUME MeterTypes, NEW k \in Identities, Take(k), UNCHANGED <<now, restarts>>
    PROVE  MeterTypes'
<1>1. now \in 0 .. MaxTime
  BY DEF MeterTypes
<1>2. admitted' \in [Identities -> Seq(0 .. MaxTime)]
  <2>1. Append(admitted[k], now) \in Seq(0 .. MaxTime)
    BY <1>1, AppendProperties DEF MeterTypes
  <2>. QED BY <2>1 DEF Take, MeterTypes
<1>3. CASE Rate = 0
  BY <1>2, <1>3 DEF Take, MeterTypes
<1>4. CASE Rate # 0
  <2> DEFINE left == Tokens(k) - (IF Limited(k) THEN 0 ELSE 60)
             new  == [tokens |-> left, last |-> now]
  <2>1. Rate \in Nat /\ Rate > 0 /\ 60 * Rate \in Nat
    BY <1>4, ServeAssumption
  <2>2. left \in 0 .. 60 * Rate
    <3> DEFINE t == Tokens(k)
               full == 60 * Rate
    <3>1. t \in 0 .. full /\ full \in Nat /\ (Limited(k) \/ t >= 60)
      BY <2>1, TokensTyped DEF Limited
    <3> HIDE DEF t, full
    <3>2. t - (IF Limited(k) THEN 0 ELSE 60) \in 0 .. full
      BY <3>1
    <3>. QED BY <3>2 DEF t, full
  <2>3. bucket' = [bucket EXCEPT ![k] = new]
    BY <1>4 DEF Take
  <2> HIDE DEF left
  <2>4. new \in [tokens : 0 .. 60 * Rate, last : 0 .. MaxTime] /\ new.last = now
    BY <1>1, <2>2
  <2> HIDE DEF new
  <2>5. bucket' \in [Identities -> [tokens : 0 .. 60 * Rate, last : 0 .. MaxTime] \cup {None}]
    BY <2>3, <2>4 DEF MeterTypes
  <2>6. ASSUME NEW j \in Identities, bucket'[j] # None PROVE bucket'[j].last <= now
    <3>1. CASE j = k
      BY <1>1, <2>3, <2>4, <3>1 DEF MeterTypes
    <3>2. CASE j # k
      BY <2>3, <2>6, <3>2 DEF MeterTypes
    <3>. QED BY <3>1, <3>2
  <2>. QED BY <1>2, <2>5, <2>6 DEF MeterTypes
<1>. QED BY <1>3, <1>4

\* A request comes with one of the server's keys, or none.
LEMMA KeyKnown ==
    ASSUME ServeShapes, NEW r \in Requests
    PROVE  req[r].key \in Identities
BY ServeAssumption DEF ServeShapes, RequestType, Identities

LEMMA StepMeter ==
    ASSUME MeterTypes, ServeShapes, [Next]_vars
    PROVE  MeterTypes'
<1>1. ASSUME NEW r \in Requests, Dispatch(r) PROVE MeterTypes'
  <2>1. Take(req[r].key) /\ UNCHANGED <<now, restarts>>
    BY <1>1 DEF Dispatch, Arrives
  <2>. QED BY <2>1, KeyKnown, TakeMeter
<1>2. ASSUME NEW r \in Requests, CallTool(r) \/ Step(r) \/ Leave(r)
      PROVE  UNCHANGED <<now, bucket, admitted, restarts>>
  BY <1>2 DEF CallTool, Arrives, Step, Leave, Lookup, Build, Call, Ended, Threading, Pull,
              Delta, Line, OverLong, Exhausted, Raises, Close, Streamed, gateVars
<1>3. ASSUME UNCHANGED <<now, bucket, admitted, restarts>> PROVE MeterTypes'
  BY <1>3 DEF MeterTypes
<1>4. CASE Clock
  <2>1. now' \in 0 .. MaxTime /\ now <= now' /\ UNCHANGED <<bucket, admitted, restarts>>
    BY <1>4, ServeAssumption DEF Clock, MeterTypes
  <2>2. ASSUME NEW k \in Identities, bucket[k] # None PROVE bucket[k].last <= now'
    <3>1. bucket[k].last <= now /\ bucket[k].last \in Int /\ now \in Int /\ now' \in Int
      BY <2>1, <2>2 DEF MeterTypes
    <3>. QED BY <2>1, <3>1
  <2>. QED BY <2>1, <2>2 DEF MeterTypes
<1>5. CASE Restart
  <2>1. restarts' \in 0 .. MaxRestarts /\ now' = now
    BY <1>5, ServeAssumption DEF Restart, MeterTypes
  <2>2. bucket' = [k \in Identities |-> None] /\ admitted' = [k \in Identities |-> <<>>]
    BY <1>5 DEF Restart, MeterTypes
  <2>3. <<>> \in Seq(0 .. MaxTime)
    BY EmptySeq
  <2>. QED BY <2>1, <2>2, <2>3 DEF MeterTypes
<1>6. CASE UNCHANGED vars
  BY <1>3, <1>6 DEF vars, gateVars
<1>. QED BY <1>1, <1>2, <1>3, <1>4, <1>5, <1>6 DEF Next

\* What was sent and what the gate holds is no longer than the text: a client that
\* left is sent no more, and loses what the gate lets go.
Lengths == \A r \in Requests : Len(sent[r]) + Len(buffer[r]) <= Len(text[r])

LEMMA LengthsKept ==
    ASSUME Lengths, UNCHANGED <<sent, buffer, text>>
    PROVE  Lengths'
BY DEF Lengths

\* The gate lets a part of what it holds go.
LEMMA LengthsYield ==
    ASSUME NEW C, GateShapes(C), GateShapes(C)', Lengths, NEW r \in Requests,
           NEW l \in Seq(C), NEW rest \in Seq(C), buffer[r] = l \o rest,
           Yielded(r, l), buffer' = [buffer EXCEPT ![r] = rest]
    PROVE  Lengths'
<1>1. /\ sent' = [sent EXCEPT ![r] = IF client[r] = "left" THEN @ ELSE @ \o l]
      /\ UNCHANGED text
  BY DEF Yielded
<1>2. /\ sent[r] \in Seq(C) /\ text[r] \in Seq(C)
      /\ Len(buffer[r]) = Len(l) + Len(rest) /\ Len(sent[r] \o l) = Len(sent[r]) + Len(l)
  BY ConcatProperties DEF GateShapes
<1>3. /\ Len(sent[r]) \in Nat /\ Len(text[r]) \in Nat /\ Len(l) \in Nat /\ Len(rest) \in Nat
  BY <1>2, LenProperties
<1>4. /\ sent'[r] = sent[r] \/ sent'[r] = sent[r] \o l
      /\ buffer'[r] = rest
      /\ \A q \in Requests \ {r} : sent'[q] = sent[q] /\ buffer'[q] = buffer[q]
  BY <1>1 DEF GateShapes
<1>5. Len(sent'[r]) <= Len(sent[r]) + Len(l) /\ Len(sent'[r]) \in Nat
  BY <1>2, <1>3, <1>4
<1>6. Len(sent'[r]) + Len(buffer'[r]) <= Len(text[r])
  <2>1. Len(sent[r]) + Len(buffer[r]) <= Len(text[r])
    BY DEF Lengths
  <2>2. Len(buffer'[r]) = Len(rest)
    BY <1>4
  <2> DEFINE a == Len(sent[r])
             b == Len(l)
             c == Len(rest)
             e == Len(sent'[r])
             n == Len(text[r])
  <2>3. /\ a \in Nat /\ b \in Nat /\ c \in Nat /\ e \in Nat /\ n \in Nat
        /\ e <= a + b /\ a + (b + c) <= n
    BY <1>2, <1>3, <1>5, <2>1
  <2> HIDE DEF a, b, c, e, n
  <2>4. e + c <= n
    BY <2>3
  <2>. QED BY <2>2, <2>4 DEF e, c, n
<1>7. ASSUME NEW q \in Requests
      PROVE  Len(sent'[q]) + Len(buffer'[q]) <= Len(text'[q])
  <2>1. Len(sent[q]) + Len(buffer[q]) <= Len(text[q])
    BY DEF Lengths
  <2>2. CASE q = r
    BY <1>1, <1>6, <2>2
  <2>3. CASE q # r
    <3>1. sent'[q] = sent[q] /\ buffer'[q] = buffer[q] /\ text'[q] = text[q]
      BY <1>1, <1>4, <2>3
    <3>. QED BY <2>1, <3>1, Zenon
  <2>. QED BY <2>2, <2>3
<1>. QED BY <1>7 DEF Lengths

LEMMA StepLengths ==
    ASSUME NEW C, Deltas \subseteq Seq(C), GateShapes(C), GateShapes(C)', Lengths,
           [Next]_vars
    PROVE  Lengths'
<1>1. ASSUME NEW r \in Requests, Delta(r) PROVE Lengths'
  <2>. PICK d \in Seq(C) : /\ text' = [text EXCEPT ![r] = @ \o d]
                           /\ buffer' = [buffer EXCEPT ![r] = @ \o d]
    BY <1>1 DEF Delta
  <2>1. UNCHANGED sent
    BY <1>1 DEF Delta
  <2>2. /\ text'[r] = text[r] \o d /\ buffer'[r] = buffer[r] \o d
        /\ \A q \in Requests \ {r} : text'[q] = text[q] /\ buffer'[q] = buffer[q]
    BY DEF GateShapes
  <2>3. /\ Len(text[r] \o d) = Len(text[r]) + Len(d)
        /\ Len(buffer[r] \o d) = Len(buffer[r]) + Len(d)
    BY ConcatProperties DEF GateShapes
  <2>4. /\ Len(sent[r]) \in Nat /\ Len(buffer[r]) \in Nat /\ Len(text[r]) \in Nat
        /\ Len(d) \in Nat
    BY LenProperties DEF GateShapes
  <2>5. Len(sent[r]) + Len(buffer'[r]) <= Len(text'[r])
    <3>1. Len(sent[r]) + Len(buffer[r]) <= Len(text[r])
      BY DEF Lengths
    <3>2. /\ Len(text'[r]) = Len(text[r]) + Len(d)
          /\ Len(buffer'[r]) = Len(buffer[r]) + Len(d)
      BY <2>2, <2>3
    <3> DEFINE a == Len(sent[r])
               b == Len(buffer[r])
               c == Len(d)
               n == Len(text[r])
    <3>3. a \in Nat /\ b \in Nat /\ c \in Nat /\ n \in Nat /\ a + b <= n
      BY <2>4, <3>1
    <3>4. Len(text'[r]) = n + c /\ Len(buffer'[r]) = b + c
      BY <3>2
    <3> HIDE DEF a, b, c, n
    <3>5. a + (b + c) <= n + c
      BY <3>3
    <3>. QED BY <3>4, <3>5 DEF a
  <2>6. ASSUME NEW q \in Requests
        PROVE  Len(sent'[q]) + Len(buffer'[q]) <= Len(text'[q])
    <3>1. Len(sent[q]) + Len(buffer[q]) <= Len(text[q])
      BY DEF Lengths
    <3>2. CASE q = r
      BY <2>1, <2>5, <3>2
    <3>3. CASE q # r
      <4>1. sent'[q] = sent[q] /\ buffer'[q] = buffer[q] /\ text'[q] = text[q]
        BY <2>1, <2>2, <3>3
      <4>. QED BY <3>1, <4>1, Zenon
    <3>. QED BY <3>2, <3>3
  <2>. QED BY <2>6 DEF Lengths
<1>2. ASSUME NEW r \in Requests, Line(r) PROVE Lengths'
  <2>1. CASE Finished(r, "content_filter")
    BY <2>1, LengthsKept DEF Finished
  <2>2. CASE /\ Yielded(r, FirstLine(buffer[r]))
             /\ buffer' = [buffer EXCEPT ![r] = AfterLine(@)]
    <3> DEFINE l == FirstLine(buffer[r])
               rest == AfterLine(buffer[r])
    <3>1. Complete(buffer[r]) /\ buffer[r] \in Seq(C)
      BY <1>2 DEF Line, GateShapes
    <3>2. l \in Seq(C) /\ rest \in Seq(C) /\ buffer[r] = l \o rest
      BY <3>1, CutLine
    <3>3. Yielded(r, l) /\ buffer' = [buffer EXCEPT ![r] = rest]
      BY <2>2
    <3> HIDE DEF l, rest
    <3>. QED BY <3>2, <3>3, LengthsYield
  <2>. QED BY <1>2, <2>1, <2>2 DEF Line
<1>3. ASSUME NEW r \in Requests, Exhausted(r) PROVE Lengths'
  <2>1. CASE Finished(r, "stop") \/ Finished(r, "content_filter")
    BY <2>1, LengthsKept DEF Finished
  <2>2. CASE Yielded(r, buffer[r]) /\ buffer' = [buffer EXCEPT ![r] = <<>>]
    <3>1. buffer[r] \in Seq(C) /\ <<>> \in Seq(C) /\ buffer[r] = buffer[r] \o <<>>
      BY EmptySeq, ConcatEmptySeq DEF GateShapes
    <3>. QED BY <2>2, <3>1, LengthsYield
  <2>. QED BY <1>3, <2>1, <2>2 DEF Exhausted
<1>4. ASSUME NEW r \in Requests,
             \/ Dispatch(r) \/ CallTool(r) \/ Leave(r) \/ Lookup(r) \/ Build(r) \/ Call(r)
             \/ Ended(r) \/ Pull(r) \/ OverLong(r) \/ Raises(r) \/ Close(r)
      PROVE  UNCHANGED <<sent, buffer, text>>
  BY <1>4 DEF Dispatch, CallTool, Arrives, Leave, Lookup, Build, Call, Ended, WithAgent,
              Pull, OverLong, Raises, Finished, Close, streamVars
<1>5. CASE Clock \/ Restart \/ UNCHANGED vars
  BY <1>5, LengthsKept DEF Clock, Restart, vars, streamVars
<1>. QED BY <1>1, <1>2, <1>3, <1>4, <1>5, LengthsKept DEF Next, Step

\* Every reachable state of the server is well typed: answers are the ones serve/
\* gives, a bucket never overflows nor owes a token, a checkpoint's owner is a
\* request's instance or the file, and what a client has and the gate holds is part
\* of what the run produced.
THEOREM ServeTypes ==
    ASSUME NEW Chars, Deltas \subseteq Seq(Chars)
    PROVE  Spec => []TypeOK
<1> DEFINE Gate == GateInv(Chars)
<1>1. Init => Gate /\ Lengths
  <2>1. Init => Gate
    BY InitGate
  <2>2. Len(<<>>) = 0
    BY EmptySeq
  <2>3. Init => Lengths
    BY <2>2 DEF Init, Lengths
  <2>. QED BY <2>1, <2>3
<1>2. OpenInv /\ ResumeInv /\ Gate /\ [Next]_vars => Gate'
  BY StepGate DEF ResumeInv
<1>3. Gate /\ Gate' /\ Lengths /\ [Next]_vars => Lengths'
  BY StepLengths DEF GateInv
<1>4. MeterTypes /\ ResumeInv /\ [Next]_vars => MeterTypes'
  BY StepMeter DEF ResumeInv
<1>5. OpenInv /\ ResumeInv /\ Gate /\ Lengths /\ MeterTypes => TypeOK
  <2>. SUFFICES ASSUME OpenInv, ResumeInv, Gate, Lengths, MeterTypes PROVE TypeOK
    OBVIOUS
  <2>1. /\ durable \in BOOLEAN /\ replaced \in BOOLEAN /\ req \in Traffic
        /\ cache \in [Present -> Requests \cup {None}]
        /\ thread \in [Requests -> Requests \cup {"db", None}]
        /\ reply \in [Requests -> Replies \cup {None}]
        /\ inst \in [Requests -> Requests \cup {None}]
    BY DEF ResumeInv, ServeShapes
  <2>2. /\ run \in [Requests -> {"none", "fresh", "open", "closed"}]
        /\ pc \in [Requests -> {"new", "lookup", "build", "call", "running",
                                "between", "pulling", "closing", "over", "lost"}]
    BY DEF OpenInv, Runs, Labels
  <2>3. /\ client \in [Requests -> {"there", "left"}]
        /\ \A r \in Requests : /\ Len(sent[r]) \in Nat /\ Len(buffer[r]) \in Nat
                               /\ Len(sent[r]) + Len(buffer[r]) <= Len(text[r])
    <3>1. GateShapes(Chars)
      BY DEF GateInv
    <3>. QED BY <3>1, LenProperties DEF GateShapes, Lengths
  <2>4. /\ now \in 0 .. MaxTime /\ restarts \in 0 .. MaxRestarts
        /\ bucket \in [Keys \cup {None} ->
                          [tokens : 0 .. 60 * Rate, last : 0 .. MaxTime] \cup {None}]
        /\ admitted \in [Keys \cup {None} -> Seq(0 .. MaxTime)]
    BY DEF MeterTypes, Identities
  <2>. QED BY <2>1, <2>2, <2>3, <2>4 DEF TypeOK
<1> HIDE DEF Gate
<1>. QED BY <1>1, <1>2, <1>3, <1>4, <1>5, InitOpen, StepOpen, InitResume, StepResume,
            InitMeter, PTL DEF Spec
=============================================================================
