----------------------------- MODULE MeshProofs -----------------------------
(***************************************************************************)
(* Theorems about Mesh for any workers, routings, threads and bounds.      *)
(*                                                                         *)
(* 1. No worker of interrupt_before executes without an approval of its    *)
(*    own.  ApprovalNeeded is not inductive: an approval is given when a   *)
(*    call begins, and used when the superstep is launched.  In between    *)
(*    the call is running, not busy, and in the superstep that the         *)
(*    approval bypasses, and then the approvals cover the executions to    *)
(*    come as well.                                                        *)
(* 2. The types, with the shape of a superstep: MeshShape.                 *)
(* 3. A saved plan is what ran.  While a first run is under way, its       *)
(*    history and the steps of the superstep ahead of it run what was      *)
(*    recorded, group by group, and on LangGraph each step is stamped with *)
(*    the place where its group begins.  A worker that ends moves to the   *)
(*    front of what is ahead, and a sort by stamps moves no step over the  *)
(*    beginning of a group: both permute within groups.                    *)
(* 4. Mesh implements MeshJournal, step by step.                           *)
(***************************************************************************)
EXTENDS Mesh, ListLemmas

-----------------------------------------------------------------------------
(* Approvals *)

Shapes ==
    /\ engine \in {"local", "langgraph"}
    /\ next \in [Threads -> Seq(Nat)]
    /\ bypass \in [Threads -> BOOLEAN] /\ busy \in [Threads -> BOOLEAN]
    /\ pc \in [Threads -> {"new", "running", "interrupted", "complete", "failed"}]
    /\ approved \in [Threads -> Nat] /\ spent \in [Threads -> Nat]

\* An approval that waits for its superstep.
Credit(t) == Running(t) /\ bypass[t] /\ ~busy[t]

ThreadInv(t) ==
    /\ spent[t] <= approved[t]
    /\ Credit(t) => spent[t] + Asked(t) <= approved[t]

ApprovalInv == Shapes /\ \A t \in Threads : ThreadInv(t)

LEMMA PendingType ==
    ASSUME NEW q \in Seq(Nat)
    PROVE  Pending(q) \in Nat /\ (~IsGated(q) => Pending(q) = 0)
<1>. DEFINE gated == {i \in DOMAIN q : q[i] \in Gated}
<1>1. DOMAIN q = 1 .. Len(q) /\ Len(q) \in Nat
  OBVIOUS
<1>2. IsFiniteSet(1 .. Len(q))
  BY <1>1, FS_Interval
<1>3. IsFiniteSet(gated)
  BY <1>1, <1>2, FS_Subset
<1>4. ~IsGated(q) => gated = {}
  BY DEF IsGated
<1>5. Pending(q) = Cardinality(gated)
  BY Zenon DEF Pending
<1>. HIDE DEF gated
<1>. QED BY <1>3, <1>4, <1>5, FS_CardinalityType, FS_EmptySet

LEMMA AskedType ==
    ASSUME Shapes, NEW t \in Threads
    PROVE  Asked(t) \in Nat /\ (~Waiting(t) => Asked(t) = 0)
<1>1. next[t] \in Seq(Nat)
  BY DEF Shapes
<1>2. Pending(next[t]) \in Nat /\ (~IsGated(next[t]) => Pending(next[t]) = 0)
  BY <1>1, PendingType
<1>. QED BY <1>2 DEF Asked, Waiting, Shapes

\* Nobody has to be asked for the supervisor.
LEMMA SupervisorFree == Pending(<<Supervisor>>) = 0
<1>1. ~IsGated(<<Supervisor>>)
  <2>1. DOMAIN <<Supervisor>> = {1} /\ <<Supervisor>>[1] = Supervisor
    OBVIOUS
  <2>2. Supervisor \notin Gated
    BY WorkersAssumption
  <2>. QED BY <2>1, <2>2 DEF IsGated
<1>2. <<Supervisor>> \in Seq(Nat)
  BY DEF Supervisor
<1>. QED BY <1>1, <1>2, PendingType

LEMMA InitApproval == Init => ApprovalInv
BY DEF Init, ApprovalInv, Shapes, ThreadInv, Credit, Running

\* What a thread asks for depends on its next nodes.
LEMMA SameAsked ==
    ASSUME NEW t \in Threads, next'[t] = next[t], engine' = engine
    PROVE  Asked(t)' = Asked(t)
BY DEF Asked

\* A step of one thread leaves the others alone.
LEMMA OneThread ==
    ASSUME ApprovalInv, NEW t \in Threads, Shapes', engine' = engine, ThreadInv(t)',
           \A u \in Threads \ {t} :
              /\ next'[u] = next[u] /\ bypass'[u] = bypass[u] /\ busy'[u] = busy[u]
              /\ pc'[u] = pc[u] /\ approved'[u] = approved[u] /\ spent'[u] = spent[u]
    PROVE  ApprovalInv'
<1>1. ASSUME NEW u \in Threads \ {t} PROVE ThreadInv(u)'
  BY SameAsked DEF ApprovalInv, ThreadInv, Credit, Running
<1>. QED BY <1>1 DEF ApprovalInv

\* A call ends: what it had bypassed is over.
LEMMA Ends ==
    ASSUME ApprovalInv, NEW t \in Threads, engine' = engine,
           NEW label \in {"interrupted", "complete", "failed"},
           pc' = [pc EXCEPT ![t] = label],
           \/ UNCHANGED next \/ next' = [next EXCEPT ![t] = <<>>],
           busy' = [busy EXCEPT ![t] = FALSE] \/ UNCHANGED busy,
           bypass' = [bypass EXCEPT ![t] = FALSE], UNCHANGED <<approved, spent>>
    PROVE  ApprovalInv'
<1>1. Shapes'
  <2>1. next' \in [Threads -> Seq(Nat)]
    <3>1. <<>> \in Seq(Nat)
      OBVIOUS
    <3>. QED BY <3>1 DEF ApprovalInv, Shapes
  <2>2. busy' \in [Threads -> BOOLEAN]
    BY DEF ApprovalInv, Shapes
  <2>. QED BY <2>1, <2>2 DEF ApprovalInv, Shapes
<1>2. ThreadInv(t)'
  BY DEF ApprovalInv, Shapes, ThreadInv, Credit, Running
<1>. QED BY <1>1, <1>2, OneThread DEF ApprovalInv, Shapes

LEMMA Positive == ASSUME NEW n \in Nat, n >= 1, n # 1 PROVE n > 1
OBVIOUS

LEMMA ProgressApproval ==
    ASSUME ApprovalInv, NEW t \in Threads, Progress(t)
    PROVE  ApprovalInv'
<1>. engine' = engine
  BY DEF Progress
<1>1. CASE RouteFails(t) \/ WorkFails(t)
  BY <1>1, Ends DEF RouteFails, WorkFails, Fail, EndCall, countVars
<1>2. CASE Interrupt(t) \/ EndAgain(t) \/ \E d \in Decisions : Finish(t, d)
  BY <1>2, Ends DEF Interrupt, EndAgain, Finish, EndCall, countVars
<1>3. CASE \E d \in Decisions : Route(t, d)
  <2>. PICK d \in Decisions : Route(t, d)
    BY <1>3
  <2>1. d \in Seq(Nat)
    <3>1. Workers \cup {FINISH} \subseteq Nat
      BY WorkersAssumption DEF FINISH
    <3>2. CASE d = <<FINISH>>
      BY <3>1, <3>2
    <3>3. CASE d \in Routings
      BY <3>1, <3>3, RoutingsAssumption
    <3>. QED BY <3>2, <3>3 DEF Decisions
  <2>2. /\ next' = [next EXCEPT ![t] = d] /\ bypass' = [bypass EXCEPT ![t] = FALSE]
        /\ UNCHANGED <<pc, busy, approved, spent>>
    BY DEF Route, countVars
  <2>3. Shapes'
    BY <2>1, <2>2 DEF ApprovalInv, Shapes
  <2>4. ThreadInv(t)'
    BY <2>2 DEF ApprovalInv, Shapes, ThreadInv, Credit
  <2>. QED BY <2>2, <2>3, <2>4, OneThread DEF ApprovalInv, Shapes
<1>4. CASE Launch(t)
  <2>1. /\ busy' = [busy EXCEPT ![t] = TRUE] /\ spent' = [spent EXCEPT ![t] = @ + Asked(t)]
        /\ UNCHANGED <<pc, next, bypass, approved>>
    BY <1>4 DEF Launch, planVars
  <2>2. Asked(t) \in Nat
    BY AskedType DEF ApprovalInv
  <2>3. Shapes'
    BY <2>1, <2>2 DEF ApprovalInv, Shapes
  <2>4. spent[t] + Asked(t) <= approved[t]
    <3>1. CASE Waiting(t)
      BY <1>4, <3>1 DEF Launch, AtWorkers, Held, ApprovalInv, ThreadInv, Credit
    <3>2. CASE ~Waiting(t)
      <4>1. Asked(t) = 0
        BY <3>2, AskedType DEF ApprovalInv
      <4>. QED BY <4>1 DEF ApprovalInv, ThreadInv, Shapes
    <3>. QED BY <3>1, <3>2
  <2>5. spent'[t] = spent[t] + Asked(t) /\ approved'[t] = approved[t] /\ busy'[t]
    BY <2>1 DEF ApprovalInv, Shapes
  <2>6. ThreadInv(t)'
    BY <2>4, <2>5 DEF ThreadInv, Credit
  <2>. QED BY <2>1, <2>3, <2>6, OneThread DEF ApprovalInv, Shapes
<1>5. CASE \E i \in DOMAIN next[t] : Work(t, i)
  <2>. PICK i \in DOMAIN next[t] : Work(t, i)
    BY <1>5
  <2>1. /\ next' = [next EXCEPT ![t] = IF Len(next[t]) = 1 THEN <<Supervisor>>
                                       ELSE RemoveAt(next[t], i)]
        /\ busy' = [busy EXCEPT ![t] = Len(next[t]) > 1]
        /\ UNCHANGED <<pc, bypass, approved, spent>>
    BY DEF Work, countVars, ApprovalInv, Shapes
  <2>2. next[t] \in Seq(Nat) /\ Len(next[t]) \in Nat /\ Len(next[t]) >= 1
        /\ i \in 1 .. Len(next[t])
    BY DEF ApprovalInv, Shapes
  <2>3. RemoveAt(next[t], i) \in Seq(Nat)
    <3>1. \A j \in 1 .. Len(next[t]) : next[t][j] \in Nat
      BY <2>2
    <3>2. SubSeq(next[t], 1, i - 1) \in Seq(Nat)
      <4>1. \A j \in 1 .. i - 1 : next[t][j] \in Nat
        BY <2>2, <3>1
      <4>. QED BY <2>2, <4>1, SubSeqProperties
    <3>3. SubSeq(next[t], i + 1, Len(next[t])) \in Seq(Nat)
      <4>1. \A j \in i + 1 .. Len(next[t]) : next[t][j] \in Nat
        BY <2>2, <3>1
      <4>. QED BY <2>2, <4>1, SubSeqProperties
    <3>. QED BY <3>2, <3>3, ConcatProperties DEF RemoveAt
  <2>4. <<Supervisor>> \in Seq(Nat)
    BY DEF Supervisor
  <2>5. (Len(next[t]) > 1) \in BOOLEAN
    OBVIOUS
  <2>6. Shapes'
    BY <2>1, <2>3, <2>4, <2>5 DEF ApprovalInv, Shapes
  <2>7. spent'[t] = spent[t] /\ approved'[t] = approved[t]
    BY <2>1
  <2>8. ThreadInv(t)'
    <3>1. CASE Len(next[t]) = 1
      <4>1. next'[t] = <<Supervisor>>
        BY <2>1, <3>1 DEF ApprovalInv, Shapes
      <4>2. Asked(t)' = 0
        BY <4>1, SupervisorFree DEF Asked
      <4>. QED BY <2>7, <4>2 DEF ApprovalInv, Shapes, ThreadInv
    <3>2. CASE Len(next[t]) # 1
      <4>. DEFINE more == Len(next[t]) > 1
      <4>. PICK n \in Nat : n = Len(next[t]) /\ n >= 1 /\ n # 1
        BY <2>2, <3>2
      <4>1. more
        <5>1. n > 1
          BY Positive, Zenon
        <5>. QED BY <5>1, Zenon DEF more
      <4>2. busy' = [busy EXCEPT ![t] = more]
        BY <2>1
      <4>. HIDE DEF more
      <4>3. busy'[t]
        BY <4>1, <4>2, Zenon DEF ApprovalInv, Shapes
      <4>4. spent'[t] <= approved'[t]
        BY <2>7 DEF ApprovalInv, ThreadInv
      <4>. QED BY <4>3, <4>4, Zenon DEF ThreadInv, Credit
    <3>. QED BY <3>1, <3>2
  <2>. QED BY <2>1, <2>6, <2>8, OneThread DEF ApprovalInv, Shapes
<1>. QED BY <1>1, <1>2, <1>3, <1>4, <1>5 DEF Progress

LEMMA DecideApproval ==
    ASSUME ApprovalInv, NEW t \in Threads, Decide(t)
    PROVE  ApprovalInv'
<1>. engine' = engine
  BY DEF Decide
<1>1. CASE Run(t) \/ Reject(t)
  <2>1. /\ pc' = [pc EXCEPT ![t] = "running"] /\ next' = [next EXCEPT ![t] = <<Supervisor>>]
        /\ bypass' = [bypass EXCEPT ![t] = FALSE] /\ UNCHANGED <<busy, approved, spent>>
    BY <1>1 DEF Run, Reject, Begin, countVars
  <2>2. Shapes'
    BY <2>1 DEF ApprovalInv, Shapes, Supervisor
  <2>3. ThreadInv(t)'
    BY <2>1 DEF ApprovalInv, Shapes, ThreadInv, Credit
  <2>. QED BY <2>1, <2>2, <2>3, OneThread DEF ApprovalInv, Shapes
<1>2. CASE ResumeRefused(t)
  <2>1. UNCHANGED <<pc, next, bypass, busy, approved, spent>>
    BY <1>2 DEF ResumeRefused, meshVars
  <2>2. Shapes'
    BY <2>1 DEF ApprovalInv, Shapes
  <2>3. ThreadInv(t)'
    BY <2>1, SameAsked DEF ApprovalInv, ThreadInv, Credit, Running
  <2>. QED BY <2>1, <2>2, <2>3, OneThread
<1>3. CASE Approve(t)
  <2>1. /\ pc' = [pc EXCEPT ![t] = "running"] /\ next' = [next EXCEPT ![t] = next[t]]
        /\ bypass' = [bypass EXCEPT ![t] = TRUE]
        /\ approved' = [approved EXCEPT ![t] = @ + Asked(t)] /\ UNCHANGED <<busy, spent>>
    BY <1>3 DEF Approve, Begin
  <2>2. Asked(t) \in Nat
    BY AskedType DEF ApprovalInv
  <2>3. Shapes'
    BY <2>1, <2>2 DEF ApprovalInv, Shapes
  <2>4. next'[t] = next[t] /\ approved'[t] = approved[t] + Asked(t) /\ spent'[t] = spent[t]
    BY <2>1 DEF ApprovalInv, Shapes
  <2>5. Asked(t)' = Asked(t)
    BY <2>4, SameAsked
  <2>6. spent[t] <= approved[t] /\ spent[t] \in Nat /\ approved[t] \in Nat
    BY DEF ApprovalInv, ThreadInv, Shapes
  <2>7. ThreadInv(t)'
    BY <2>2, <2>4, <2>5, <2>6 DEF ThreadInv
  <2>. QED BY <2>1, <2>3, <2>7, OneThread DEF ApprovalInv, Shapes
<1>. QED BY <1>1, <1>2, <1>3 DEF Decide

LEMMA StepApproval ==
    ASSUME ApprovalInv, [Next]_vars
    PROVE  ApprovalInv'
<1>1. CASE UNCHANGED vars
  <2>1. UNCHANGED <<engine, pc, next, bypass, busy, approved, spent>>
    BY <1>1 DEF vars, meshVars, countVars
  <2>. QED BY <2>1, SameAsked DEF ApprovalInv, Shapes, ThreadInv, Credit, Running
<1>2. CASE Crash /\ UNCHANGED <<engine, durable>>
  <2>1. Shapes'
    <3>1. next' \in [Threads -> Seq(Nat)]
      <4>1. <<>> \in Seq(Nat)
        OBVIOUS
      <4>2. UNCHANGED next \/ next' = [u \in Threads |-> <<>>]
        BY <1>2 DEF Crash
      <4>. QED BY <4>1, <4>2 DEF ApprovalInv, Shapes
    <3>2. pc' \in [Threads -> {"new", "running", "interrupted", "complete", "failed"}]
      BY <1>2 DEF Crash, ApprovalInv, Shapes
    <3>3. /\ busy' \in [Threads -> BOOLEAN] /\ bypass' \in [Threads -> BOOLEAN]
          /\ UNCHANGED <<engine, approved, spent>>
      BY <1>2 DEF Crash
    <3>. QED BY <3>1, <3>2, <3>3 DEF ApprovalInv, Shapes
  <2>2. ASSUME NEW t \in Threads PROVE ThreadInv(t)'
    BY <1>2 DEF Crash, ApprovalInv, Shapes, ThreadInv, Credit, Running
  <2>. QED BY <2>1, <2>2 DEF ApprovalInv
<1>. QED BY <1>1, <1>2, ProgressApproval, DecideApproval DEF Next

\* A worker of interrupt_before executes only for an approval of its own
\* (langgraph_engine.py, interrupt_before and resume), whatever fan-outs, failures,
\* rejections and restarts come in between.
THEOREM ApprovalNeededAlways == Spec => []ApprovalNeeded
<1>1. ApprovalInv => ApprovalNeeded
  BY DEF ApprovalInv, ThreadInv, ApprovalNeeded
<1>. QED BY <1>1, InitApproval, StepApproval, PTL DEF Spec

-----------------------------------------------------------------------------
(* Where the groups of a plan begin *)

LEMMA StartBegins == \A p, i : Start(p, i) = Begins(p, i)
BY DEF Start, Begins

LEMMA StartProperties ==
    ASSUME NEW S, NEW p \in Seq(Seq(S))
    PROVE  /\ Start(p, 1) = 0
           /\ Start(p, Len(p) + 1) = Len(FlattenSeq(p))
           /\ \A i \in 1 .. Len(p) : Start(p, i + 1) = Start(p, i) + Len(p[i])
           /\ \A i \in 1 .. Len(p) + 1 : Start(p, i) \in Nat
BY StartBegins, BeginsProperties

LEMMA StartGrows ==
    ASSUME NEW S, NEW p \in Seq(Seq(S)), NEW i \in 1 .. Len(p) + 1,
           NEW j \in 1 .. Len(p) + 1, i <= j
    PROVE  Start(p, i) <= Start(p, j)
BY StartBegins, BeginsGrow

LEMMA StartAppend ==
    ASSUME NEW S, NEW p \in Seq(Seq(S)), NEW d \in Seq(S), NEW i \in 1 .. Len(p) + 1
    PROVE  Start(Append(p, d), i) = Start(p, i)
BY StartBegins, BeginsAppend

LEMMA InGroup ==
    ASSUME NEW S, NEW p \in Seq(Seq(S)), NEW i \in 1 .. Len(p), NEW j \in 1 .. Len(p[i])
    PROVE  Start(p, i) + j \in 1 .. Len(FlattenSeq(p)) /\ Start(p, i) \in Nat
           /\ Start(p, i) + Len(p[i]) <= Len(FlattenSeq(p)) /\ Len(p[i]) \in Nat
BY StartBegins, InPiece

-----------------------------------------------------------------------------
(* What runs a plan *)

LEMMA RunsNothing ==
    ASSUME NEW h, h = <<>> PROVE RunsPlan(<<>>, h)
<1>1. FlattenSeq(<<>>) = <<>> /\ DOMAIN <<>> = {}
  BY EmptySeq DEF FlattenSeq
<1>. QED BY <1>1 DEF RunsPlan

\* A group more that runs.
LEMMA RunsAppend ==
    ASSUME NEW S, NEW p \in Seq(Seq(S)), NEW d \in Seq(S),
           NEW h \in Seq(StepResults), NEW g \in Seq(StepResults),
           RunsPlan(p, h), Len(g) = Len(d), \A j \in 1 .. Len(d) : g[j].worker = d[j]
    PROVE  RunsPlan(Append(p, d), h \o g)
<1>. DEFINE q == Append(p, d)
            n == Len(p)
<1>0. n \in Nat /\ Len(d) \in Nat /\ Len(h) \in Nat /\ Len(h) = Len(FlattenSeq(p))
  BY LenProperties DEF RunsPlan
<1>1. q \in Seq(Seq(S)) /\ Len(q) = n + 1 /\ q[n + 1] = d
      /\ (\A i \in 1 .. n : q[i] = p[i]) /\ DOMAIN q = 1 .. n + 1
  BY AppendProperties, LenProperties
<1>2. /\ Len(h \o g) = Len(h) + Len(d)
      /\ \A x \in 1 .. Len(h) : (h \o g)[x] = h[x]
      /\ \A j \in 1 .. Len(d) : (h \o g)[Len(h) + j] = g[j]
  <2>. DEFINE hg == h \o g
  <2>1. Len(h) \in Nat /\ Len(g) = Len(d) /\ Len(d) \in Nat
    BY <1>0
  <2>2. Len(hg) = Len(h) + Len(g) /\ \A x \in 1 .. Len(h) + Len(g) :
           hg[x] = IF x <= Len(h) THEN h[x] ELSE g[x - Len(h)]
    BY ConcatProperties
  <2>. HIDE DEF hg
  <2>3. \A x \in 1 .. Len(h) : hg[x] = h[x]
    BY <2>1, <2>2
  <2>4. ASSUME NEW j \in 1 .. Len(d) PROVE hg[Len(h) + j] = g[j]
    <3>1. Len(h) + j \in 1 .. Len(h) + Len(g) /\ ~(Len(h) + j <= Len(h))
          /\ (Len(h) + j) - Len(h) = j
      BY <2>1
    <3>. QED BY <2>2, <3>1
  <2>. QED BY <2>1, <2>2, <2>3, <2>4 DEF hg
<1>3. Len(h \o g) = Len(FlattenSeq(q))
  BY <1>0, <1>2, FlattenLength
<1>4. ASSUME NEW i \in DOMAIN q PROVE GroupRan(q[i], Start(q, i), h \o g)
  <2>1. CASE i = n + 1
    <3>1. Start(q, i) = Len(h)
      <4>1. n + 1 \in 1 .. Len(p) + 1
        BY <1>0
      <4>. QED BY <1>0, <2>1, <4>1, StartAppend, StartProperties
    <3>. DEFINE f == [j \in DOMAIN d |-> j]
    <3>2. f \in Bijection(DOMAIN d, DOMAIN d)
      BY DEF Bijection, Injection, Surjection, IsInjective
    <3>3. \A j \in DOMAIN d : (h \o g)[Len(h) + j].worker = d[f[j]]
      <4>1. DOMAIN d = 1 .. Len(d)
        OBVIOUS
      <4>. QED BY <1>2, <4>1
    <3>. HIDE DEF f
    <3>4. GroupRan(d, Len(h), h \o g)
      BY <3>2, <3>3 DEF GroupRan
    <3>5. q[i] = d
      BY <1>1, <2>1
    <3>. QED BY <3>1, <3>4, <3>5
  <2>2. CASE i # n + 1
    <3>1. i \in 1 .. n /\ i \in 1 .. Len(p) + 1 /\ i \in DOMAIN p
      BY <1>0, <1>1, <2>2
    <3>2. q[i] = p[i] /\ Start(q, i) = Start(p, i)
      BY <1>1, <3>1, StartAppend
    <3>3. PICK f \in Bijection(DOMAIN p[i], DOMAIN p[i]) :
             \A j \in DOMAIN p[i] : h[Start(p, i) + j].worker = p[i][f[j]]
      BY <3>1, Zenon DEF RunsPlan, GroupRan
    <3>4. ASSUME NEW j \in DOMAIN p[i]
          PROVE  (h \o g)[Start(p, i) + j].worker = p[i][f[j]]
      <4>1. p[i] \in Seq(S)
        BY <3>1, ElementOfSeq
      <4>2. j \in 1 .. Len(p[i])
        BY <4>1, LenProperties
      <4>3. Start(p, i) + j \in 1 .. Len(h)
        BY <1>0, <3>1, <4>2, InGroup
      <4>. QED BY <1>2, <3>3, <4>3
    <3>5. GroupRan(p[i], Start(p, i), h \o g)
      BY <3>3, <3>4, Zenon DEF GroupRan
    <3>. QED BY <3>2, <3>5
  <2>. QED BY <2>1, <2>2
<1>. QED BY <1>3, <1>4, Zenon DEF RunsPlan

\* What ran may be permuted within the groups.
Regroups(p, pi, h, k) ==
    \A i \in 1 .. Len(p) : \A j \in 1 .. Len(p[i]) :
        /\ pi[Start(p, i) + j] \in Start(p, i) + 1 .. Start(p, i) + Len(p[i])
        /\ k[Start(p, i) + j] = h[pi[Start(p, i) + j]]

OneToOne(pi, n) == \A x, y \in 1 .. n : pi[x] = pi[y] => x = y

LEMMA RunsPermuted ==
    ASSUME NEW S, NEW p \in Seq(Seq(S)), NEW h \in Seq(StepResults), NEW k, NEW pi,
           RunsPlan(p, h), Len(k) = Len(h),
           Regroups(p, pi, h, k), OneToOne(pi, Len(h))
    PROVE  RunsPlan(p, k)
<1>1. ASSUME NEW i \in DOMAIN p PROVE GroupRan(p[i], Start(p, i), k)
  <2>1. i \in 1 .. Len(p) /\ p[i] \in Seq(S)
    BY LenProperties, ElementOfSeq
  <2>. DEFINE D == DOMAIN p[i]
              s == Start(p, i)
              n == Len(p[i])
  <2>2. D = 1 .. n /\ n \in Nat
    BY <2>1, LenProperties
  <2>3. PICK f \in Bijection(D, D) : \A j \in D : h[s + j].worker = p[i][f[j]]
    BY Zenon DEF RunsPlan, GroupRan
  <2>4. ASSUME NEW j \in D
        PROVE  s \in Nat /\ s + j \in 1 .. Len(h)
    <3>1. j \in 1 .. Len(p[i])
      BY <2>2
    <3>2. s \in Nat /\ s + j \in 1 .. Len(FlattenSeq(p))
      BY <2>1, <3>1, InGroup
    <3>. QED BY <3>2 DEF RunsPlan
  <2>5. ASSUME NEW j \in D
        PROVE  pi[s + j] \in s + 1 .. s + n /\ k[s + j] = h[pi[s + j]]
    BY <2>1, <2>2 DEF Regroups
  <2>. DEFINE e == [j \in D |-> pi[s + j] - s]
              g == [j \in D |-> f[e[j]]]
  <2>. HIDE DEF D, s, n
  <2>6. ASSUME NEW j \in D PROVE e[j] \in D /\ s + e[j] = pi[s + j]
    <3>1. e[j] = pi[s + j] - s /\ s \in Nat /\ n \in Nat /\ pi[s + j] \in s + 1 .. s + n
      BY <2>2, <2>4, <2>5
    <3>2. PICK v \in s + 1 .. s + n : v = pi[s + j]
      BY <3>1
    <3>3. e[j] = v - s
      BY <3>1, <3>2
    <3>4. v - s \in 1 .. n /\ s + (v - s) = v
      BY <3>1
    <3>. HIDE DEF e
    <3>. QED BY <2>2, <3>2, <3>3, <3>4
  <2>7. \A j, l \in D : e[j] = e[l] => j = l
    <3>. TAKE j, l \in D
    <3>. HAVE e[j] = e[l]
    <3>1. pi[s + j] = pi[s + l]
      BY <2>6
    <3>2. s + j = s + l
      BY <2>4, <3>1 DEF OneToOne
    <3>. QED BY <2>2, <2>4, <3>2
  <2>8. e \in [D -> D]
    BY <2>6
  <2>. HIDE DEF e
  <2>9. f \in [D -> D] /\ \A j, l \in D : f[j] = f[l] => j = l
    BY DEF Bijection, Injection, IsInjective
  <2>10. g \in [D -> D] /\ \A j, l \in D : g[j] = g[l] => j = l
    BY <2>6, <2>7, <2>9
  <2>11. g \in Injection(D, D)
    <3>1. DOMAIN g = D
      OBVIOUS
    <3>. HIDE DEF g
    <3>. QED BY <2>10, <3>1 DEF Injection, IsInjective
  <2>12. g \in Bijection(D, D)
    <3>1. IsFiniteSet(D)
      BY <2>2, FS_Interval
    <3>. HIDE DEF g
    <3>2. g \in Surjection(D, D)
      BY <2>11, <3>1, FS_Injection
    <3>. QED BY <2>11, <3>2 DEF Bijection
  <2>13. ASSUME NEW j \in D PROVE k[s + j].worker = p[i][g[j]]
    <3>1. k[s + j] = h[s + e[j]] /\ e[j] \in D
      BY <2>5, <2>6
    <3>. QED BY <2>3, <3>1
  <2>. HIDE DEF g
  <2>14. \E x \in Bijection(D, D) : \A j \in D : k[s + j].worker = p[i][x[j]]
    BY <2>12, <2>13
  <2>. QED BY <2>14, Zenon DEF D, s, GroupRan
<1>. QED BY <1>1, Zenon DEF RunsPlan

\* A worker of the superstep ends: it comes next on the record.
Rotated(h, a, i) == Append(h, a[i]) \o RemoveAt(a, i)
Rotation(m, i, x) == IF x <= m \/ x > m + i THEN x ELSE IF x = m + 1 THEN m + i ELSE x - 1

Rotates(h, a, i) ==
    \A x \in 1 .. Len(h) + Len(a) :
        /\ Rotation(Len(h), i, x) \in 1 .. Len(h) + Len(a)
        /\ Rotated(h, a, i)[x] = (h \o a)[Rotation(Len(h), i, x)]

LEMMA RotatedIs ==
    ASSUME NEW S, NEW h \in Seq(S), NEW a \in Seq(S), NEW i \in 1 .. Len(a)
    PROVE  /\ Rotated(h, a, i) \in Seq(S) /\ h \o a \in Seq(S)
           /\ Len(Rotated(h, a, i)) = Len(h \o a) /\ Len(h \o a) = Len(h) + Len(a)
           /\ Rotates(h, a, i)
<1>. DEFINE m == Len(h)
            n == Len(a)
            b == Append(h, a[i])
            c == RemoveAt(a, i)
            k == b \o c
            w == h \o a
<1>0. m \in Nat /\ n \in Nat /\ i \in 1 .. n /\ a[i] \in S
  BY LenProperties, ElementOfSeq
<1>1. b \in Seq(S) /\ Len(b) = m + 1 /\ (\A x \in 1 .. m : b[x] = h[x]) /\ b[m + 1] = a[i]
  BY <1>0, AppendProperties
<1>2. c \in Seq(S) /\ Len(c) = n - 1
      /\ \A j \in 1 .. n - 1 : c[j] = IF j < i THEN a[j] ELSE a[j + 1]
  BY RemoveAtProperties
<1>3. w \in Seq(S) /\ Len(w) = m + n
      /\ \A x \in 1 .. m + n : w[x] = IF x <= m THEN h[x] ELSE a[x - m]
  BY ConcatProperties
<1>. HIDE DEF b, c
<1>4. k \in Seq(S) /\ Len(k) = Len(b) + Len(c)
      /\ \A x \in 1 .. Len(b) + Len(c) : k[x] = IF x <= Len(b) THEN b[x] ELSE c[x - Len(b)]
  BY <1>1, <1>2, ConcatProperties
<1>. HIDE DEF m, n, k, w
<1>5. Len(b) + Len(c) = m + n
  BY <1>0, <1>1, <1>2
<1>6. ASSUME NEW x \in 1 .. m + n
      PROVE  Rotation(m, i, x) \in 1 .. m + n /\ k[x] = w[Rotation(m, i, x)]
  <2>1. CASE x <= m
    <3>1. Rotation(m, i, x) = x /\ x \in 1 .. m /\ x <= Len(b)
      BY <1>0, <1>1, <2>1 DEF Rotation
    <3>. QED BY <1>1, <1>3, <1>4, <1>5, <2>1, <3>1
  <2>2. CASE x = m + 1
    <3>1. Rotation(m, i, x) = m + i
      BY <1>0, <2>2 DEF Rotation
    <3>2. m + i \in 1 .. m + n /\ ~(m + i <= m) /\ (m + i) - m = i /\ x <= Len(b)
      BY <1>0, <1>1, <2>2
    <3>3. w[m + i] = a[i]
      BY <1>3, <3>2
    <3>4. k[x] = a[i]
      BY <1>1, <1>4, <1>5, <2>2, <3>2
    <3>. QED BY <3>1, <3>2, <3>3, <3>4
  <2>3. CASE x > m + 1
    <3>1. ~(x <= Len(b)) /\ x - (m + 1) \in 1 .. n - 1 /\ ~(x <= m)
      BY <1>0, <1>1, <2>3
    <3>2. k[x] = c[x - (m + 1)]
      BY <1>1, <1>4, <1>5, <3>1
    <3>3. CASE x > m + i
      <4>1. Rotation(m, i, x) = x
        BY <3>3 DEF Rotation
      <4>2. ~(x - (m + 1) < i) /\ (x - (m + 1)) + 1 = x - m
        BY <1>0, <3>3
      <4>3. c[x - (m + 1)] = a[x - m]
        BY <1>2, <3>1, <4>2
      <4>. QED BY <1>3, <3>1, <3>2, <4>1, <4>3
    <3>4. CASE ~(x > m + i)
      <4>1. Rotation(m, i, x) = x - 1
        BY <1>0, <2>3, <3>4 DEF Rotation
      <4>2. x - (m + 1) < i /\ x - 1 \in 1 .. m + n /\ ~(x - 1 <= m)
            /\ (x - 1) - m = x - (m + 1)
        BY <1>0, <2>3, <3>4
      <4>3. c[x - (m + 1)] = a[x - (m + 1)]
        BY <1>2, <3>1, <4>2
      <4>4. w[x - 1] = a[x - (m + 1)]
        BY <1>3, <4>2
      <4>. QED BY <3>2, <4>1, <4>2, <4>3, <4>4
    <3>. QED BY <3>3, <3>4
  <2>. QED BY <1>0, <2>1, <2>2, <2>3
<1>7. Rotated(h, a, i) = k
  BY DEF Rotated, k, b, c
<1>8. Rotates(h, a, i)
  BY <1>6, <1>7, Zenon DEF Rotates, m, n, w
<1>. QED BY <1>3, <1>4, <1>5, <1>7, <1>8 DEF m, n, w

LEMMA RunsRotated ==
    ASSUME NEW S, NEW p \in Seq(Seq(S)), p # <<>>,
           NEW h \in Seq(StepResults), NEW a \in Seq(StepResults), NEW i \in 1 .. Len(a),
           RunsPlan(p, h \o a), Start(p, Len(p)) <= Len(h)
    PROVE  RunsPlan(p, Rotated(h, a, i))
<1>. DEFINE m == Len(h)
            n == Len(a)
            pi == [x \in 1 .. m + n |-> Rotation(m, i, x)]
            k == Rotated(h, a, i)
            w == h \o a
<1>0. m \in Nat /\ n \in Nat /\ i \in 1 .. n /\ Len(p) \in Nat /\ Len(p) >= 1
      /\ Len(p) \in 1 .. Len(p) + 1
  <2>1. Len(p) \in Nat \ {0}
    BY EmptySeq
  <2>. QED BY <2>1, LenProperties
<1>1. /\ k \in Seq(StepResults) /\ w \in Seq(StepResults)
      /\ Len(k) = Len(w) /\ Len(w) = m + n
      /\ \A x \in 1 .. m + n : Rotation(m, i, x) \in 1 .. m + n /\ k[x] = w[Rotation(m, i, x)]
  <2>1. h \o a \in Seq(StepResults) /\ Rotated(h, a, i) \in Seq(StepResults)
        /\ Len(Rotated(h, a, i)) = Len(h \o a) /\ Len(h \o a) = Len(h) + Len(a)
    BY RotatedIs
  <2>2. Rotates(h, a, i)
    BY RotatedIs
  <2>. QED BY <2>1, <2>2 DEF Rotates
<1>2. Len(FlattenSeq(p)) = m + n
  BY <1>1 DEF RunsPlan
<1>. HIDE DEF m, n, k, w
<1>3. ASSUME NEW l \in 1 .. Len(p), NEW j \in 1 .. Len(p[l])
      PROVE  /\ pi[Start(p, l) + j] \in Start(p, l) + 1 .. Start(p, l) + Len(p[l])
             /\ k[Start(p, l) + j] = w[pi[Start(p, l) + j]]
  <2>. DEFINE s == Start(p, l)
              x == s + j
              e == s + Len(p[l])
  <2>1. x \in 1 .. m + n /\ s \in Nat /\ e <= m + n /\ Len(p[l]) \in Nat
    BY <1>2, InGroup
  <2>2. pi[x] = Rotation(m, i, x) /\ k[x] = w[pi[x]] /\ pi[x] \in 1 .. m + n
    BY <1>1, <2>1
  <2>3. pi[x] \in s + 1 .. e
    <3>1. CASE l = Len(p)
      <4>1. s <= m
        BY <3>1 DEF m
      <4>2. e = m + n
        <5>1. Start(p, l + 1) = e /\ Start(p, l + 1) = Len(FlattenSeq(p))
          BY <3>1, StartProperties
        <5>. QED BY <1>2, <5>1
      <4>3. x \in Int /\ x >= s + 1 /\ x <= m + n
        BY <2>1
      <4>. HIDE DEF x, s, e, pi
      <4>. QED BY <1>0, <2>1, <2>2, <4>1, <4>2, <4>3 DEF Rotation
    <3>2. CASE l # Len(p)
      <4>1. l + 1 \in 1 .. Len(p) + 1 /\ l + 1 <= Len(p)
        BY <1>0, <3>2
      <4>2. Start(p, l + 1) = e /\ Start(p, Len(p)) \in Nat
        BY <1>0, StartProperties
      <4>3. Start(p, l + 1) <= Start(p, Len(p))
        BY <1>0, <4>1, StartGrows
      <4>4. e <= m /\ x <= e
        BY <1>0, <2>1, <4>2, <4>3 DEF m
      <4>5. x <= m /\ x >= s + 1
        BY <1>0, <2>1, <4>4
      <4>6. Rotation(m, i, x) = x
        BY <4>5 DEF Rotation
      <4>. QED BY <2>1, <2>2, <4>4, <4>5, <4>6
    <3>. QED BY <3>1, <3>2
  <2>. QED BY <2>2, <2>3
<1>4. ASSUME NEW x \in 1 .. m + n, NEW y \in 1 .. m + n, pi[x] = pi[y] PROVE x = y
  BY <1>0, <1>4 DEF Rotation
<1>. HIDE DEF pi
<1>5. RunsPlan(p, w)
  BY DEF w
<1>6. Regroups(p, pi, w, k) /\ OneToOne(pi, Len(w))
  BY <1>1, <1>3, <1>4 DEF Regroups, OneToOne
<1>7. RunsPlan(p, k)
  BY <1>1, <1>5, <1>6, RunsPermuted
<1>. QED BY <1>7 DEF k

-----------------------------------------------------------------------------
(* Sorting *)

\* What sorts before the i-th step.
Sooner(h, i) == {j \in DOMAIN h : Before(h, j, i)}

LEMMA BeforeOrders ==
    ASSUME NEW h \in Seq(StepResults)
    PROVE  /\ \A i \in DOMAIN h : ~Before(h, i, i)
           /\ \A i, j \in DOMAIN h : i # j => Before(h, i, j) \/ Before(h, j, i)
           /\ \A i, j, k \in DOMAIN h : Before(h, i, j) /\ Before(h, j, k) => Before(h, i, k)
<1>1. DOMAIN h = 1 .. Len(h) /\ Len(h) \in Nat
  BY LenProperties
<1>2. \A i \in DOMAIN h : h[i].step \in Nat /\ h[i].worker \in Nat
  <2>. SUFFICES ASSUME NEW i \in DOMAIN h PROVE h[i].step \in Nat /\ h[i].worker \in Nat
    OBVIOUS
  <2>1. h[i] \in StepResults
    BY <1>1, ElementOfSeq
  <2>. QED BY <2>1, WorkersAssumption DEF StepResults
<1>3. \A i \in DOMAIN h : i \in Nat
  BY <1>1
<1>. QED BY <1>2, <1>3 DEF Before

LEMMA RankProperties ==
    ASSUME NEW h \in Seq(StepResults)
    PROVE  /\ \A i \in DOMAIN h : Rank(h, i) \in 0 .. Len(h) - 1
           /\ \A i, j \in DOMAIN h : Before(h, i, j) => Rank(h, i) < Rank(h, j)
           /\ \A i, j \in DOMAIN h : Rank(h, i) = Rank(h, j) => i = j
           /\ \A k \in DOMAIN h : \E i \in DOMAIN h : Rank(h, i) = k - 1
<1>. DEFINE n == Len(h)
            D == DOMAIN h
            R == {p \in D \X D : Before(h, p[1], p[2])}
<1>1. D = 1 .. n /\ n \in Nat
  BY LenProperties
<1>2. IsFiniteSet(D) /\ Cardinality(D) = n
  <2>1. 1 \in Int /\ n \in Int /\ (IF 1 > n THEN 0 ELSE n - 1 + 1) = n
    BY <1>1
  <2>. HIDE DEF n, D
  <2>. QED BY <1>1, <2>1, FS_Interval
<1>3. \A i, j \in D : <<i, j>> \in R <=> Before(h, i, j)
  OBVIOUS
<1>4. StrictOrder(R, D)
  <2>. HIDE DEF R
  <2>. QED BY <1>3, BeforeOrders DEF StrictOrder
<1>5. \A i \in D : Rank(h, i) = Cardinality(Under(R, D, i))
  <2>. SUFFICES ASSUME NEW i \in D PROVE Rank(h, i) = Cardinality(Under(R, D, i))
    OBVIOUS
  <2>1. Sooner(h, i) = Under(R, D, i)
    <3>. HIDE DEF R
    <3>. QED BY <1>3 DEF Sooner, Under
  <2>. QED BY <2>1 DEF Rank, Sooner
<1>. HIDE DEF R, n, D
<1>6. /\ \A i \in D : Rank(h, i) \in 0 .. n - 1
      /\ \A i, j \in D : <<i, j>> \in R <=> Rank(h, i) < Rank(h, j)
      /\ \A i, j \in D : Rank(h, i) = Rank(h, j) => i = j
      /\ \A k \in 1 .. n : \E i \in D : Rank(h, i) = k - 1
  BY <1>2, <1>4, <1>5, Ranks
<1>7. \A k \in D : \E i \in D : Rank(h, i) = k - 1
  BY <1>1, <1>6
<1>. QED BY <1>3, <1>6, <1>7 DEF n, D

\* Sorting permutes.
Place(h, k) == CHOOSE i \in DOMAIN h : Rank(h, i) = k - 1

LEMMA PlaceProperties ==
    ASSUME NEW h \in Seq(StepResults)
    PROVE  /\ \A k \in DOMAIN h : Place(h, k) \in DOMAIN h /\ Rank(h, Place(h, k)) = k - 1
           /\ \A k, l \in DOMAIN h : Place(h, k) = Place(h, l) => k = l
           /\ \A i \in DOMAIN h : \E k \in DOMAIN h : Place(h, k) = i
<1>. DEFINE n == Len(h)
            D == DOMAIN h
<1>1. D = 1 .. n /\ n \in Nat
  BY LenProperties
<1>2. ASSUME NEW k \in D PROVE Place(h, k) \in D /\ Rank(h, Place(h, k)) = k - 1
  <2>1. \E i \in DOMAIN h : Rank(h, i) = k - 1
    BY RankProperties
  <2>. QED BY <2>1, Zenon DEF Place
<1>3. ASSUME NEW k \in D, NEW l \in D, Place(h, k) = Place(h, l) PROVE k = l
  <2>1. k - 1 = l - 1
    BY <1>2, <1>3
  <2>. QED BY <1>1, <2>1
<1>4. ASSUME NEW i \in D PROVE \E k \in D : Place(h, k) = i
  <2>. DEFINE k == Rank(h, i) + 1
  <2>1. Rank(h, i) \in 0 .. n - 1
    BY RankProperties
  <2>2. k \in D /\ k - 1 = Rank(h, i)
    BY <1>1, <2>1
  <2>3. Rank(h, Place(h, k)) = Rank(h, i) /\ Place(h, k) \in D
    BY <1>2, <2>2
  <2>. QED BY <2>2, <2>3, RankProperties
<1>. QED BY <1>2, <1>3, <1>4

LEMMA SortedProperties ==
    ASSUME NEW h \in Seq(StepResults)
    PROVE  /\ Sorted(h) \in Seq(StepResults) /\ Len(Sorted(h)) = Len(h)
           /\ DOMAIN Sorted(h) = DOMAIN h
           /\ \A k \in DOMAIN h : Sorted(h)[k] = h[Place(h, k)]
<1>. DEFINE n == Len(h)
<1>1. DOMAIN h = 1 .. n /\ n \in Nat
  BY LenProperties
<1>2. Sorted(h) = [k \in 1 .. n |-> h[Place(h, k)]]
  BY <1>1 DEF Sorted, Place
<1>3. \A k \in 1 .. n : h[Place(h, k)] \in StepResults
  BY <1>1, PlaceProperties, ElementOfSeq
<1>4. Sorted(h) \in [1 .. n -> StepResults]
  BY <1>2, <1>3
<1>5. Sorted(h) \in Seq(StepResults)
  BY <1>1, <1>4, SeqDef
<1>6. DOMAIN Sorted(h) = 1 .. n
  BY <1>2
<1>7. Len(Sorted(h)) = n
  BY <1>1, <1>5, <1>6, LenProperties
<1>. QED BY <1>1, <1>2, <1>5, <1>6, <1>7

\* _wrap stamps the steps of a superstep with the history's length at the routing.
Stamped(plan, h) ==
    \A i \in DOMAIN plan : \A j \in DOMAIN plan[i] :
        h[Start(plan, i) + j].step = Start(plan, i)

Ordered(h) ==
    /\ \A x \in DOMAIN h : h[x].step < x
    /\ \A x, y \in DOMAIN h : x <= y => h[x].step <= h[y].step

\* The steps up to position c are those stamped below c.
Cut(h, c) ==
    /\ c \in 0 .. Len(h)
    /\ \A x \in DOMAIN h : IF x <= c THEN h[x].step < c ELSE h[x].step >= c

LEMMA StartIsCut ==
    ASSUME NEW S, NEW p \in Seq(Seq(S)), NEW h \in Seq(StepResults), RunsPlan(p, h),
           Stamped(p, h), Ordered(h), \A i \in DOMAIN p : p[i] # <<>>,
           NEW i \in 1 .. Len(p) + 1
    PROVE  Cut(h, Start(p, i))
<1>. DEFINE c == Start(p, i)
            n == Len(h)
<1>0. DOMAIN h = 1 .. n /\ n \in Nat /\ Len(p) \in Nat /\ DOMAIN p = 1 .. Len(p)
  BY LenProperties
<1>1. \A x \in DOMAIN h : h[x].step \in Nat
  <2>. SUFFICES ASSUME NEW x \in DOMAIN h PROVE h[x].step \in Nat
    OBVIOUS
  <2>1. h[x] \in StepResults
    BY <1>0, ElementOfSeq
  <2>. QED BY <2>1 DEF StepResults
<1>2. c \in 0 .. n
  <2>1. c \in Nat /\ Start(p, Len(p) + 1) = n
    BY StartProperties DEF RunsPlan
  <2>2. c <= Start(p, Len(p) + 1)
    <3>1. Len(p) + 1 \in 1 .. Len(p) + 1 /\ i <= Len(p) + 1
      BY <1>0
    <3>. QED BY <3>1, StartGrows
  <2>. QED BY <1>0, <2>1, <2>2
<1>3. ASSUME NEW x \in DOMAIN h, x <= c PROVE h[x].step < c
  <2>1. h[x].step < x
    BY DEF Ordered
  <2>. HIDE DEF c, n
  <2>. QED BY <1>0, <1>1, <1>2, <1>3, <2>1
<1>4. ASSUME NEW x \in DOMAIN h, x > c PROVE h[x].step >= c
  <2>1. i # Len(p) + 1
    <3>1. Start(p, Len(p) + 1) = n
      BY StartProperties DEF RunsPlan
    <3>2. x <= n
      BY <1>0
    <3>. QED BY <1>0, <1>2, <1>4, <3>1, <3>2
  <2>2. i \in 1 .. Len(p) /\ i \in DOMAIN p
    BY <1>0, <2>1
  <2>3. p[i] \in Seq(S) /\ p[i] # <<>>
    BY <2>2, ElementOfSeq
  <2>4. 1 \in DOMAIN p[i]
    BY <2>3, EmptySeq, LenProperties
  <2>5. h[c + 1].step = c
    BY <2>2, <2>4 DEF Stamped
  <2>6. c + 1 \in DOMAIN h /\ c + 1 <= x
    <3>. HIDE DEF c, n
    <3>. QED BY <1>0, <1>2, <1>4
  <2>7. h[c + 1].step <= h[x].step
    BY <2>6 DEF Ordered
  <2>. HIDE DEF c
  <2>. QED BY <1>1, <1>2, <2>5, <2>7
<1>5. \A x \in DOMAIN h : IF x <= c THEN h[x].step < c ELSE h[x].step >= c
  <2>. HIDE DEF c, n
  <2>1. \A x \in DOMAIN h : x <= c \/ x > c
    BY <1>0, <1>2
  <2>. QED BY <1>3, <1>4, <2>1
<1>. QED BY <1>2, <1>5 DEF Cut

\* A sort does not move a step over a cut.
LEMMA CutRank ==
    ASSUME NEW h \in Seq(StepResults), NEW c, Cut(h, c), NEW y \in DOMAIN h
    PROVE  (y <= c => Rank(h, y) < c) /\ (y > c => Rank(h, y) >= c)
<1>. DEFINE n == Len(h)
<1>0. DOMAIN h = 1 .. n /\ n \in Nat /\ c \in 0 .. n
  BY LenProperties DEF Cut
<1>1. \A x \in DOMAIN h : h[x].step \in Nat
  <2>. SUFFICES ASSUME NEW x \in DOMAIN h PROVE h[x].step \in Nat
    OBVIOUS
  <2>1. h[x] \in StepResults
    BY <1>0, ElementOfSeq
  <2>. QED BY <2>1 DEF StepResults
<1>. HIDE DEF n
<1>2. \A x \in DOMAIN h : IF x <= c THEN h[x].step < c ELSE h[x].step >= c
  BY DEF Cut
<1>3. Rank(h, y) = Cardinality(Sooner(h, y)) /\ Sooner(h, y) \subseteq 1 .. n /\ y \in 1 .. n
  BY <1>0 DEF Rank, Sooner
<1>4. IsFiniteSet(1 .. n) /\ IsFiniteSet(1 .. c) /\ Cardinality(1 .. c) = c
  <2>1. 1 \in Int /\ n \in Int /\ c \in Int /\ (IF 1 > c THEN 0 ELSE c - 1 + 1) = c
    BY <1>0
  <2>. QED BY <2>1, FS_Interval
<1>5. ASSUME y <= c PROVE Rank(h, y) < c
  <2>1. Sooner(h, y) \in SUBSET ((1 .. c) \ {y})
    <3>. SUFFICES ASSUME NEW x \in Sooner(h, y) PROVE x \in (1 .. c) \ {y}
      OBVIOUS
    <3>1. x \in DOMAIN h /\ h[x].step <= h[y].step /\ x # y
      BY <1>1, BeforeOrders DEF Sooner, Before
    <3>2. h[y].step < c
      BY <1>2, <1>5
    <3>3. x <= c
      BY <1>0, <1>1, <1>2, <3>1, <3>2
    <3>. QED BY <1>0, <3>1, <3>3
  <2>2. IsFiniteSet((1 .. c) \ {y}) /\ Cardinality((1 .. c) \ {y}) = c - 1
    <3>1. y \in 1 .. c
      BY <1>0, <1>3, <1>5
    <3>. QED BY <1>4, <3>1, FS_RemoveElement
  <2>3. Cardinality(Sooner(h, y)) <= c - 1
    BY <2>1, <2>2, FS_Subset
  <2>4. Rank(h, y) \in Int
    BY RankProperties
  <2>. QED BY <1>0, <1>3, <2>3, <2>4
<1>6. ASSUME y > c PROVE Rank(h, y) >= c
  <2>1. 1 .. c \in SUBSET Sooner(h, y)
    <3>. SUFFICES ASSUME NEW x \in 1 .. c PROVE x \in Sooner(h, y)
      OBVIOUS
    <3>1. x \in DOMAIN h /\ x <= c
      BY <1>0
    <3>2. h[x].step < c /\ h[y].step >= c
      <4>1. ~(y <= c)
        BY <1>0, <1>6
      <4>. QED BY <1>2, <3>1, <4>1
    <3>3. h[x].step < h[y].step
      BY <1>0, <1>1, <3>1, <3>2
    <3>. QED BY <3>1, <3>3 DEF Sooner, Before
  <2>2. IsFiniteSet(Sooner(h, y))
    BY <1>3, <1>4, FS_Subset
  <2>3. c <= Cardinality(Sooner(h, y))
    BY <1>4, <2>1, <2>2, FS_Subset
  <2>4. Rank(h, y) \in Int
    BY RankProperties
  <2>. QED BY <1>0, <1>3, <2>3, <2>4
<1>. QED BY <1>5, <1>6

LEMMA RunsSorted ==
    ASSUME NEW S, NEW p \in Seq(Seq(S)), NEW h \in Seq(StepResults), RunsPlan(p, h),
           Stamped(p, h), Ordered(h), \A i \in DOMAIN p : p[i] # <<>>
    PROVE  RunsPlan(p, Sorted(h))
<1>. DEFINE n == Len(h)
            pi == [k \in 1 .. n |-> Place(h, k)]
<1>0. DOMAIN h = 1 .. n /\ n \in Nat /\ Len(p) \in Nat
  BY LenProperties
<1>1. n = Len(FlattenSeq(p))
  BY DEF RunsPlan
<1>2. ASSUME NEW l \in 1 .. Len(p), NEW j \in 1 .. Len(p[l])
      PROVE  /\ pi[Start(p, l) + j] \in Start(p, l) + 1 .. Start(p, l) + Len(p[l])
             /\ Sorted(h)[Start(p, l) + j] = h[pi[Start(p, l) + j]]
  <2>. DEFINE s == Start(p, l)
              x == s + j
              e == Start(p, l + 1)
              y == Place(h, x)
  <2>1. x \in 1 .. n /\ s \in Nat /\ e = s + Len(p[l]) /\ Len(p[l]) \in Nat
    BY <1>1, InGroup, StartProperties
  <2>2. pi[x] = y /\ y \in DOMAIN h /\ Rank(h, y) = x - 1
        /\ Sorted(h)[x] = h[pi[x]]
    BY <1>0, <2>1, PlaceProperties, SortedProperties
  <2>3. Cut(h, s) /\ Cut(h, e)
    <3>1. l \in 1 .. Len(p) + 1 /\ l + 1 \in 1 .. Len(p) + 1
      BY <1>0
    <3>. QED BY <3>1, StartIsCut
  <2>4. y \in Nat
    BY <1>0, <2>2
  <2>5. (y <= s => Rank(h, y) < s) /\ (y > e => Rank(h, y) >= e)
    BY <2>2, <2>3, CutRank
  <2>6. x - 1 >= s /\ x - 1 < e /\ x - 1 \in Int /\ e \in Nat
    BY <1>0, <2>1
  <2>. HIDE DEF x, s, e, y, n, pi
  <2>7. y > s /\ y <= e
    BY <2>1, <2>2, <2>4, <2>5, <2>6
  <2>8. y \in s + 1 .. s + Len(p[l])
    BY <2>1, <2>4, <2>7
  <2>. QED BY <2>2, <2>8 DEF x, s
<1>3. ASSUME NEW x \in 1 .. n, NEW y \in 1 .. n, pi[x] = pi[y] PROVE x = y
  BY <1>0, <1>3, PlaceProperties
<1>. HIDE DEF pi
<1>4. Regroups(p, pi, h, Sorted(h)) /\ OneToOne(pi, Len(h))
  BY <1>2, <1>3 DEF Regroups, OneToOne
<1>. QED BY <1>4, SortedProperties, RunsPermuted

-----------------------------------------------------------------------------
(* Types *)

\* A superstep is the supervisor's or its workers'; a thread that was never run has
\* nothing; and workers execute in a running call only.
ShapeOK(t) ==
    /\ next[t] \in Seq(Workers) \cup {<<Supervisor>>}
    /\ pc[t] = "new" => history[t] = <<>> /\ next[t] = <<>> /\ ~busy[t]
    /\ busy[t] => AtWorkers(t) /\ ~Held(t) /\ (engine = "langgraph" => steps[t] > 0)

MeshShape == TypeOK /\ \A t \in Threads : ShapeOK(t)

LEMMA InitShape == Init => MeshShape
<1>. SUFFICES ASSUME Init PROVE MeshShape
  OBVIOUS
<1>1. <<>> \in Seq(StepResults) /\ <<>> \in Seq(Workers \cup {Supervisor}) /\ <<>> \in Seq(Workers)
  BY EmptySeq
<1>2. 0 \in Nat /\ 0 \in 0 .. MaxResumes /\ 0 \in 0 .. MaxCrashes
  BY LimitAssumption
<1>3. TypeOK
  <2>1. /\ engine \in {"local", "langgraph"} /\ durable \in BOOLEAN
        /\ pc \in [Threads -> {"new", "running", "interrupted", "complete", "failed"}]
        /\ bypass \in [Threads -> BOOLEAN] /\ busy \in [Threads -> BOOLEAN]
    BY DEF Init
  <2>2. /\ history \in [Threads -> Seq(StepResults)]
        /\ next \in [Threads -> Seq(Workers \cup {Supervisor})]
        /\ stamp \in [Threads -> Nat] /\ steps \in [Threads -> Nat]
        /\ recorder \in [Threads -> Seq(Seq(Names)) \cup {NoPlan}]
    BY <1>1, <1>2 DEF Init
  <2>3. /\ plans \in [Plans -> [thread : Threads, steps : Seq(Seq(Names))] \cup {NoPlan}]
        /\ answer \in [Threads -> Seq(StepResults) \cup {NoAnswer}]
        /\ approved \in [Threads -> Nat] /\ spent \in [Threads -> Nat]
        /\ resumes \in [Threads -> 0 .. MaxResumes] /\ crashes \in 0 .. MaxCrashes
    BY <1>2 DEF Init
  <2>. QED BY <2>1, <2>2, <2>3, Zenon DEF TypeOK
<1>4. ASSUME NEW t \in Threads PROVE ShapeOK(t)
  BY <1>1 DEF Init, ShapeOK
<1>. QED BY <1>3, <1>4 DEF MeshShape

\* Shape of the other threads.
LEMMA OtherShape ==
    ASSUME NEW t \in Threads, ShapeOK(t), next'[t] = next[t], pc'[t] = pc[t],
           history'[t] = history[t], busy'[t] = busy[t], steps'[t] = steps[t],
           bypass'[t] = bypass[t], engine' = engine
    PROVE  ShapeOK(t)'
BY DEF ShapeOK, AtWorkers, Running, Routing, Held, Waiting, IsGated

LEMMA DecisionType ==
    ASSUME NEW d \in Decisions
    PROVE  /\ d \in Seq(Names) /\ Len(d) \in Nat /\ Len(d) >= 1
           /\ FINISH \notin ToSet(d) => d \in Seq(Workers) /\ d # <<>> /\ d # <<Supervisor>>
<1>1. Supervisor \notin Names /\ FINISH \notin Workers
  BY WorkersAssumption DEF Names, Supervisor, FINISH
<1>2. d \in Seq(Names) /\ Len(d) \in Nat /\ Len(d) >= 1
  <2>1. CASE d = <<FINISH>>
    BY <2>1 DEF Names
  <2>2. CASE d \in Routings
    <3>1. d \in Seq(Names) /\ Len(d) > 0
      BY <2>2, RoutingsAssumption DEF Names
    <3>. QED BY <3>1, LenProperties
  <2>. QED BY <2>1, <2>2 DEF Decisions
<1>3. d # <<>> /\ d # <<Supervisor>>
  <2>1. d[1] \in Names
    BY <1>2
  <2>2. d # <<>>
    BY <1>2
  <2>. QED BY <1>1, <2>1, <2>2
<1>4. ASSUME FINISH \notin ToSet(d) PROVE d \in Seq(Workers)
  <2>1. DOMAIN d = 1 .. Len(d) /\ d \in [1 .. Len(d) -> Names]
    BY <1>2, LenProperties
  <2>2. \A i \in 1 .. Len(d) : d[i] \in Workers
    BY <1>4, <2>1 DEF ToSet, Names
  <2>3. d \in [1 .. Len(d) -> Workers]
    BY <2>1, <2>2
  <2>. QED BY <1>2, <2>3, SeqDef
<1>. QED BY <1>2, <1>3, <1>4

LEMMA RecordedType ==
    ASSUME MeshShape, NEW t \in Threads, NEW d \in Decisions
    PROVE  Recorded(t, d) \in Seq(Seq(Names)) \cup {NoPlan}
<1>1. recorder[t] \in Seq(Seq(Names)) \cup {NoPlan}
  BY DEF MeshShape, TypeOK
<1>2. d \in Seq(Names)
  BY DecisionType
<1>. QED BY <1>1, <1>2, AppendProperties DEF Recorded

LEMMA ResultType ==
    ASSUME MeshShape, NEW t \in Threads
    PROVE  Result(t) \in Seq(StepResults)
<1>1. history[t] \in Seq(StepResults)
  BY DEF MeshShape, TypeOK
<1>. QED BY <1>1, SortedProperties DEF Result

LEMMA NextType ==
    ASSUME MeshShape, NEW t \in Threads, AtWorkers(t)
    PROVE  next[t] \in Seq(Workers) /\ Len(next[t]) \in Nat /\ Len(next[t]) >= 1
<1>1. next[t] \in Seq(Workers) /\ next[t] # <<>>
  BY DEF MeshShape, ShapeOK, AtWorkers, Routing
<1>. QED BY <1>1, EmptySeq

LEMMA NodesType ==
    /\ <<>> \in Seq(Workers \cup {Supervisor})
    /\ <<Supervisor>> \in Seq(Workers \cup {Supervisor})
    /\ \A d \in Seq(Workers) : d \in Seq(Workers \cup {Supervisor})
<1>1. <<Supervisor>> \in Seq(Workers \cup {Supervisor})
  OBVIOUS
<1>. QED BY <1>1, EmptySeq, SeqMonotonic

LEMMA AskedNat ==
    ASSUME MeshShape, NEW t \in Threads PROVE Asked(t) \in Nat
<1>1. next[t] \in Seq(Workers \cup {Supervisor})
  BY DEF MeshShape, TypeOK
<1>2. DOMAIN next[t] = 1 .. Len(next[t]) /\ Len(next[t]) \in Nat
  BY <1>1, LenProperties
<1>3. IsFiniteSet(DOMAIN next[t])
  BY <1>2, FS_Interval
<1>. DEFINE G == {i \in DOMAIN next[t] : next[t][i] \in Gated}
<1>4. IsFiniteSet(G)
  BY <1>3, FS_Subset
<1>5. Pending(next[t]) = Cardinality(G)
  BY Zenon DEF Pending
<1>. HIDE DEF G
<1>. QED BY <1>4, <1>5, FS_CardinalityType DEF Asked

LEMMA WaitingType ==
    ASSUME MeshShape, NEW t \in Threads, Waiting(t)
    PROVE  /\ next[t] \in Seq(Workers) /\ next[t] # <<>> /\ next[t] # <<Supervisor>>
           /\ next[t][1] \in Workers
<1>1. PICK i \in DOMAIN next[t] : next[t][i] \in Gated
  BY DEF Waiting, IsGated
<1>2. next[t] # <<Supervisor>>
  <2>1. Supervisor \notin Gated
    BY WorkersAssumption
  <2>2. ASSUME next[t] = <<Supervisor>> PROVE FALSE
    <3>1. i = 1
      BY <1>1, <2>2
    <3>. QED BY <1>1, <2>1, <2>2, <3>1
  <2>. QED BY <2>2
<1>3. next[t] \in Seq(Workers) /\ next[t] # <<>>
  BY <1>1, <1>2 DEF MeshShape, ShapeOK
<1>4. 1 \in 1 .. Len(next[t])
  BY <1>3, EmptySeq
<1>. QED BY <1>2, <1>3, <1>4, ElementOfSeq

LEMMA StepTypes ==
    ASSUME MeshShape, [Next]_vars
    PROVE  TypeOK'
<1>. USE DEF MeshShape
<1>0. CASE UNCHANGED vars
  BY <1>0 DEF TypeOK, vars, meshVars, planVars, countVars
<1>1. CASE Crash /\ UNCHANGED <<engine, durable>>
  <2>1. <<>> \in Seq(StepResults)
    BY EmptySeq
  <2>2. history' \in [Threads -> Seq(StepResults)]
    BY <1>1, <2>1 DEF Crash, TypeOK
  <2>3. next' \in [Threads -> Seq(Workers \cup {Supervisor})]
    BY <1>1, NodesType DEF Crash, TypeOK
  <2>4. pc' \in [Threads -> {"new", "running", "interrupted", "complete", "failed"}]
    BY <1>1 DEF Crash, TypeOK
  <2>5. crashes' \in 0 .. MaxCrashes
    BY <1>1, LimitAssumption DEF Crash, TypeOK
  <2>6. bypass' \in [Threads -> BOOLEAN] /\ busy' \in [Threads -> BOOLEAN]
    BY <1>1 DEF Crash
  <2>7. recorder' \in [Threads -> Seq(Seq(Names)) \cup {NoPlan}] /\ steps' \in [Threads -> Nat]
    BY <1>1 DEF Crash
  <2>8. UNCHANGED <<engine, durable, stamp, plans, answer, approved, spent, resumes>>
    BY <1>1 DEF Crash
  <2>. QED BY <2>2, <2>3, <2>4, <2>5, <2>6, <2>7, <2>8 DEF TypeOK
<1>2. ASSUME NEW t \in Threads, RouteFails(t) \/ WorkFails(t), UNCHANGED <<engine, durable>>
      PROVE  TypeOK'
  <2>1. Fail(t)
    BY <1>2 DEF RouteFails, WorkFails
  <2>. QED BY <1>2, <2>1 DEF Fail, EndCall, TypeOK, countVars
<1>3. ASSUME NEW t \in Threads, Interrupt(t), UNCHANGED <<engine, durable>>
      PROVE  TypeOK'
  BY <1>3 DEF Interrupt, EndCall, TypeOK, countVars
<1>4. ASSUME NEW t \in Threads, Launch(t), UNCHANGED <<engine, durable>>
      PROVE  TypeOK'
  <2>1. Asked(t) \in Nat
    BY AskedNat
  <2>2. spent' \in [Threads -> Nat]
    BY <1>4, <2>1 DEF Launch, TypeOK
  <2>3. busy' \in [Threads -> BOOLEAN]
    BY <1>4 DEF Launch, TypeOK
  <2>4. UNCHANGED <<engine, durable, pc, history, next, stamp, bypass, steps, recorder, plans,
                    answer, approved, resumes, crashes>>
    BY <1>4 DEF Launch, planVars
  <2>. QED BY <2>2, <2>3, <2>4 DEF TypeOK
<1>5. ASSUME NEW t \in Threads, EndAgain(t), UNCHANGED <<engine, durable>>
      PROVE  TypeOK'
  <2>1. Result(t) \in Seq(StepResults)
    BY ResultType
  <2>. QED BY <1>5, <2>1 DEF EndAgain, EndCall, TypeOK, countVars
<1>6. ASSUME NEW t \in Threads, NEW d \in Decisions, Route(t, d), UNCHANGED <<engine, durable>>
      PROVE  TypeOK'
  <2>1. d \in Seq(Workers \cup {Supervisor})
    BY <1>6, DecisionType, NodesType DEF Route
  <2>2. Recorded(t, d) \in Seq(Seq(Names)) \cup {NoPlan}
    BY RecordedType
  <2>3. Len(history[t]) \in Nat
    BY LenProperties DEF TypeOK
  <2>4. next' \in [Threads -> Seq(Workers \cup {Supervisor})]
    BY <1>6, <2>1 DEF Route, TypeOK
  <2>5. recorder' \in [Threads -> Seq(Seq(Names)) \cup {NoPlan}]
    BY <1>6, <2>2 DEF Route, TypeOK
  <2>6. steps' \in [Threads -> Nat] /\ stamp' \in [Threads -> Nat]
    BY <1>6, <2>3 DEF Route, TypeOK
  <2>7. bypass' \in [Threads -> BOOLEAN]
    BY <1>6 DEF Route, TypeOK
  <2>8. UNCHANGED <<engine, durable, pc, history, busy, plans, answer, approved, spent, resumes,
                    crashes>>
    BY <1>6 DEF Route, countVars
  <2>. QED BY <2>4, <2>5, <2>6, <2>7, <2>8 DEF TypeOK
<1>7. ASSUME NEW t \in Threads, NEW d \in Decisions, Finish(t, d), UNCHANGED <<engine, durable>>
      PROVE  TypeOK'
  <2>1. Result(t) \in Seq(StepResults)
    BY ResultType
  <2>2. Recorded(t, d) \in Seq(Seq(Names)) \cup {NoPlan}
    BY RecordedType
  <2>3. plans' \in [Plans -> [thread : Threads, steps : Seq(Seq(Names))] \cup {NoPlan}]
    <3>1. CASE UNCHANGED plans
      BY <3>1 DEF TypeOK
    <3>2. CASE ~UNCHANGED plans
      <4>1. /\ Recorded(t, d) # NoPlan
            /\ plans' = [plans EXCEPT ![IF engine = "local" THEN "last" ELSE t] =
                            [thread |-> t, steps |-> Recorded(t, d)]]
        BY <1>7, <3>2 DEF Finish, SavePlan
      <4>2. [thread |-> t, steps |-> Recorded(t, d)] \in [thread : Threads, steps : Seq(Seq(Names))]
        BY <2>2, <4>1
      <4>. HIDE DEF MeshShape
      <4>3. plans \in [Plans -> [thread : Threads, steps : Seq(Seq(Names))] \cup {NoPlan}]
        BY DEF MeshShape, TypeOK
      <4>. QED BY <4>1, <4>2, <4>3
    <3>. QED BY <3>1, <3>2
  <2>4. answer' \in [Threads -> Seq(StepResults) \cup {NoAnswer}]
    BY <1>7, <2>1 DEF Finish, TypeOK
  <2>5. next' \in [Threads -> Seq(Workers \cup {Supervisor})]
    BY <1>7, NodesType DEF Finish, TypeOK
  <2>6. pc' \in [Threads -> {"new", "running", "interrupted", "complete", "failed"}]
        /\ bypass' \in [Threads -> BOOLEAN] /\ steps' \in [Threads -> Nat]
        /\ recorder' \in [Threads -> Seq(Seq(Names)) \cup {NoPlan}]
    BY <1>7 DEF Finish, EndCall, TypeOK
  <2>7. UNCHANGED <<engine, durable, history, stamp, busy, approved, spent, resumes, crashes>>
    BY <1>7 DEF Finish, countVars
  <2>. QED BY <2>3, <2>4, <2>5, <2>6, <2>7 DEF TypeOK
<1>8. ASSUME NEW t \in Threads, NEW i \in DOMAIN next[t], Work(t, i), UNCHANGED <<engine, durable>>
      PROVE  TypeOK'
  <2>1. next[t] \in Seq(Workers) /\ Len(next[t]) \in Nat /\ Len(next[t]) >= 1
    BY <1>8, NextType DEF Work, ShapeOK
  <2>2. i \in 1 .. Len(next[t])
    BY <2>1, LenProperties
  <2>3. RemoveAt(next[t], i) \in Seq(Workers \cup {Supervisor})
    BY <2>1, <2>2, RemoveAtProperties, NodesType
  <2>4. Done(t, i) \in StepResults
    <3>1. next[t][i] \in Workers
      BY <2>1, <2>2, ElementOfSeq
    <3>2. stamp[t] \in Nat
      BY DEF TypeOK
    <3>. QED BY <3>1, <3>2 DEF Done, StepResults
  <2>5. Add(t, Done(t, i)) \in Seq(StepResults)
    <3>1. history[t] \in Seq(StepResults)
      BY DEF TypeOK
    <3>. QED BY <2>4, <3>1, AppendProperties DEF Add
  <2>6. history' \in [Threads -> Seq(StepResults)]
    BY <1>8, <2>5 DEF Work, TypeOK
  <2>7. next' \in [Threads -> Seq(Workers \cup {Supervisor})]
    BY <1>8, <2>3, NodesType DEF Work, TypeOK
  <2>8. busy' \in [Threads -> BOOLEAN]
    <3>. DEFINE more == Len(next[t]) > 1
    <3>1. busy' = [busy EXCEPT ![t] = more] /\ busy \in [Threads -> BOOLEAN] /\ more \in BOOLEAN
      BY <1>8 DEF Work, TypeOK
    <3>. HIDE DEF more
    <3>. QED BY <3>1
  <2>9. steps' \in [Threads -> Nat]
    <3>1. steps' = [steps EXCEPT ![t] =
                      IF engine = "langgraph" /\ Len(next[t]) = 1 THEN @ - 1 ELSE @]
      BY <1>8 DEF Work
    <3>2. engine = "langgraph" => steps[t] > 0
      BY <1>8 DEF Work, ShapeOK
    <3>. QED BY <3>1, <3>2 DEF TypeOK
  <2>10. UNCHANGED <<engine, durable, pc, stamp, bypass, recorder, plans, answer, approved, spent,
                     resumes, crashes>>
    BY <1>8 DEF Work, planVars, countVars
  <2>. QED BY <2>6, <2>7, <2>8, <2>9, <2>10 DEF TypeOK
<1>9. ASSUME NEW t \in Threads, Run(t), UNCHANGED <<engine, durable>>
      PROVE  TypeOK'
  <2>1. (IF engine = "local" THEN MaxSteps ELSE 3 * MaxSteps) \in Nat
    BY LimitAssumption
  <2>2. <<>> \in Seq(Seq(Names))
    BY EmptySeq
  <2>3. next' \in [Threads -> Seq(Workers \cup {Supervisor})]
    BY <1>9, NodesType DEF Run, Begin, TypeOK
  <2>4. recorder' \in [Threads -> Seq(Seq(Names)) \cup {NoPlan}]
    BY <1>9, <2>2 DEF Run, TypeOK
  <2>5. pc' \in [Threads -> {"new", "running", "interrupted", "complete", "failed"}]
        /\ bypass' \in [Threads -> BOOLEAN] /\ steps' \in [Threads -> Nat]
    BY <1>9, <2>1 DEF Run, Begin, TypeOK
  <2>6. UNCHANGED <<engine, durable, history, stamp, busy, plans, answer, approved, spent, resumes,
                    crashes>>
    BY <1>9 DEF Run, countVars
  <2>. QED BY <2>3, <2>4, <2>5, <2>6 DEF TypeOK
<1>10. ASSUME NEW t \in Threads, ResumeRefused(t), UNCHANGED <<engine, durable>>
      PROVE  TypeOK'
  <2>1. resumes' \in [Threads -> 0 .. MaxResumes]
    BY <1>10, LimitAssumption DEF ResumeRefused, Resumable, TypeOK
  <2>. QED BY <1>10, <2>1 DEF ResumeRefused, TypeOK, meshVars, planVars
<1>11. ASSUME NEW t \in Threads, Approve(t), UNCHANGED <<engine, durable>>
      PROVE  TypeOK'
  <2>1. Asked(t) \in Nat
    BY AskedNat
  <2>2. approved' \in [Threads -> Nat]
    BY <1>11, <2>1 DEF Approve, TypeOK
  <2>3. resumes' \in [Threads -> 0 .. MaxResumes]
    BY <1>11, LimitAssumption DEF Approve, Resumable, TypeOK
  <2>4. next' \in [Threads -> Seq(Workers \cup {Supervisor})]
    BY <1>11 DEF Approve, Begin, TypeOK
  <2>5. pc' \in [Threads -> {"new", "running", "interrupted", "complete", "failed"}]
        /\ bypass' \in [Threads -> BOOLEAN] /\ steps' \in [Threads -> Nat]
        /\ recorder' \in [Threads -> Seq(Seq(Names)) \cup {NoPlan}]
    BY <1>11, LimitAssumption DEF Approve, Begin, TypeOK
  <2>6. UNCHANGED <<engine, durable, history, stamp, busy, plans, answer, spent, crashes>>
    BY <1>11 DEF Approve
  <2>. QED BY <2>2, <2>3, <2>4, <2>5, <2>6 DEF TypeOK
<1>12. ASSUME NEW t \in Threads, Reject(t), UNCHANGED <<engine, durable>>
      PROVE  TypeOK'
  <2>1. history[t] \in Seq(StepResults) /\ Len(history[t]) \in Nat
    BY LenProperties DEF TypeOK
  <2>2. Rejected(t) \in Workers
    BY <1>12, WaitingType DEF Rejected, Reject
  <2>3. [worker |-> Rejected(t), verdict |-> "rejected", step |-> Len(history[t])] \in StepResults
    BY <2>1, <2>2 DEF StepResults
  <2>4. history' \in [Threads -> Seq(StepResults)]
    <3>1. Append(history[t], [worker |-> Rejected(t), verdict |-> "rejected",
                               step |-> Len(history[t])]) \in Seq(StepResults)
      BY <2>1, <2>3, AppendProperties
    <3>. QED BY <1>12, <3>1 DEF Reject, TypeOK
  <2>5. resumes' \in [Threads -> 0 .. MaxResumes]
    BY <1>12, LimitAssumption DEF Reject, Resumable, TypeOK
  <2>6. next' \in [Threads -> Seq(Workers \cup {Supervisor})]
    BY <1>12, NodesType DEF Reject, Begin, TypeOK
  <2>7. pc' \in [Threads -> {"new", "running", "interrupted", "complete", "failed"}]
        /\ bypass' \in [Threads -> BOOLEAN] /\ steps' \in [Threads -> Nat]
        /\ recorder' \in [Threads -> Seq(Seq(Names)) \cup {NoPlan}]
    BY <1>12, LimitAssumption DEF Reject, Begin, TypeOK
  <2>8. UNCHANGED <<engine, durable, stamp, busy, plans, answer, approved, spent, crashes>>
    BY <1>12 DEF Reject
  <2>. QED BY <2>4, <2>5, <2>6, <2>7, <2>8 DEF TypeOK
<1>. QED
  <2>. HIDE DEF MeshShape
  <2>. QED BY <1>0, <1>1, <1>2, <1>3, <1>4, <1>5, <1>6, <1>7, <1>8, <1>9, <1>10, <1>11, <1>12
           DEF Next, Decide, Progress

LEMMA StepShape ==
    ASSUME MeshShape, [Next]_vars, NEW t \in Threads
    PROVE  ShapeOK(t)'
<1>. USE DEF MeshShape
<1>0. ShapeOK(t) /\ TypeOK
  OBVIOUS
<1>1. CASE UNCHANGED vars
  BY <1>0, <1>1, OtherShape DEF vars, meshVars
<1>2. CASE Crash /\ UNCHANGED <<engine, durable>>
  BY <1>0, <1>2, EmptySeq DEF Crash, ShapeOK, TypeOK, Running
<1>3. ASSUME NEW u \in Threads \ {t}, Decide(u) \/ Progress(u)
      PROVE  ShapeOK(t)'
  <2>1. next'[t] = next[t] /\ pc'[t] = pc[t] /\ history'[t] = history[t] /\ busy'[t] = busy[t]
        /\ steps'[t] = steps[t] /\ bypass'[t] = bypass[t] /\ engine' = engine
    BY <1>3 DEF Decide, Progress, Run, ResumeRefused, Approve, Reject, Begin, RouteFails, WorkFails,
        Fail, EndCall, Interrupt, Launch, EndAgain, Route, Finish, Work, TypeOK, meshVars
  <2>. QED BY <2>1, OtherShape
<1>4. CASE Run(t) \/ Reject(t)
  <2>1. ~busy[t] /\ UNCHANGED busy
    BY <1>0, <1>4 DEF Run, Reject, Resumable, ShapeOK, AtWorkers, Running
  <2>2. pc'[t] = "running" /\ next'[t] = <<Supervisor>>
    BY <1>0, <1>4 DEF Run, Reject, Begin, TypeOK
  <2>. QED BY <2>1, <2>2 DEF ShapeOK
<1>5. CASE ResumeRefused(t) /\ engine' = engine
  BY <1>0, <1>5, OtherShape DEF ResumeRefused, meshVars
<1>6. CASE Approve(t)
  <2>1. ~busy[t] /\ UNCHANGED busy
    BY <1>0, <1>6 DEF Approve, Resumable, ShapeOK, AtWorkers, Running
  <2>2. pc'[t] = "running" /\ next'[t] = next[t]
    BY <1>0, <1>6 DEF Approve, Begin, TypeOK
  <2>. QED BY <1>0, <2>1, <2>2 DEF ShapeOK
<1>7. CASE RouteFails(t) \/ WorkFails(t)
  <2>1. ~busy'[t] /\ pc'[t] = "failed" /\ next'[t] = next[t]
    BY <1>0, <1>7 DEF RouteFails, WorkFails, Fail, EndCall, TypeOK
  <2>. QED BY <1>0, <2>1 DEF ShapeOK
<1>8. CASE Interrupt(t)
  <2>1. ~busy[t] /\ UNCHANGED busy
    BY <1>0, <1>8 DEF Interrupt, ShapeOK
  <2>2. pc'[t] = "interrupted" /\ next'[t] = next[t]
    BY <1>0, <1>8 DEF Interrupt, EndCall, TypeOK
  <2>. QED BY <1>0, <2>1, <2>2 DEF ShapeOK
<1>9. CASE EndAgain(t) \/ \E d \in Decisions : Finish(t, d)
  <2>1. ~busy[t] /\ UNCHANGED busy
    BY <1>0, <1>9 DEF EndAgain, Finish, ShapeOK, AtWorkers
  <2>2. pc'[t] = "complete" /\ (next'[t] = next[t] \/ next'[t] = <<>>)
    BY <1>0, <1>9 DEF EndAgain, Finish, EndCall, TypeOK
  <2>. QED BY <1>0, <2>1, <2>2, EmptySeq DEF ShapeOK
<1>10. CASE Launch(t) /\ engine' = engine
  <2>1. busy'[t] /\ UNCHANGED <<engine, pc, history, next, steps, bypass>>
    BY <1>0, <1>10 DEF Launch, TypeOK
  <2>2. AtWorkers(t) /\ ~Held(t) /\ (engine = "langgraph" => steps[t] > 0)
    BY <1>10 DEF Launch
  <2>. QED BY <1>0, <2>1, <2>2 DEF ShapeOK, AtWorkers, Running, Routing, Held, Waiting, IsGated
<1>11. ASSUME NEW d \in Decisions, Route(t, d) PROVE ShapeOK(t)'
  <2>1. ~busy[t] /\ UNCHANGED <<busy, pc>> /\ pc[t] = "running"
    BY <1>0, <1>11 DEF Route, ShapeOK, AtWorkers, Routing, Running
  <2>2. next'[t] = d /\ d \in Seq(Workers)
    BY <1>0, <1>11, DecisionType DEF Route, TypeOK
  <2>. QED BY <2>1, <2>2 DEF ShapeOK
<1>12. ASSUME NEW i \in DOMAIN next[t], Work(t, i), engine' = engine PROVE ShapeOK(t)'
  <2>. DEFINE n == Len(next[t])
              rest == RemoveAt(next[t], i)
  <2>1. next[t] \in Seq(Workers) /\ n \in Nat /\ n >= 1 /\ next[t] # <<Supervisor>>
    BY <1>0, <1>12, NextType DEF Work, ShapeOK, AtWorkers, Routing
  <2>2. i \in 1 .. n /\ DOMAIN next[t] = 1 .. n
    BY <2>1, LenProperties
  <2>3. rest \in Seq(Workers) /\ Len(rest) = n - 1
        /\ \A j \in 1 .. n - 1 : rest[j] = IF j < i THEN next[t][j] ELSE next[t][j + 1]
    BY <2>1, <2>2, RemoveAtProperties
  <2>4. pc' = pc /\ bypass' = bypass /\ Running(t)
    BY <1>12 DEF Work
  <2>. HIDE DEF n, rest
  <2>5. CASE n = 1
    <3>1. next'[t] = <<Supervisor>>
      BY <1>0, <1>12, <2>5 DEF Work, TypeOK, n
    <3>2. busy'[t] = FALSE
      <4>. DEFINE more == n > 1
      <4>1. busy' = [busy EXCEPT ![t] = more]
        BY <1>12, Zenon DEF Work, n
      <4>2. more = FALSE
        BY <2>5
      <4>3. busy \in [Threads -> BOOLEAN]
        BY <1>0 DEF TypeOK
      <4>. HIDE DEF more
      <4>. QED BY <4>1, <4>2, <4>3, Zenon
    <3>. QED BY <2>4, <3>1, <3>2 DEF ShapeOK, Running
  <2>6. CASE n # 1
    <3>1. next'[t] = rest
      BY <1>0, <1>12, <2>6 DEF Work, TypeOK, n, rest
    <3>2. rest # <<>> /\ rest # <<Supervisor>>
      <4>1. Len(rest) >= 1 /\ Len(rest) \in Nat /\ 1 \in 1 .. Len(rest)
        BY <2>1, <2>3, <2>6
      <4>2. rest[1] \in Workers
        BY <2>3, <4>1, ElementOfSeq
      <4>3. Supervisor \notin Workers
        BY WorkersAssumption
      <4>. QED BY <4>1, <4>2, <4>3, EmptySeq
    <3>3. IsGated(rest) => IsGated(next[t])
      <4>1. ASSUME NEW j \in DOMAIN rest, rest[j] \in Gated
            PROVE  \E k \in DOMAIN next[t] : next[t][k] \in Gated
        <5>1. j \in 1 .. n - 1
          BY <2>3, LenProperties
        <5>2. j \in 1 .. n /\ j + 1 \in 1 .. n
          BY <2>1, <5>1
        <5>. QED BY <2>2, <2>3, <4>1, <5>1, <5>2
      <4>. QED BY <4>1 DEF IsGated
    <3>4. ~Held(t) /\ (engine = "langgraph" => steps[t] > 0)
      BY <1>0, <1>12 DEF Work, ShapeOK
    <3>5. steps'[t] = steps[t]
      BY <1>0, <1>12, <2>6 DEF Work, TypeOK, n
    <3>6. ~Held(t)'
      BY <1>12, <2>4, <3>1, <3>3, <3>4 DEF Held, Waiting
    <3>7. AtWorkers(t)'
      BY <2>4, <3>1, <3>2 DEF AtWorkers, Running, Routing
    <3>. QED BY <1>12, <2>3, <2>4, <3>1, <3>4, <3>5, <3>6, <3>7 DEF ShapeOK, Running
  <2>. QED BY <2>5, <2>6
<1>. QED
  <2>. HIDE DEF MeshShape
  <2>. QED BY <1>1, <1>2, <1>3, <1>4, <1>5, <1>6, <1>7, <1>8, <1>9, <1>10, <1>11, <1>12
           DEF Next, Decide, Progress

LEMMA ShapeAlways == Spec => []MeshShape
<1>1. ASSUME MeshShape, [Next]_vars PROVE MeshShape'
  BY <1>1, StepTypes, StepShape DEF MeshShape
<1>. QED BY <1>1, InitShape, PTL DEF Spec

\* Types: a thread's history, its next nodes, its answers and its plans are what
\* the engines of mesh/local.py and mesh/langgraph_engine.py make of them.
THEOREM MeshTypes == Spec => []TypeOK
<1>1. MeshShape => TypeOK
  BY DEF MeshShape
<1>. QED BY <1>1, ShapeAlways, PTL

-----------------------------------------------------------------------------
(* Plans *)

\* The steps that the superstep of t will add to the history.
Ahead(t) == IF AtWorkers(t) THEN [j \in DOMAIN next[t] |-> Done(t, j)] ELSE <<>>
Whole(t) == history[t] \o Ahead(t)

\* What a first run did, with what it is doing, is what it recorded.
Following(p, h) ==
    /\ \A i \in DOMAIN p : p[i] # <<>>
    /\ RunsPlan(p, h)
    /\ engine = "langgraph" => Stamped(p, h) /\ Ordered(h)

FirstRun(t) == Running(t) /\ recorder[t] # NoPlan

FirstRunOK(t) ==
    FirstRun(t) =>
        /\ Following(recorder[t], Whole(t))
        /\ next[t] # <<>>
        /\ AtWorkers(t) => /\ recorder[t] # <<>>
                           /\ stamp[t] = Start(recorder[t], Len(recorder[t]))
                           /\ Len(history[t]) >= stamp[t]

\* A plan that is saved: its thread is at its end, and the sorted history of it, or of
\* a resume that only ends again, is the answer.
SavedOK(t, p) ==
    /\ \/ engine = "local" /\ p # <<>> /\ Len(Last(p)) > 1
       \/ RunsPlan(p, answer[t])
    /\ next[t] = <<>> /\ ~busy[t] /\ pc[t] # "new"
    /\ engine = "local" => ~Running(t)
    /\ engine = "langgraph" /\ (Running(t) \/ history[t] # <<>>) => answer[t] = Result(t)

PlanOK(k) == plans[k] # NoPlan => SavedOK(plans[k].thread, plans[k].steps)

RunsAsRecorded ==
    /\ MeshShape
    /\ \A t \in Threads : FirstRunOK(t)
    /\ \A k \in Plans : PlanOK(k)

LEMMA AheadType ==
    ASSUME MeshShape, NEW t \in Threads
    PROVE  /\ Ahead(t) \in Seq(StepResults) /\ Whole(t) \in Seq(StepResults)
           /\ ~AtWorkers(t) => Whole(t) = history[t]
           /\ AtWorkers(t) => /\ Len(Ahead(t)) = Len(next[t])
                              /\ DOMAIN Ahead(t) = 1 .. Len(next[t])
                              /\ \A j \in 1 .. Len(next[t]) : Ahead(t)[j] = Done(t, j)
<1>1. history[t] \in Seq(StepResults) /\ stamp[t] \in Nat
  BY DEF MeshShape, TypeOK
<1>2. CASE AtWorkers(t)
  <2>1. next[t] \in Seq(Workers) /\ Len(next[t]) \in Nat /\ DOMAIN next[t] = 1 .. Len(next[t])
    BY <1>2, NextType, LenProperties
  <2>2. \A j \in 1 .. Len(next[t]) : Done(t, j) \in StepResults
    BY <1>1, <2>1, ElementOfSeq DEF Done, StepResults
  <2>3. Ahead(t) = [j \in 1 .. Len(next[t]) |-> Done(t, j)]
    BY <1>2, <2>1 DEF Ahead
  <2>4. Ahead(t) \in [1 .. Len(next[t]) -> StepResults]
    BY <2>2, <2>3
  <2>5. Ahead(t) \in Seq(StepResults)
    BY <2>1, <2>4, SeqDef
  <2>6. DOMAIN Ahead(t) = 1 .. Len(next[t])
    BY <2>4
  <2>7. Len(Ahead(t)) = Len(next[t])
    BY <2>1, <2>5, <2>6, LenProperties
  <2>8. Whole(t) \in Seq(StepResults)
    BY <1>1, <2>5, ConcatProperties DEF Whole
  <2>9. \A j \in 1 .. Len(next[t]) : Ahead(t)[j] = Done(t, j)
    BY <2>3
  <2>. QED BY <1>2, <2>5, <2>6, <2>7, <2>8, <2>9
<1>3. CASE ~AtWorkers(t)
  <2>1. Ahead(t) = <<>>
    BY <1>3 DEF Ahead
  <2>. QED BY <1>1, <1>3, <2>1, EmptySeq DEF Whole
<1>. QED BY <1>2, <1>3

LEMMA Joined ==
    ASSUME NEW S, NEW h \in Seq(S), NEW g \in Seq(S)
    PROVE  /\ h \o g \in Seq(S) /\ Len(h \o g) = Len(h) + Len(g)
           /\ DOMAIN (h \o g) = 1 .. Len(h) + Len(g)
           /\ Len(h) \in Nat /\ Len(g) \in Nat
           /\ \A x \in 1 .. Len(h) : (h \o g)[x] = h[x]
           /\ \A j \in 1 .. Len(g) : (h \o g)[Len(h) + j] = g[j]
<1>. DEFINE k == h \o g
            m == Len(h)
<1>1. m \in Nat /\ Len(g) \in Nat /\ k \in Seq(S)
  BY ConcatProperties, LenProperties
<1>2. Len(k) = m + Len(g) /\ \A x \in 1 .. m + Len(g) :
         k[x] = IF x <= m THEN h[x] ELSE g[x - m]
  BY ConcatProperties
<1>3. DOMAIN k = 1 .. m + Len(g)
  BY <1>1, <1>2, LenProperties
<1>. HIDE DEF k, m
<1>4. \A x \in 1 .. m : k[x] = h[x]
  BY <1>1, <1>2
<1>5. ASSUME NEW j \in 1 .. Len(g) PROVE k[m + j] = g[j]
  <2>1. m + j \in 1 .. m + Len(g) /\ ~(m + j <= m) /\ (m + j) - m = j
    BY <1>1
  <2>. QED BY <1>2, <2>1
<1>. QED BY <1>1, <1>2, <1>3, <1>4, <1>5 DEF k, m

\* What is next joins the record whole.
StampedAt(g, s) == \A j \in 1 .. Len(g) : g[j].step = s

LEMMA StampedAppend ==
    ASSUME NEW S, NEW p \in Seq(Seq(S)), NEW d \in Seq(S),
           NEW h \in Seq(StepResults), NEW g \in Seq(StepResults),
           RunsPlan(p, h), Stamped(p, h), Ordered(h), Len(g) = Len(d),
           StampedAt(g, Len(h))
    PROVE  Stamped(Append(p, d), h \o g) /\ Ordered(h \o g)
<1>. DEFINE q == Append(p, d)
            k == h \o g
            m == Len(h)
<1>1. /\ q \in Seq(Seq(S)) /\ Len(q) = Len(p) + 1 /\ DOMAIN q = 1 .. Len(p) + 1
      /\ q[Len(p) + 1] = d /\ \A i \in 1 .. Len(p) : q[i] = p[i]
      /\ Len(p) \in Nat /\ DOMAIN p = 1 .. Len(p)
  BY AppendProperties, LenProperties
<1>2. /\ k \in Seq(StepResults) /\ Len(k) = m + Len(g) /\ DOMAIN k = 1 .. m + Len(g)
      /\ m \in Nat /\ Len(g) \in Nat /\ DOMAIN h = 1 .. m
      /\ \A x \in 1 .. m : k[x] = h[x]
      /\ \A j \in 1 .. Len(g) : k[m + j] = g[j]
  <2>. HIDE DEF q
  <2>1. k \in Seq(StepResults) /\ Len(k) = m + Len(g) /\ DOMAIN k = 1 .. m + Len(g)
        /\ m \in Nat /\ Len(g) \in Nat
    BY Joined
  <2>2. \A x \in 1 .. m : k[x] = h[x]
    BY Joined
  <2>3. \A j \in 1 .. Len(g) : k[m + j] = g[j]
    BY Joined
  <2>4. DOMAIN h = 1 .. m
    BY LenProperties
  <2>. QED BY <2>1, <2>2, <2>3, <2>4
<1>3. m = Len(FlattenSeq(p))
  BY DEF RunsPlan
<1>4. \A i \in 1 .. Len(p) : Start(q, i) = Start(p, i)
  BY <1>1, StartAppend
<1>5. Start(q, Len(p) + 1) = m
  <2>1. Len(p) + 1 \in 1 .. Len(p) + 1
    BY <1>1
  <2>. QED BY <1>3, <2>1, StartAppend, StartProperties
<1>6. ASSUME NEW i \in 1 .. Len(p), NEW j \in DOMAIN p[i]
      PROVE  k[Start(q, i) + j].step = Start(q, i)
  <2>1. p[i] \in Seq(S) /\ DOMAIN p[i] = 1 .. Len(p[i])
    BY ElementOfSeq, LenProperties
  <2>2. Start(p, i) + j \in 1 .. m
    BY <1>3, <1>6, <2>1, InGroup
  <2>3. h[Start(p, i) + j].step = Start(p, i)
    BY <1>1, <1>6 DEF Stamped
  <2>. QED BY <1>2, <1>4, <2>2, <2>3
<1>7. ASSUME NEW j \in DOMAIN d PROVE k[m + j].step = m
  <2>1. j \in 1 .. Len(d)
    BY LenProperties
  <2>. QED BY <1>2, <2>1 DEF StampedAt
<1>8. Stamped(q, k)
  <2>1. ASSUME NEW i \in DOMAIN q, NEW j \in DOMAIN q[i]
        PROVE  k[Start(q, i) + j].step = Start(q, i)
    <3>1. CASE i \in 1 .. Len(p)
      <4>1. q[i] = p[i]
        BY <1>1, <3>1
      <4>. QED BY <1>6, <2>1, <3>1, <4>1
    <3>2. CASE i \notin 1 .. Len(p)
      <4>1. i = Len(p) + 1
        BY <1>1, <3>2
      <4>2. j \in DOMAIN d
        BY <1>1, <2>1, <4>1
      <4>. QED BY <1>5, <1>7, <4>1, <4>2
    <3>. QED BY <3>1, <3>2
  <2>. QED BY <2>1 DEF Stamped
<1>9. \A x \in m + 1 .. m + Len(g) : k[x].step = m
  <2>1. ASSUME NEW x \in m + 1 .. m + Len(g) PROVE k[x].step = m
    <3>1. x - m \in 1 .. Len(g) /\ m + (x - m) = x
      BY <1>2
    <3>. QED BY <1>2, <3>1 DEF StampedAt
  <2>. QED BY <2>1
<1>10. \A x \in 1 .. m : k[x].step < x /\ k[x].step < m /\ k[x].step \in Nat
  <2>1. ASSUME NEW x \in 1 .. m PROVE h[x].step < x /\ h[x].step \in Nat
    <3>1. x \in DOMAIN h /\ h[x] \in StepResults
      BY <1>2, ElementOfSeq
    <3>. QED BY <3>1 DEF Ordered, StepResults
  <2>. HIDE DEF k, m
  <2>2. ASSUME NEW x \in 1 .. m PROVE h[x].step < m
    <3>1. h[x].step < x /\ h[x].step \in Nat /\ x <= m /\ x \in Nat
      BY <1>2, <2>1, <2>2
    <3>. HIDE DEF m
    <3>. QED BY <1>2, <3>1
  <2>. QED BY <1>2, <2>1, <2>2
<1>11. \A x, y \in 1 .. m : x <= y => k[x].step <= k[y].step
  BY <1>2 DEF Ordered
<1>12. Ordered(k)
  <2>. HIDE DEF k, m
  <2>. QED BY <1>2, <1>9, <1>10, <1>11 DEF Ordered
<1>. QED BY <1>8, <1>12

\* Only the steps' stamps matter to the order.
LEMMA StampedSame ==
    ASSUME NEW S, NEW p \in Seq(Seq(S)), NEW h \in Seq(StepResults), NEW k \in Seq(StepResults),
           RunsPlan(p, h), Len(k) = Len(h), \A x \in 1 .. Len(h) : k[x].step = h[x].step,
           Stamped(p, h), Ordered(h)
    PROVE  Stamped(p, k) /\ Ordered(k)
<1>1. DOMAIN h = 1 .. Len(h) /\ DOMAIN k = 1 .. Len(h) /\ DOMAIN p = 1 .. Len(p)
  BY LenProperties
<1>2. Len(h) = Len(FlattenSeq(p))
  BY DEF RunsPlan
<1>3. ASSUME NEW i \in DOMAIN p, NEW j \in DOMAIN p[i]
      PROVE  k[Start(p, i) + j].step = Start(p, i)
  <2>1. p[i] \in Seq(S) /\ DOMAIN p[i] = 1 .. Len(p[i])
    BY <1>1, ElementOfSeq, LenProperties
  <2>2. Start(p, i) + j \in 1 .. Len(h)
    BY <1>1, <1>2, <1>3, <2>1, InGroup
  <2>. QED BY <2>2 DEF Stamped
<1>4. Ordered(k)
  <2>1. \A x \in DOMAIN h : h[x].step < x
    BY DEF Ordered
  <2>2. \A x, y \in DOMAIN h : x <= y => h[x].step <= h[y].step
    BY DEF Ordered
  <2>3. ASSUME NEW x \in DOMAIN k PROVE k[x].step < x
    BY <1>1, <2>1, <2>3
  <2>4. ASSUME NEW x \in DOMAIN k, NEW y \in DOMAIN k, x <= y PROVE k[x].step <= k[y].step
    <3>1. k[x].step = h[x].step /\ k[y].step = h[y].step
      BY <1>1, <2>4
    <3>2. h[x].step <= h[y].step
      BY <1>1, <2>2, <2>4
    <3>. QED BY <3>1, <3>2
  <2>. QED BY <2>3, <2>4 DEF Ordered
<1>. QED BY <1>3, <1>4 DEF Stamped

LEMMA InitRuns == Init => RunsAsRecorded
<1>. SUFFICES ASSUME Init PROVE RunsAsRecorded
  OBVIOUS
<1>1. \A t \in Threads : ~Running(t)
  BY DEF Init, Running
<1>2. \A k \in Plans : plans[k] = NoPlan
  BY DEF Init
<1>. QED BY <1>1, <1>2, InitShape DEF RunsAsRecorded, FirstRunOK, FirstRun, PlanOK

LEMMA OtherRun ==
    ASSUME NEW t \in Threads, FirstRunOK(t), next'[t] = next[t], pc'[t] = pc[t],
           history'[t] = history[t], stamp'[t] = stamp[t], recorder'[t] = recorder[t],
           engine' = engine
    PROVE  FirstRunOK(t)'
<1>1. FirstRun(t)' = FirstRun(t) /\ AtWorkers(t)' = AtWorkers(t)
  BY DEF FirstRun, Running, AtWorkers, Routing
<1>2. Whole(t)' = Whole(t)
  <2>1. \A j : Done(t, j)' = Done(t, j)
    BY DEF Done
  <2>2. Ahead(t)' = Ahead(t)
    BY <1>1, <2>1 DEF Ahead
  <2>. QED BY <2>2 DEF Whole
<1>3. Following(recorder[t], Whole(t))' = Following(recorder[t], Whole(t))
  BY <1>2 DEF Following
<1>. QED BY <1>1, <1>3 DEF FirstRunOK

LEMMA NotFirstRun ==
    ASSUME NEW t \in Threads, pc'[t] # "running" \/ recorder'[t] = NoPlan
    PROVE  FirstRunOK(t)'
BY DEF FirstRunOK, FirstRun, Running

LEMMA RunRuns ==
    ASSUME MeshShape, NEW t \in Threads, Run(t)
    PROVE  FirstRunOK(t)'
<1>1. next'[t] = <<Supervisor>> /\ recorder'[t] = <<>> /\ history'[t] = <<>>
  BY DEF Run, Begin, MeshShape, ShapeOK, TypeOK
<1>2. ~AtWorkers(t)'
  BY <1>1 DEF AtWorkers, Routing
<1>3. Whole(t)' = <<>>
  BY <1>1, <1>2, EmptySeq DEF Whole, Ahead
<1>4. RunsPlan(<<>>, Whole(t)')
  BY <1>3, RunsNothing
<1>5. Stamped(<<>>, <<>>) /\ Ordered(<<>>)
  BY DEF Stamped, Ordered
<1>6. Following(<<>>, Whole(t))'
  BY <1>3, <1>4, <1>5 DEF Following
<1>. QED BY <1>1, <1>2, <1>6 DEF FirstRunOK

AheadOK(t) ==
    /\ Ahead(t) \in Seq(StepResults) /\ Whole(t) \in Seq(StepResults)
    /\ ~AtWorkers(t) => Whole(t) = history[t]
    /\ AtWorkers(t) => /\ Len(Ahead(t)) = Len(next[t])
                       /\ DOMAIN Ahead(t) = 1 .. Len(next[t])
                       /\ \A j \in 1 .. Len(next[t]) : Ahead(t)[j] = Done(t, j)

LEMMA AheadAlways == \A u \in Threads : MeshShape => AheadOK(u)
BY AheadType DEF AheadOK

LEMMA NextAhead == (\A u \in Threads : MeshShape => AheadOK(u))'
BY AheadAlways, PTL

LEMMA RouteRuns ==
    ASSUME MeshShape, NEW t \in Threads, FirstRunOK(t), NEW d \in Decisions, Route(t, d),
           MeshShape', engine' = engine
    PROVE  FirstRunOK(t)'
<1>. SUFFICES ASSUME FirstRun(t)' PROVE FirstRunOK(t)'
  BY DEF FirstRunOK
<1>. DEFINE p == recorder[t]
            h == history[t]
            g == Ahead(t)'
<1>0. /\ pc[t] = "running" /\ next[t] = <<Supervisor>> /\ next'[t] = d /\ stamp'[t] = Len(h)
      /\ history' = history /\ recorder'[t] = Recorded(t, d) /\ FINISH \notin ToSet(d)
  BY DEF Route, Routing, Running, MeshShape, TypeOK
<1>1. /\ d \in Seq(Names) /\ Len(d) \in Nat /\ Len(d) >= 1 /\ d # <<>> /\ d # <<Supervisor>>
      /\ DOMAIN d = 1 .. Len(d)
  BY <1>0, DecisionType, LenProperties
<1>2. p # NoPlan /\ recorder'[t] = Append(p, d)
  <2>1. d # <<FINISH>>
    BY <1>0 DEF ToSet
  <2>2. recorder'[t] # NoPlan
    BY DEF FirstRun
  <2>. QED BY <1>0, <2>1, <2>2 DEF Recorded
<1>3. p \in Seq(Seq(Names)) /\ h \in Seq(StepResults)
  BY <1>2 DEF MeshShape, TypeOK
<1>4. ~AtWorkers(t) /\ Following(p, h)
  <2>1. ~AtWorkers(t) /\ FirstRun(t)
    BY <1>0, <1>2 DEF AtWorkers, Routing, Running, FirstRun
  <2>2. Whole(t) = h
    BY <2>1, AheadType
  <2>. QED BY <2>1, <2>2 DEF FirstRunOK
<1>5. AtWorkers(t)'
  <2>1. Running(t)'
    BY DEF FirstRun
  <2>. QED BY <1>0, <1>1, <2>1 DEF AtWorkers, Routing
<1>6. /\ g \in Seq(StepResults) /\ Len(g) = Len(d)
      /\ \A j \in 1 .. Len(d) : g[j] = Done(t, j)'
      /\ Whole(t)' = h \o g
  <2>1. /\ Ahead(t)' \in Seq(StepResults) /\ Len(Ahead(t)') = Len(next'[t])
        /\ \A j \in 1 .. Len(next'[t]) : Ahead(t)'[j] = Done(t, j)'
    BY <1>5, NextAhead DEF AheadOK
  <2>. QED BY <1>0, <2>1 DEF Whole
<1>7. \A j \in 1 .. Len(d) : g[j].worker = d[j]
                             /\ (engine = "langgraph" => g[j].step = Len(h))
  <2>1. \A j : Done(t, j)' = [worker |-> d[j], verdict |-> "ran",
                              step |-> IF engine = "local" THEN 0 ELSE Len(h)]
    BY <1>0 DEF Done
  <2>. HIDE DEF g, h
  <2>2. engine = "langgraph" => engine # "local"
    OBVIOUS
  <2>. QED BY <1>6, <2>1, <2>2
<1>. HIDE DEF g, h, p
<1>8. RunsPlan(Append(p, d), h \o g)
  BY <1>1, <1>3, <1>4, <1>6, <1>7, RunsAppend DEF Following
<1>9. ASSUME engine = "langgraph" PROVE Stamped(Append(p, d), h \o g) /\ Ordered(h \o g)
  <2>1. StampedAt(g, Len(h))
    BY <1>6, <1>7, <1>9 DEF StampedAt
  <2>2. RunsPlan(p, h) /\ Stamped(p, h) /\ Ordered(h)
    BY <1>4, <1>9 DEF Following
  <2>. QED BY <1>1, <1>3, <1>6, <2>1, <2>2, StampedAppend
<1>10. /\ DOMAIN Append(p, d) = 1 .. Len(p) + 1 /\ Append(p, d)[Len(p) + 1] = d
       /\ \A i \in 1 .. Len(p) : Append(p, d)[i] = p[i]
       /\ Len(Append(p, d)) = Len(p) + 1 /\ Append(p, d) # <<>>
       /\ Len(p) \in Nat /\ DOMAIN p = 1 .. Len(p)
  <2>1. Append(p, d) \in Seq(Seq(Names)) /\ Len(Append(p, d)) = Len(p) + 1
        /\ Append(p, d)[Len(p) + 1] = d
        /\ \A i \in 1 .. Len(p) : Append(p, d)[i] = p[i]
    BY <1>1, <1>3, AppendProperties
  <2>2. Len(p) \in Nat /\ DOMAIN p = 1 .. Len(p)
    BY <1>3, LenProperties
  <2>3. DOMAIN Append(p, d) = 1 .. Len(p) + 1
    BY <2>1, LenProperties
  <2>4. Append(p, d) # <<>>
    BY <2>1, <2>2, EmptySeq
  <2>. QED BY <2>1, <2>2, <2>3, <2>4
<1>11. \A i \in DOMAIN Append(p, d) : Append(p, d)[i] # <<>>
  <2>1. ASSUME NEW i \in 1 .. Len(p) + 1 PROVE Append(p, d)[i] # <<>>
    <3>1. CASE i = Len(p) + 1
      BY <1>1, <1>10, <3>1
    <3>2. CASE i # Len(p) + 1
      <4>1. i \in 1 .. Len(p)
        BY <1>10, <3>2
      <4>. QED BY <1>4, <1>10, <4>1 DEF Following
    <3>. QED BY <3>1, <3>2
  <2>. QED BY <1>10, <2>1
<1>12. Following(recorder[t], Whole(t))'
  BY <1>2, <1>6, <1>8, <1>9, <1>11 DEF Following, p
<1>13. Len(h) = Start(Append(p, d), Len(p) + 1)
  <2>1. Len(p) + 1 \in 1 .. Len(p) + 1
    BY <1>10
  <2>2. Start(Append(p, d), Len(p) + 1) = Start(p, Len(p) + 1)
    BY <1>1, <1>3, <2>1, StartAppend
  <2>3. Start(p, Len(p) + 1) = Len(FlattenSeq(p))
    BY <1>3, StartProperties
  <2>. QED BY <1>4, <2>2, <2>3 DEF Following, RunsPlan
<1>14. Len(h) \in Nat
  BY <1>3, LenProperties
<1>. QED BY <1>0, <1>1, <1>2, <1>10, <1>12, <1>13, <1>14 DEF FirstRunOK, p, h

LEMMA RotatedSteps ==
    ASSUME NEW h \in Seq(StepResults), NEW a \in Seq(StepResults), NEW i \in 1 .. Len(a),
           NEW s, StampedAt(a, s)
    PROVE  \A x \in 1 .. Len(h \o a) : Rotated(h, a, i)[x].step = (h \o a)[x].step
<1>. DEFINE k == h \o a
            m == Len(h)
            n == Len(a)
<1>1. m \in Nat /\ n \in Nat /\ Len(k) = m + n /\ i \in 1 .. n
      /\ \A j \in 1 .. n : k[m + j] = a[j]
  BY Joined
<1>2. \A x \in 1 .. m + n : Rotated(h, a, i)[x] = k[Rotation(m, i, x)]
  <2>1. Rotates(h, a, i)
    BY RotatedIs
  <2>. QED BY <2>1 DEF Rotates
<1>3. \A x \in m + 1 .. m + n : k[x].step = s
  <2>1. ASSUME NEW x \in m + 1 .. m + n PROVE k[x].step = s
    <3>1. x - m \in 1 .. n /\ m + (x - m) = x
      BY <1>1
    <3>2. a[x - m].step = s
      BY <3>1 DEF StampedAt
    <3>. QED BY <1>1, <3>1, <3>2
  <2>. QED BY <2>1
<1>. HIDE DEF k, m, n
<1>4. ASSUME NEW x \in 1 .. m + n PROVE k[Rotation(m, i, x)].step = k[x].step
  <2>1. CASE x <= m \/ x > m + i
    BY <2>1 DEF Rotation
  <2>2. CASE ~(x <= m \/ x > m + i)
    <3>1. x \in m + 1 .. m + n /\ Rotation(m, i, x) \in m + 1 .. m + n
      BY <1>1, <2>2 DEF Rotation
    <3>. QED BY <1>3, <3>1
  <2>. QED BY <2>1, <2>2
<1>. QED BY <1>1, <1>2, <1>4 DEF k

LEMMA WorkWhole ==
    ASSUME MeshShape, NEW t \in Threads, NEW i \in DOMAIN next[t], Work(t, i),
           MeshShape', engine' = engine
    PROVE  /\ AtWorkers(t) /\ i \in 1 .. Len(Ahead(t))
           /\ history'[t] = Append(history[t], Ahead(t)[i])
           /\ Whole(t)' = Rotated(history[t], Ahead(t), i)
<1>. DEFINE q == next[t]
            n == Len(q)
            h == history[t]
            a == Ahead(t)
<1>0. /\ AtWorkers(t) /\ pc' = pc /\ recorder' = recorder /\ stamp' = stamp
      /\ h \in Seq(StepResults) /\ Running(t)
  BY DEF MeshShape, TypeOK, ShapeOK, Work, planVars
<1>1. /\ a \in Seq(StepResults) /\ Len(a) = n /\ DOMAIN a = 1 .. n
      /\ \A j \in 1 .. n : a[j] = Done(t, j)
  BY <1>0, AheadType
<1>2. q \in Seq(Workers) /\ n \in Nat /\ n >= 1 /\ DOMAIN q = 1 .. n /\ i \in 1 .. n
  BY <1>0, NextType, LenProperties
<1>3. history'[t] = Append(h, a[i])
  <2>1. history'[t] = Append(h, Done(t, i))
    BY DEF Work, Add, MeshShape, TypeOK
  <2>. QED BY <1>1, <1>2, <2>1
<1>4. /\ RemoveAt(a, i) \in Seq(StepResults) /\ Len(RemoveAt(a, i)) = n - 1
      /\ \A j \in 1 .. n - 1 : RemoveAt(a, i)[j] = IF j < i THEN a[j] ELSE a[j + 1]
  BY <1>1, <1>2, RemoveAtProperties
<1>5. Append(h, a[i]) \in Seq(StepResults)
  <2>1. a[i] \in StepResults
    BY <1>1, <1>2, ElementOfSeq
  <2>. QED BY <1>0, <2>1, AppendProperties
<1>6. CASE n = 1
  <2>1. next'[t] = <<Supervisor>>
    BY <1>6 DEF Work, MeshShape, TypeOK
  <2>2. ~AtWorkers(t)'
    BY <2>1 DEF AtWorkers, Routing
  <2>3. Whole(t)' = history'[t]
    BY <2>2, NextAhead DEF AheadOK
  <2>4. RemoveAt(a, i) = <<>>
    BY <1>4, <1>6, EmptySeq
  <2>. QED BY <1>0, <1>1, <1>2, <1>3, <1>5, <2>3, <2>4, EmptySeq DEF Rotated
<1>7. CASE n # 1
  <2>0. /\ RemoveAt(q, i) \in Seq(Workers) /\ Len(RemoveAt(q, i)) = n - 1
        /\ \A j \in 1 .. n - 1 : RemoveAt(q, i)[j] = IF j < i THEN q[j] ELSE q[j + 1]
    BY <1>2, RemoveAtProperties
  <2>1. next'[t] = RemoveAt(q, i)
    BY <1>7 DEF Work, MeshShape, TypeOK
  <2>2. AtWorkers(t)'
    <3>1. n - 1 >= 1 /\ n - 1 \in Nat /\ 1 \in 1 .. n - 1
      <4>. HIDE DEF n
      <4>. QED BY <1>2, <1>7
    <3>2. RemoveAt(q, i)[1] \in Workers
      BY <2>0, <3>1, ElementOfSeq
    <3>3. RemoveAt(q, i) # <<>> /\ RemoveAt(q, i) # <<Supervisor>>
      <4>1. Supervisor \notin Workers
        BY WorkersAssumption
      <4>. HIDE DEF n, q
      <4>2. Len(RemoveAt(q, i)) # 0
        BY <2>0, <3>1
      <4>. DEFINE r == RemoveAt(q, i)
      <4>3. r[1] # Supervisor /\ r \in Seq(Workers) /\ Len(r) # 0
        BY <2>0, <3>2, <4>1, <4>2
      <4>. HIDE DEF r
      <4>4. r # <<>>
        BY <4>3, EmptySeq
      <4>5. r # <<Supervisor>>
        BY <4>3
      <4>. QED BY <4>4, <4>5 DEF r
    <3>. QED BY <1>0, <2>1, <3>3 DEF AtWorkers, Routing, Running
  <2>3. /\ Ahead(t)' \in Seq(StepResults) /\ Len(Ahead(t)') = n - 1
        /\ \A j \in 1 .. n - 1 : Ahead(t)'[j] = Done(t, j)'
    BY <2>0, <2>1, <2>2, NextAhead DEF AheadOK
  <2>4. \A j \in 1 .. n - 1 : Done(t, j)' = IF j < i THEN Done(t, j) ELSE Done(t, j + 1)
    BY <1>0, <2>0, <2>1 DEF Done
  <2>5. \A j \in 1 .. n - 1 : Ahead(t)'[j] = RemoveAt(a, i)[j]
    <3>1. ASSUME NEW j \in 1 .. n - 1 PROVE Ahead(t)'[j] = RemoveAt(a, i)[j]
      <4>1. j \in 1 .. n /\ j + 1 \in 1 .. n
        BY <1>2
      <4>2. a[j] = Done(t, j) /\ a[j + 1] = Done(t, j + 1)
        BY <1>1, <4>1
      <4>3. Ahead(t)'[j] = IF j < i THEN Done(t, j) ELSE Done(t, j + 1)
        BY <2>3, <2>4
      <4>4. RemoveAt(a, i)[j] = IF j < i THEN a[j] ELSE a[j + 1]
        BY <1>4
      <4>. QED BY <4>2, <4>3, <4>4
    <3>. QED BY <3>1
  <2>6. Ahead(t)' = RemoveAt(a, i)
    BY <1>4, <2>3, <2>5, SeqEqual
  <2>7. Whole(t)' = history'[t] \o Ahead(t)'
    BY DEF Whole
  <2>. QED BY <1>0, <1>1, <1>2, <1>3, <2>6, <2>7 DEF Rotated
<1>. QED BY <1>6, <1>7

LEMMA WorkRuns ==
    ASSUME MeshShape, NEW t \in Threads, FirstRunOK(t), NEW i \in DOMAIN next[t], Work(t, i),
           MeshShape', engine' = engine
    PROVE  FirstRunOK(t)'
<1>. SUFFICES ASSUME FirstRun(t)' PROVE FirstRunOK(t)'
  BY DEF FirstRunOK
<1>. DEFINE p == recorder[t]
            h == history[t]
            a == Ahead(t)
            k == Rotated(h, a, i)
<1>0. /\ FirstRun(t) /\ AtWorkers(t) /\ recorder' = recorder /\ stamp' = stamp
      /\ h \in Seq(StepResults) /\ p \in Seq(Seq(Names)) /\ p # <<>> /\ stamp[t] \in Nat
      /\ i \in 1 .. Len(a) /\ Whole(t)' = k /\ history'[t] = Append(h, a[i])
      /\ stamp[t] = Start(p, Len(p)) /\ Len(h) >= stamp[t]
  <2>1. FirstRun(t) /\ recorder' = recorder /\ stamp' = stamp
    BY DEF FirstRun, Running, Work, planVars
  <2>2. AtWorkers(t) /\ i \in 1 .. Len(a) /\ Whole(t)' = k /\ history'[t] = Append(h, a[i])
    BY WorkWhole
  <2>3. h \in Seq(StepResults) /\ p \in Seq(Seq(Names)) /\ stamp[t] \in Nat
    BY <2>1 DEF MeshShape, TypeOK, FirstRun
  <2>. QED BY <2>1, <2>2, <2>3 DEF FirstRunOK
<1>1. a \in Seq(StepResults) /\ Whole(t) = h \o a /\ Following(p, h \o a)
  BY <1>0, AheadType DEF Whole, FirstRunOK
<1>2. \A j \in 1 .. Len(a) : a[j] = Done(t, j)
  BY <1>0, AheadType
<1>3. StampedAt(a, IF engine = "local" THEN 0 ELSE stamp[t])
  <2>1. \A j : Done(t, j).step = IF engine = "local" THEN 0 ELSE stamp[t]
    BY DEF Done
  <2>. HIDE DEF a
  <2>. QED BY <1>2, <2>1 DEF StampedAt
<1>. HIDE DEF p, h, a
<1>4. RunsPlan(p, k)
  <2>1. Start(p, Len(p)) <= Len(h)
    BY <1>0
  <2>. QED BY <1>0, <1>1, <2>1, RunsRotated DEF Following
<1>5. ASSUME engine = "langgraph" PROVE Stamped(p, k) /\ Ordered(k)
  <2>1. \A x \in 1 .. Len(h \o a) : k[x].step = (h \o a)[x].step
    BY <1>0, <1>1, <1>3, RotatedSteps
  <2>2. k \in Seq(StepResults) /\ h \o a \in Seq(StepResults) /\ Len(k) = Len(h \o a)
    BY <1>0, <1>1, RotatedIs
  <2>3. RunsPlan(p, h \o a) /\ Stamped(p, h \o a) /\ Ordered(h \o a)
    BY <1>1, <1>5 DEF Following
  <2>. HIDE DEF k
  <2>. QED BY <1>0, <2>1, <2>2, <2>3, StampedSame
<1>6. Following(recorder[t], Whole(t))'
  BY <1>0, <1>1, <1>4, <1>5 DEF Following, p
<1>7. next'[t] # <<>>
  <2>1. CASE Len(next[t]) = 1
    BY <2>1 DEF Work, MeshShape, TypeOK
  <2>2. CASE Len(next[t]) # 1
    <3>1. next[t] \in Seq(Workers) /\ Len(next[t]) \in Nat /\ Len(next[t]) >= 1
          /\ i \in 1 .. Len(next[t])
      BY <1>0, NextType, LenProperties
    <3>2. Len(RemoveAt(next[t], i)) = Len(next[t]) - 1 /\ RemoveAt(next[t], i) \in Seq(Workers)
      BY <3>1, RemoveAtProperties
    <3>3. next'[t] = RemoveAt(next[t], i)
      BY <2>2 DEF Work, MeshShape, TypeOK
    <3>4. Len(RemoveAt(next[t], i)) # 0
      <4>. DEFINE m == Len(next[t])
      <4>1. Len(RemoveAt(next[t], i)) = m - 1 /\ m \in Nat /\ m # 1
        BY <2>2, <3>1, <3>2
      <4>. HIDE DEF m
      <4>. QED BY <4>1
    <3>. QED BY <3>2, <3>3, <3>4, EmptySeq
  <2>. QED BY <2>1, <2>2
<1>8. Len(history'[t]) >= stamp[t]
  <2>1. a[i] \in StepResults
    BY <1>0, <1>1, ElementOfSeq
  <2>2. Len(Append(h, a[i])) = Len(h) + 1 /\ Len(h) \in Nat
    BY <1>0, <2>1, AppendProperties, LenProperties
  <2>. QED BY <1>0, <2>2
<1>. QED BY <1>0, <1>6, <1>7, <1>8 DEF FirstRunOK, p

\* A thread's step leaves the other threads as they are.
Same(u) ==
    /\ next'[u] = next[u] /\ pc'[u] = pc[u] /\ busy'[u] = busy[u] /\ stamp'[u] = stamp[u]
    /\ history'[u] = history[u] /\ answer'[u] = answer[u] /\ recorder'[u] = recorder[u]

LEMMA OthersSame ==
    ASSUME MeshShape, NEW u \in Threads, NEW t \in Threads \ {u}, Decide(t) \/ Progress(t)
    PROVE  Same(u) /\ engine' = engine
<1>0. TypeOK /\ t # u /\ engine' = engine
  BY DEF MeshShape, Decide, Progress
<1>1. CASE Run(t)
  BY <1>0, <1>1 DEF Run, Begin, TypeOK, Same
<1>2. CASE ResumeRefused(t)
  BY <1>0, <1>2 DEF ResumeRefused, meshVars, planVars, Same
<1>3. CASE Approve(t)
  BY <1>0, <1>3 DEF Approve, Begin, TypeOK, Same
<1>4. CASE Reject(t)
  BY <1>0, <1>4 DEF Reject, Begin, TypeOK, Same
<1>5. CASE RouteFails(t) \/ WorkFails(t)
  BY <1>0, <1>5 DEF RouteFails, WorkFails, Fail, EndCall, TypeOK, Same
<1>6. CASE Interrupt(t) \/ EndAgain(t)
  BY <1>0, <1>6 DEF Interrupt, EndAgain, EndCall, TypeOK, Same
<1>7. CASE Launch(t)
  BY <1>0, <1>7 DEF Launch, TypeOK, planVars, Same
<1>8. ASSUME NEW d \in Decisions, Route(t, d) PROVE Same(u)
  BY <1>0, <1>8 DEF Route, TypeOK, Same
<1>9. ASSUME NEW d \in Decisions, Finish(t, d) PROVE Same(u)
  BY <1>0, <1>9 DEF Finish, EndCall, TypeOK, Same
<1>10. ASSUME NEW i \in DOMAIN next[t], Work(t, i) PROVE Same(u)
  <2>1. pc' = pc /\ stamp' = stamp /\ answer' = answer /\ recorder' = recorder
    BY <1>10 DEF Work, planVars
  <2>2. history'[u] = history[u] /\ next'[u] = next[u]
    BY <1>0, <1>10 DEF Work, TypeOK
  <2>3. busy'[u] = busy[u]
    <3>. DEFINE more == Len(next[t]) > 1
    <3>1. busy' = [busy EXCEPT ![t] = more]
      BY <1>10 DEF Work
    <3>. HIDE DEF more
    <3>. QED BY <1>0, <3>1, Zenon DEF TypeOK
  <2>. QED BY <2>1, <2>2, <2>3 DEF Same
<1>. QED BY <1>0, <1>1, <1>2, <1>3, <1>4, <1>5, <1>6, <1>7, <1>8, <1>9, <1>10 DEF Decide, Progress

LEMMA OtherSaved ==
    ASSUME NEW u \in Threads, NEW p, SavedOK(u, p), next'[u] = next[u], pc'[u] = pc[u],
           busy'[u] = busy[u], history'[u] = history[u], answer'[u] = answer[u],
           engine' = engine
    PROVE  SavedOK(u, p)'
BY DEF SavedOK, Running, Result

\* A finished thread stands still, but for a resume that answers the same again.
LEMMA StepSaved ==
    ASSUME MeshShape, NEW t \in Threads, NEW p, SavedOK(t, p), Decide(t) \/ Progress(t)
    PROVE  SavedOK(t, p)' /\ plans' = plans
<1>0. /\ engine' = engine /\ next[t] = <<>> /\ ~busy[t] /\ pc[t] # "new" /\ ~AtWorkers(t)
      /\ ~Routing(t) /\ ~Waiting(t)
  BY DEF SavedOK, Decide, Progress, AtWorkers, Routing, Waiting, IsGated
<1>1. ~Run(t) /\ ~Reject(t) /\ ~RouteFails(t) /\ ~Interrupt(t) /\ ~Launch(t) /\ ~WorkFails(t)
      /\ (\A d \in Decisions : ~Route(t, d) /\ ~Finish(t, d))
      /\ \A i \in DOMAIN next[t] : ~Work(t, i)
  BY <1>0 DEF Run, Reject, RouteFails, Interrupt, Launch, WorkFails, Route, Finish, Work
<1>2. CASE ResumeRefused(t)
  BY <1>0, <1>2, OtherSaved DEF ResumeRefused, meshVars, planVars
<1>3. CASE Approve(t)
  <2>1. engine = "langgraph" /\ history[t] # <<>> /\ plans' = plans
    BY <1>0, <1>3 DEF Approve, Known
  <2>2. next'[t] = <<>> /\ ~busy'[t] /\ pc'[t] = "running" /\ answer' = answer
        /\ history' = history
    BY <1>0, <1>3 DEF Approve, Begin, MeshShape, TypeOK
  <2>. QED BY <1>0, <2>1, <2>2 DEF SavedOK, Running, Result
<1>4. CASE EndAgain(t)
  <2>1. Running(t) /\ answer'[t] = Result(t)
    BY <1>4 DEF EndAgain, MeshShape, TypeOK
  <2>2. next' = next /\ busy' = busy /\ pc'[t] = "complete" /\ history' = history
        /\ plans' = plans
    BY <1>4 DEF EndAgain, EndCall, MeshShape, TypeOK
  <2>3. engine = "langgraph" /\ answer'[t] = answer[t]
    BY <2>1 DEF SavedOK, MeshShape, TypeOK
  <2>. QED BY <1>0, <2>1, <2>2, <2>3 DEF SavedOK, Running, Result
<1>. QED BY <1>1, <1>2, <1>3, <1>4 DEF Decide, Progress

LEMMA CrashSaved ==
    ASSUME NEW t \in Threads, NEW p, SavedOK(t, p), Crash, engine' = engine
    PROVE  SavedOK(t, p)' /\ plans' = plans
<1>1. ~busy'[t] /\ next'[t] = <<>> /\ pc'[t] # "new" /\ pc'[t] # "running" /\ answer' = answer
      /\ plans' = plans
  BY DEF Crash, SavedOK, Running
<1>2. history'[t] = history[t] \/ history'[t] = <<>>
  BY DEF Crash
<1>. QED BY <1>1, <1>2 DEF SavedOK, Running, Result

\* FINISH saves what was recorded.
LEMMA FinishSaved ==
    ASSUME MeshShape, NEW t \in Threads, FirstRunOK(t), NEW d \in Decisions, Finish(t, d),
           engine' = engine, NEW p, p = Recorded(t, d), p # NoPlan
    PROVE  SavedOK(t, p)'
<1>. DEFINE r == recorder[t]
            h == history[t]
<1>0. /\ pc'[t] = "complete" /\ next'[t] = <<>> /\ ~busy'[t] /\ history' = history
      /\ answer'[t] = Result(t) /\ Running(t) /\ ~AtWorkers(t)
      /\ d = <<FINISH>> \/ (engine = "local" /\ Len(d) > 1)
  BY DEF Finish, EndCall, Routing, AtWorkers, MeshShape, TypeOK, ShapeOK
<1>1. r # NoPlan /\ r \in Seq(Seq(Names)) /\ h \in Seq(StepResults)
  BY DEF Recorded, MeshShape, TypeOK
<1>2. Following(r, h)
  BY <1>0, <1>1, AheadType DEF FirstRunOK, FirstRun
<1>3. (engine = "local" /\ p # <<>> /\ Len(Last(p)) > 1) \/ RunsPlan(p, Result(t))
  <2>1. CASE d = <<FINISH>>
    <3>1. p = r
      BY <2>1 DEF Recorded
    <3>2. CASE engine = "local"
      BY <1>2, <3>1, <3>2 DEF Following, Result
    <3>3. CASE engine = "langgraph"
      <4>1. Result(t) = Sorted(h)
        BY <3>3 DEF Result
      <4>. HIDE DEF r, h
      <4>2. RunsPlan(r, h) /\ Stamped(r, h) /\ Ordered(h) /\ \A i \in DOMAIN r : r[i] # <<>>
        BY <1>2, <3>3 DEF Following
      <4>3. RunsPlan(r, Sorted(h))
        BY <1>1, <4>2, RunsSorted
      <4>. QED BY <3>1, <4>1, <4>3
    <3>. QED BY <3>2, <3>3 DEF MeshShape, TypeOK
  <2>2. CASE d # <<FINISH>>
    <3>1. p = Append(r, d) /\ engine = "local" /\ Len(d) > 1
      BY <1>0, <1>1, <2>2 DEF Recorded
    <3>2. d \in Seq(Names)
      BY DecisionType
    <3>3. Append(r, d) \in Seq(Seq(Names)) /\ Len(Append(r, d)) = Len(r) + 1
          /\ Append(r, d)[Len(r) + 1] = d /\ Len(r) \in Nat
      BY <1>1, <3>2, AppendProperties, LenProperties
    <3>. HIDE DEF r
    <3>4. Append(r, d) # <<>>
      <4>1. Len(Append(r, d)) # 0
        <5>. QED BY <3>3
      <4>. QED BY <4>1, EmptySeq
    <3>5. Last(p) = d
      BY <3>1, <3>3 DEF Last
    <3>. QED BY <3>1, <3>4, <3>5
  <2>. QED BY <2>1, <2>2
<1>. QED BY <1>0, <1>3 DEF SavedOK, Running, Result

LEMMA StepRuns ==
    ASSUME RunsAsRecorded, [Next]_vars PROVE RunsAsRecorded'
<1>. USE DEF RunsAsRecorded
<1>0. MeshShape /\ MeshShape'
  <2>1. TypeOK' /\ \A t \in Threads : ShapeOK(t)'
    BY StepTypes, StepShape
  <2>. QED BY <2>1 DEF MeshShape
<1>1. ASSUME NEW t \in Threads PROVE FirstRunOK(t)'
  <2>0. FirstRunOK(t)
    OBVIOUS
  <2>1. CASE UNCHANGED vars
    BY <2>0, <2>1, OtherRun DEF vars, meshVars, planVars
  <2>2. CASE Crash
    <3>1. recorder'[t] = NoPlan
      BY <2>2 DEF Crash
    <3>. QED BY <3>1, NotFirstRun
  <2>3. ASSUME NEW u \in Threads \ {t}, Decide(u) \/ Progress(u) PROVE FirstRunOK(t)'
    <3>1. /\ next'[t] = next[t] /\ pc'[t] = pc[t] /\ history'[t] = history[t]
          /\ stamp'[t] = stamp[t] /\ recorder'[t] = recorder[t] /\ engine' = engine
      BY <1>0, <2>3, OthersSame DEF Same
    <3>. QED BY <2>0, <3>1, OtherRun
  <2>4. CASE Run(t)
    BY <1>0, <2>4, RunRuns
  <2>5. CASE ResumeRefused(t) /\ engine' = engine
    BY <2>0, <2>5, OtherRun DEF ResumeRefused, meshVars, planVars
  <2>6. CASE Approve(t) \/ Reject(t)
    <3>1. recorder'[t] = NoPlan
      BY <1>0, <2>6 DEF Approve, Reject, MeshShape, TypeOK
    <3>. QED BY <3>1, NotFirstRun
  <2>7. CASE \/ RouteFails(t) \/ WorkFails(t) \/ Interrupt(t) \/ EndAgain(t)
             \/ \E d \in Decisions : Finish(t, d)
    <3>1. recorder'[t] = NoPlan
      BY <1>0, <2>7 DEF RouteFails, WorkFails, Fail, Interrupt, EndAgain, Finish, EndCall,
         MeshShape, TypeOK
    <3>. QED BY <3>1, NotFirstRun
  <2>8. CASE Launch(t) /\ engine' = engine
    BY <2>0, <2>8, OtherRun DEF Launch, planVars
  <2>9. ASSUME NEW d \in Decisions, Route(t, d), engine' = engine PROVE FirstRunOK(t)'
    BY <1>0, <2>0, <2>9, RouteRuns
  <2>10. ASSUME NEW i \in DOMAIN next[t], Work(t, i), engine' = engine PROVE FirstRunOK(t)'
    BY <1>0, <2>0, <2>10, WorkRuns
  <2>. QED
    <3>. HIDE DEF RunsAsRecorded
    <3>. QED BY <2>1, <2>2, <2>3, <2>4, <2>5, <2>6, <2>7, <2>8, <2>9, <2>10 DEF Next, Decide, Progress
<1>2. ASSUME NEW k \in Plans PROVE PlanOK(k)'
  <2>0. PlanOK(k) /\ plans[k] \in [thread : Threads, steps : Seq(Seq(Names))] \cup {NoPlan}
    BY <1>0 DEF MeshShape, TypeOK
  <2>1. CASE plans'[k] = plans[k]
    <3>. SUFFICES ASSUME plans[k] # NoPlan PROVE PlanOK(k)'
      BY <2>1 DEF PlanOK
    <3>1. PICK u \in Threads : u = plans[k].thread
      BY <2>0
    <3>2. PICK p : p = plans[k].steps
      OBVIOUS
    <3>3. SavedOK(u, p)
      BY <2>0, <3>1, <3>2 DEF PlanOK
    <3>4. SavedOK(u, p)'
      <4>1. CASE UNCHANGED vars
        BY <3>3, <4>1, OtherSaved DEF vars, meshVars, planVars
      <4>2. CASE Crash /\ UNCHANGED <<engine, durable>>
        BY <3>3, <4>2, CrashSaved
      <4>3. ASSUME NEW t \in Threads \ {u}, Decide(t) \/ Progress(t) PROVE SavedOK(u, p)'
        <5>1. /\ next'[u] = next[u] /\ pc'[u] = pc[u] /\ busy'[u] = busy[u]
              /\ history'[u] = history[u] /\ answer'[u] = answer[u] /\ engine' = engine
          BY <1>0, <4>3, OthersSame DEF Same
        <5>. QED BY <3>3, <5>1, OtherSaved
      <4>4. CASE Decide(u) \/ Progress(u)
        BY <1>0, <3>3, <4>4, StepSaved
      <4>. QED
        <5>. HIDE DEF RunsAsRecorded
        <5>. QED BY <4>1, <4>2, <4>3, <4>4 DEF Next
    <3>5. plans'[k].thread = u /\ plans'[k].steps = p
      BY <2>1, <3>1, <3>2
    <3>. QED BY <3>4, <3>5 DEF PlanOK, SavedOK, Running, Result
  <2>2. CASE plans'[k] # plans[k]
    <3>1. PICK t \in Threads, d \in Decisions :
             Finish(t, d) /\ engine' = engine
      <4>. HIDE DEF RunsAsRecorded
      <4>. QED BY <2>2 DEF Next, Crash, Decide, Progress, Run, ResumeRefused, Approve, Reject,
             RouteFails, WorkFails, Fail, Interrupt, Launch, EndAgain, Route, Work, planVars,
             vars
    <3>2. Recorded(t, d) # NoPlan /\ plans'[k] = [thread |-> t, steps |-> Recorded(t, d)]
      BY <1>0, <2>2, <3>1 DEF Finish, SavePlan, MeshShape, TypeOK
    <3>3. PICK p : p = Recorded(t, d)
      OBVIOUS
    <3>4. SavedOK(t, p)'
      BY <1>0, <3>1, <3>2, <3>3, FinishSaved
    <3>5. plans'[k].thread = t /\ plans'[k].steps = p
      BY <3>2, <3>3
    <3>. QED BY <3>4, <3>5 DEF PlanOK, SavedOK, Running, Result
  <2>. QED BY <2>1, <2>2
<1>. QED BY <1>0, <1>1, <1>2

\* A saved plan is what ran: the groups that PlanRecorder recorded, in order, are the
\* history that was returned, sorted (mesh/plan.py; mesh/langgraph_engine.py, _wrap
\* and _snapshot; mesh/base.py, _save_plan).
THEOREM MeshPlan == Spec => []PlanIsWhatRan
<1>1. RunsAsRecorded => PlanIsWhatRan
  BY DEF RunsAsRecorded, PlanOK, SavedOK, PlanIsWhatRan
<1>2. ASSUME RunsAsRecorded, [Next]_vars PROVE RunsAsRecorded'
  BY <1>2, StepRuns
<1>. QED BY <1>1, <1>2, InitRuns, PTL DEF Spec

-----------------------------------------------------------------------------
(* The journal *)

\* Threads of which a human is asked something.
AskedFor(t) == Waiting(t) /\ ~Running(t)

Count(p, s) == Cardinality({i \in DOMAIN p : p[i] = s})

\* Sorting keeps every step, as often as it was there.
LEMMA SortedCount ==
    ASSUME NEW h \in Seq(StepResults), NEW s
    PROVE  Count(Sorted(h), s) = Count(h, s)
<1>. DEFINE A == {i \in DOMAIN Sorted(h) : Sorted(h)[i] = s}
            B == {i \in DOMAIN h : h[i] = s}
            f == [k \in A |-> Place(h, k)]
<1>1. DOMAIN Sorted(h) = DOMAIN h /\ \A k \in DOMAIN h : Sorted(h)[k] = h[Place(h, k)]
  BY SortedProperties
<1>2. /\ \A k \in DOMAIN h : Place(h, k) \in DOMAIN h
      /\ \A k, l \in DOMAIN h : Place(h, k) = Place(h, l) => k = l
      /\ \A i \in DOMAIN h : \E k \in DOMAIN h : Place(h, k) = i
  BY PlaceProperties
<1>3. f \in [A -> B]
  BY <1>1, <1>2
<1>4. \A x, y \in A : f[x] = f[y] => x = y
  BY <1>1, <1>2
<1>5. \A b \in B : \E x \in A : f[x] = b
  BY <1>1, <1>2
<1>6. ExistsBijection(A, B)
  <2>. HIDE DEF A, B, f
  <2>1. f \in Bijection(A, B)
    BY <1>3, <1>4, <1>5 DEF Bijection, Injection, Surjection, IsInjective
  <2>. QED BY <2>1 DEF ExistsBijection
<1>7. IsFiniteSet(A)
  <2>1. DOMAIN h = 1 .. Len(h) /\ Len(h) \in Nat
    BY LenProperties
  <2>2. IsFiniteSet(1 .. Len(h))
    BY <2>1, FS_Interval
  <2>. QED BY <1>1, <2>1, <2>2, FS_Subset
<1>. HIDE DEF f
<1>8. Cardinality(A) = Cardinality(B)
  <2>. HIDE DEF A, B
  <2>. QED BY <1>6, <1>7, FS_Bijection
<1>. QED BY <1>8, Zenon DEF Count

LEMMA ResultCount ==
    ASSUME MeshShape, NEW t \in Threads, NEW s
    PROVE  Count(Result(t), s) = Count(history[t], s) /\ Len(Result(t)) = Len(history[t])
<1>1. history[t] \in Seq(StepResults)
  BY DEF MeshShape, TypeOK
<1>. QED BY <1>1, SortedCount, SortedProperties DEF Result

LEMMA SameResult ==
    ASSUME MeshShape, NEW t \in Threads
    PROVE  J!SameSteps(Result(t), history[t]) /\ J!SameSteps(history[t], history[t])
<1>1. \A S : J!Cardinality(S) = Cardinality(S)
  BY DEF J!Cardinality, Cardinality
<1>2. ASSUME NEW p, NEW q, Len(p) = Len(q), \A s : Count(p, s) = Count(q, s)
      PROVE  J!SameSteps(p, q)
  <2>1. ASSUME NEW s
        PROVE  J!Cardinality({i \in DOMAIN p : p[i] = s})
               = J!Cardinality({i \in DOMAIN q : q[i] = s})
    <3>1. Count(p, s) = Count(q, s)
      BY <1>2
    <3>. QED BY <1>1, <3>1 DEF Count
  <2>. QED BY <1>2, <2>1 DEF J!SameSteps
<1>3. /\ Len(Result(t)) = Len(history[t])
      /\ \A s : Count(Result(t), s) = Count(history[t], s)
  BY ResultCount
<1>. QED BY <1>2, <1>3

Waits == {t \in Threads : Waiting(t) /\ ~Running(t)}

\* What a step of t does to the threads that are asked for a decision.
LEMMA WaitsStep ==
    ASSUME MeshShape, NEW t \in Threads, Decide(t) \/ Progress(t)
    PROVE  /\ AskedFor(t)' = AskedFor(t) => Waits' = Waits
           /\ ~AskedFor(t) /\ AskedFor(t)' => Waits' = Waits \cup {t} /\ t \notin Waits
           /\ AskedFor(t) /\ ~AskedFor(t)' => Waits' = Waits \ {t} /\ t \in Waits
<1>1. ASSUME NEW u \in Threads \ {t} PROVE AskedFor(u)' = AskedFor(u)
  BY <1>1, OthersSame DEF Same, AskedFor, Waiting, Running, IsGated
<1>2. \A u \in Threads : (u \in Waits <=> AskedFor(u)) /\ (u \in Waits' <=> AskedFor(u)')
  BY DEF Waits, AskedFor
<1>3. Waits \subseteq Threads /\ Waits' \subseteq Threads
  BY DEF Waits
<1>. HIDE DEF Waits, AskedFor
<1>. QED BY <1>1, <1>2, <1>3

\* A step that the journal does not see, or sees as a question.
LEMMA JournalUnseen ==
    ASSUME MeshShape, NEW t \in Threads, Decide(t) \/ Progress(t),
           UNCHANGED <<durable, history, answer>>, AskedFor(t) => AskedFor(t)'
    PROVE  [J!JournalNext]_J!journalVars
<1>1. Waits' = Waits \/ (Waits' = Waits \cup {t} /\ t \notin Waits)
  BY WaitsStep DEF AskedFor
<1>2. CASE Waits' = Waits
  BY <1>2 DEF J!journalVars, Waits
<1>3. CASE Waits' = Waits \cup {t} /\ t \notin Waits
  <2>1. J!Ask(t)
    BY <1>3 DEF J!Ask, Waits
  <2>. QED BY <2>1 DEF J!JournalNext
<1>. QED BY <1>1, <1>2, <1>3

LEMMA GrowsBy ==
    ASSUME MeshShape, NEW t \in Threads, NEW s \in StepResults,
           history' = [history EXCEPT ![t] = Append(@, s)]
    PROVE  J!Grows(t)
<1>1. history[t] \in Seq(StepResults) /\ history'[t] = Append(history[t], s)
  BY DEF MeshShape, TypeOK
<1>2. /\ Append(history[t], s) \in Seq(StepResults)
      /\ Len(Append(history[t], s)) = Len(history[t]) + 1
      /\ Append(history[t], s)[Len(history[t]) + 1] = s
      /\ Len(history[t]) \in Nat
  BY <1>1, AppendProperties, LenProperties
<1>3. history'[t] # <<>> /\ J!Last(history'[t]) = s
  <2>. DEFINE r == Append(history[t], s)
  <2>1. Len(r) # 0 /\ r[Len(r)] = s
    BY <1>2
  <2>. HIDE DEF r
  <2>2. r # <<>> /\ J!Last(r) = s
    BY <2>1, EmptySeq DEF J!Last
  <2>. QED BY <1>1, <2>2 DEF r
<1>. QED BY <1>3 DEF J!Grows

\* A result is returned: the record, sorted at most.
LEMMA JournalAnswer ==
    ASSUME MeshShape, NEW t \in Threads, Decide(t) \/ Progress(t), NEW a,
           a \in Seq(StepResults), J!SameSteps(a, history[t]),
           answer' = [answer EXCEPT ![t] = a],
           UNCHANGED <<durable, history>>, AskedFor(t) => AskedFor(t)'
    PROVE  [J!JournalNext]_J!journalVars
<1>1. Waits' = Waits \/ (Waits' = Waits \cup {t} /\ t \notin Waits)
  BY WaitsStep DEF AskedFor
<1>2. answer'[t] = a /\ a # NoAnswer
  BY NoAnswerAssumption DEF MeshShape, TypeOK
<1>3. J!Answer(t)
  BY <1>2 DEF J!Answer
<1>4. J!Ask(t) \/ Waits' = Waits
  BY <1>1 DEF J!Ask, Waits
<1>. QED BY <1>3, <1>4 DEF J!JournalNext, Waits

LEMMA DecideJournal ==
    ASSUME MeshShape, NEW t \in Threads, Decide(t)
    PROVE  [J!JournalNext]_J!journalVars
<1>0. durable' = durable /\ engine' = engine /\ TypeOK
  BY DEF Decide, MeshShape
<1>1. CASE Run(t)
  <2>1. UNCHANGED <<history, answer>>
    BY <1>1 DEF Run
  <2>2. ~AskedFor(t)
    BY <1>1 DEF Run, AskedFor, Waiting, IsGated, MeshShape, ShapeOK
  <2>. QED BY <1>0, <2>1, <2>2, JournalUnseen
<1>2. CASE ResumeRefused(t)
  <2>1. UNCHANGED <<history, answer, next, pc>>
    BY <1>2 DEF ResumeRefused, meshVars, planVars
  <2>2. AskedFor(t)' = AskedFor(t)
    BY <1>0, <2>1 DEF AskedFor, Waiting, IsGated, Running
  <2>. QED BY <1>0, <2>1, <2>2, JournalUnseen
<1>3. CASE Approve(t)
  <2>1. UNCHANGED <<history, answer>> /\ ~AskedFor(t)'
    BY <1>0, <1>3 DEF Approve, Begin, TypeOK, AskedFor, Running
  <2>2. CASE ~AskedFor(t)
    BY <1>0, <2>1, <2>2, JournalUnseen
  <2>3. CASE AskedFor(t)
    <3>1. Waits' = Waits \ {t} /\ t \in Waits
      BY <2>1, <2>3, WaitsStep
    <3>2. J!Decide(t)
      BY <1>0, <2>1, <3>1 DEF J!Decide, Waits
    <3>. QED BY <3>2 DEF J!JournalNext
  <2>. QED BY <2>2, <2>3
<1>4. CASE Reject(t)
  <2>1. UNCHANGED answer /\ ~AskedFor(t)' /\ AskedFor(t)
    BY <1>0, <1>4 DEF Reject, Begin, Resumable, TypeOK, AskedFor, Running
  <2>2. Waits' = Waits \ {t} /\ t \in Waits
    BY <2>1, WaitsStep
  <2>. DEFINE s == [worker |-> Rejected(t), verdict |-> "rejected", step |-> Len(history[t])]
  <2>3. history' = [history EXCEPT ![t] = Append(@, s)]
    BY <1>4 DEF Reject
  <2>4. s \in StepResults
    <3>1. Len(history[t]) \in Nat
      BY <1>0, LenProperties DEF TypeOK
    <3>2. Rejected(t) \in Workers
      BY <1>4, WaitingType DEF Rejected, Reject
    <3>. QED BY <3>1, <3>2 DEF StepResults
  <2>. HIDE DEF s
  <2>5. J!Grows(t)
    BY <2>3, <2>4, GrowsBy
  <2>6. J!Decide(t)
    BY <1>0, <2>1, <2>2, <2>5 DEF J!Decide, Waits
  <2>. QED BY <2>6 DEF J!JournalNext
<1>. QED BY <1>1, <1>2, <1>3, <1>4 DEF Decide

LEMMA ProgressJournal ==
    ASSUME MeshShape, NEW t \in Threads, Progress(t)
    PROVE  [J!JournalNext]_J!journalVars
<1>0. durable' = durable /\ engine' = engine /\ TypeOK
  BY DEF Progress, MeshShape
<1>a. Running(t) => ~AskedFor(t)
  BY DEF AskedFor
<1>1. CASE RouteFails(t) \/ WorkFails(t)
  <2>1. UNCHANGED <<history, answer>> /\ Running(t)
    BY <1>1 DEF RouteFails, WorkFails, Fail, Routing, AtWorkers
  <2>. QED BY <1>0, <1>a, <2>1, JournalUnseen
<1>2. CASE Launch(t)
  <2>1. UNCHANGED <<history, answer>> /\ Running(t)
    BY <1>2 DEF Launch, AtWorkers, planVars
  <2>. QED BY <1>0, <1>a, <2>1, JournalUnseen
<1>3. CASE Interrupt(t)
  <2>1. UNCHANGED history /\ Running(t) /\ answer' = [answer EXCEPT ![t] = history[t]]
    BY <1>3 DEF Interrupt, AtWorkers
  <2>2. history[t] \in Seq(StepResults)
    BY <1>0 DEF TypeOK
  <2>. QED BY <1>0, <1>a, <2>1, <2>2, SameResult, JournalAnswer
<1>4. CASE EndAgain(t) \/ \E d \in Decisions : Finish(t, d)
  <2>1. UNCHANGED history /\ Running(t) /\ answer' = [answer EXCEPT ![t] = Result(t)]
    BY <1>4 DEF EndAgain, Finish, Routing
  <2>2. PICK a : a = Result(t)
    OBVIOUS
  <2>3. answer' = [answer EXCEPT ![t] = a] /\ a \in Seq(StepResults) /\ J!SameSteps(a, history[t])
    BY <2>1, <2>2, ResultType, SameResult
  <2>. QED BY <1>0, <1>a, <2>1, <2>3, JournalAnswer
<1>5. ASSUME NEW d \in Decisions, Route(t, d) PROVE [J!JournalNext]_J!journalVars
  <2>1. UNCHANGED <<history, answer>> /\ Running(t)
    BY <1>5 DEF Route, Routing
  <2>. QED BY <1>0, <1>a, <2>1, JournalUnseen
<1>6. ASSUME NEW i \in DOMAIN next[t], Work(t, i) PROVE [J!JournalNext]_J!journalVars
  <2>1. UNCHANGED answer /\ Running(t) /\ Running(t)'
        /\ history' = [history EXCEPT ![t] = Append(@, Done(t, i))]
    BY <1>6 DEF Work, Add, planVars, Running
  <2>2. ~AskedFor(t) /\ ~AskedFor(t)'
    BY <2>1 DEF AskedFor
  <2>3. Waits' = Waits /\ t \notin Waits
    BY <2>2, WaitsStep DEF Waits, AskedFor
  <2>4. Done(t, i) \in StepResults
    <3>1. AtWorkers(t)
      BY <1>6 DEF Work, MeshShape, ShapeOK
    <3>2. Len(Ahead(t)) = Len(next[t]) /\ DOMAIN Ahead(t) = 1 .. Len(next[t])
          /\ Ahead(t) \in Seq(StepResults)
          /\ \A j \in 1 .. Len(next[t]) : Ahead(t)[j] = Done(t, j)
      BY <3>1, AheadType
    <3>3. i \in 1 .. Len(next[t])
      BY <1>0, LenProperties DEF TypeOK
    <3>. QED BY <3>2, <3>3, ElementOfSeq
  <2>5. PICK s : s = Done(t, i)
    OBVIOUS
  <2>6. J!Grows(t)
    BY <2>1, <2>4, <2>5, GrowsBy
  <2>7. J!Extend(t)
    BY <2>1, <2>3, <2>6 DEF J!Extend, Waits
  <2>. QED BY <1>0, <2>3, <2>7 DEF J!JournalNext, Waits
<1>. QED BY <1>1, <1>2, <1>3, <1>4, <1>5, <1>6 DEF Progress

LEMMA CrashJournal ==
    ASSUME MeshShape, Crash, UNCHANGED <<engine, durable>>
    PROVE  [J!JournalNext]_J!journalVars
<1>1. CASE durable
  <2>1. UNCHANGED <<history, answer>> /\ Waits' \subseteq Threads
    BY <1>1 DEF Crash, Waits
  <2>2. J!Restart
    BY <1>1, <2>1 DEF J!Restart, Waits
  <2>. QED BY <2>2 DEF J!JournalNext
<1>2. CASE ~durable
  <2>1. history' = [t \in Threads |-> <<>>] /\ answer' = answer
        /\ \A t \in Threads : next'[t] = <<>>
    BY <1>2 DEF Crash
  <2>2. Waits' = {}
    BY <2>1 DEF Waits, Waiting, IsGated
  <2>3. J!Restart
    BY <1>2, <2>1, <2>2 DEF J!Restart, Waits
  <2>. QED BY <2>3 DEF J!JournalNext
<1>. QED BY <1>1, <1>2

LEMMA StepJournal ==
    ASSUME MeshShape, [Next]_vars PROVE [J!JournalNext]_J!journalVars
<1>1. CASE UNCHANGED vars
  <2>1. UNCHANGED <<durable, history, answer, engine, next, pc>>
    BY <1>1 DEF vars, meshVars, planVars
  <2>2. Waits' = Waits
    BY <2>1 DEF Waits, Waiting, IsGated, Running
  <2>. QED BY <2>1, <2>2 DEF J!journalVars, Waits
<1>. QED BY <1>1, DecideJournal, ProgressJournal, CrashJournal DEF Next

LEMMA InitJournal == Init => J!JournalInit
<1>. SUFFICES ASSUME Init PROVE J!JournalInit
  OBVIOUS
<1>1. durable \in BOOLEAN /\ history = [t \in Threads |-> <<>>]
      /\ answer = [t \in Threads |-> NoAnswer]
  BY DEF Init
<1>2. \A t \in Threads : ~Waiting(t)
  BY DEF Init, Waiting, IsGated
<1>. QED BY <1>1, <1>2 DEF J!JournalInit

\* What a human is shown and asked is kept as MeshJournal promises, over fan-outs,
\* failures, rejections and restarts (mesh/langgraph_engine.py, the checkpointed
\* history and the snapshot of it).
THEOREM MeshJournalled == Spec => Journal
<1>1. ASSUME MeshShape, [Next]_vars PROVE [J!JournalNext]_J!journalVars
  BY <1>1, StepJournal
<1>. QED BY <1>1, InitJournal, ShapeAlways, PTL DEF Spec, Journal, J!JournalSpec
=============================================================================
