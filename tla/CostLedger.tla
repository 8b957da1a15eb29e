----------------------------- MODULE CostLedger -----------------------------
(***************************************************************************)
(* The budget circuit breaker of one agent, statement by statement:        *)
(* governance/cost.py (CostGate) over the two tables that                  *)
(* governance/audit.py (SqliteAuditLogger) keeps in .lottie/audit.db, as   *)
(* governance/middleware.py (CostMiddleware) drives it.                    *)
(*                                                                         *)
(* A connection stands for one operating-system process and the single     *)
(* sqlite3 connection its CostGate holds; MaxThreads > 1 is `lottie        *)
(* serve`, where requests run on worker threads that share the cached      *)
(* agent, hence the connection.  SQLite's write lock is modelled by at     *)
(* most one connection being in state "write"; a statement that finds the  *)
(* lock taken waits, and the busy timeout may end the wait with an error.  *)
(* Rows of the audit table are written over the agent's own connection,    *)
(* in one step, since nothing else uses that connection's transaction.     *)
(***************************************************************************)
EXTENDS BudgetAdmission

CONSTANTS
    Conns,         \* processes that run the agent, one gate connection each
    ConnOf,        \* the connection each run finds in its process
    MaxThreads     \* runs one process may have in flight

ASSUME ConnsAssumption   == IsFiniteSet(Conns) /\ ConnOf \in [Runs -> Conns]
ASSUME ThreadsAssumption == MaxThreads \in Nat \ {0}

VARIABLES
    resv,      \* committed rows of the `reservations` table, by run
    old,       \* the rows among them that are older than _RESERVATION_TTL_S
    tx,        \* transaction of each connection
    ins,       \* reservations its transaction has inserted
    del,       \* reservations its transaction has deleted
    pc,        \* where each run is
    sumSpent,  \* committed spend it read inside its transaction
    sumHeld    \* outstanding reservations it read inside its transaction

vars == <<mode, spent, excess, overran, resv, old, tx, ins, del, pc, sumSpent,
          sumHeld, open>>

dbVars  == <<resv, old, tx, ins, del>>
sumVars == <<sumSpent, sumHeld>>

\* "deferred": Python's sqlite3 opened a transaction in front of a statement
\* that then failed on the lock; it is open and holds no lock.
TxStates == {"none", "deferred", "write"}

InReserve == {"begin", "sweep", "spent", "held", "insert", "commit"}
Ended     == {"done", "refused", "crashed"}
Active    == InReserve \cup {"check", "running", "settle", "release"}

TypeOK ==
    /\ AdmissionTypeOK
    /\ resv \subseteq Runs
    /\ old \subseteq resv
    /\ tx \in [Conns -> TxStates]
    /\ ins \in [Conns -> SUBSET Runs]
    /\ del \in [Conns -> SUBSET Runs]
    /\ pc \in [Runs -> {"new"} \cup Active \cup Ended]
    /\ sumSpent \in [Runs -> Nat]
    /\ sumHeld \in [Runs -> Nat]

-----------------------------------------------------------------------------
(* Transactions of the sqlite3 driver *)

\* No other connection holds the write lock.
LockFree(c) == \A d \in Conns \ {c} : tx[d] # "write"

\* The reservations connection c sees: what is committed, and its own changes.
View(c) == (resv \ del[c]) \cup ins[c]

\* Runs in flight on connection c.
InFlight(c) == {r \in Runs : ConnOf[r] = c /\ pc[r] \in Active}

At(r, label) == pc[r] = label
Goto(r, label) == pc' = [pc EXCEPT ![r] = label]

\* Mutant of Commit: a deleted row keeps its age.
CommitKeepsAge(c) ==
    /\ resv' = View(c)
    /\ UNCHANGED old
    /\ overran' = overran \cup (del[c] \cap old \cap open)
    /\ tx' = [tx EXCEPT ![c] = "none"]
    /\ ins' = [ins EXCEPT ![c] = {}]
    /\ del' = [del EXCEPT ![c] = {}]

\* conn.commit() on c; an expired hold swept under a run that is still open is
\* a run that outlived its hold.
Commit(c) ==
    /\ resv' = View(c)
    /\ old' = old \ del[c]
    /\ overran' = overran \cup (del[c] \cap old \cap open)
    /\ tx' = [tx EXCEPT ![c] = "none"]
    /\ ins' = [ins EXCEPT ![c] = {}]
    /\ del' = [del EXCEPT ![c] = {}]

\* conn.rollback() on c.
Rollback(c) ==
    /\ tx' = [tx EXCEPT ![c] = "none"]
    /\ ins' = [ins EXCEPT ![c] = {}]
    /\ del' = [del EXCEPT ![c] = {}]
    /\ UNCHANGED <<resv, old, overran>>

-----------------------------------------------------------------------------
(* CostMiddleware._reserve -> CostGate.reserve *)

Init ==
    /\ AdmissionInit
    /\ resv = {}
    /\ old = {}
    /\ tx = [c \in Conns |-> "none"]
    /\ ins = [c \in Conns |-> {}]
    /\ del = [c \in Conns |-> {}]
    /\ pc = [r \in Runs |-> "new"]
    /\ sumSpent = [r \in Runs |-> 0]
    /\ sumHeld = [r \in Runs |-> 0]

\* The run reaches the gate; the three ways CostGate.reserve can go.
Start(r) ==
    /\ At(r, "new")
    /\ Cardinality(InFlight(ConnOf[r])) < MaxThreads
    /\ \/ mode = "reserve" /\ Goto(r, "begin")
       \/ mode = "legacy"  /\ Goto(r, "check")
       \/ mode = "closed"  /\ Goto(r, "refused")
    /\ UNCHANGED <<mode, spent, open, overran, excess>>
    /\ UNCHANGED dbVars /\ UNCHANGED sumVars

\* Mutant of LegacyCheck: the budget may be reached before the gate blocks.
LegacyCheckOffByOne(r) ==
    /\ At(r, "check")
    /\ \/ /\ spent <= Budget
          /\ Goto(r, "running")
          /\ open' = open \cup {r}
       \/ /\ Goto(r, "refused")
          /\ UNCHANGED open
    /\ UNCHANGED <<mode, spent, overran, excess>>
    /\ UNCHANGED dbVars /\ UNCHANGED sumVars

\* CostGate.check: total_cost, a read outside any transaction.  A ledger that
\* cannot be read refuses the run, whatever was spent.
LegacyCheck(r) ==
    /\ At(r, "check")
    /\ \/ /\ spent < Budget
          /\ Goto(r, "running")
          /\ open' = open \cup {r}
       \/ /\ Goto(r, "refused")
          /\ UNCHANGED open
    /\ UNCHANGED <<mode, spent, overran, excess>>
    /\ UNCHANGED dbVars /\ UNCHANGED sumVars

\* BEGIN IMMEDIATE takes the write lock.
Begin(r) == LET c == ConnOf[r] IN
    /\ At(r, "begin")
    /\ tx[c] = "none"
    /\ LockFree(c)
    /\ tx' = [tx EXCEPT ![c] = "write"]
    /\ Goto(r, "sweep")
    /\ UNCHANGED <<mode, spent, open, overran, excess, resv, old, ins, del>>
    /\ UNCHANGED sumVars

\* Mutant of BeginFails: waits for a transaction nobody will end.
BeginFailsOnLockOnly(r) ==
    /\ At(r, "begin")
    /\ ~LockFree(ConnOf[r])
    /\ Goto(r, "refused")
    /\ UNCHANGED <<mode, spent, open, overran, excess>>
    /\ UNCHANGED dbVars /\ UNCHANGED sumVars

\* BEGIN IMMEDIATE fails: the lock is busy past the timeout, or this connection
\* is in a transaction already.  The statement stands before the try, so
\* nothing is rolled back.
BeginFails(r) == LET c == ConnOf[r] IN
    /\ At(r, "begin")
    /\ tx[c] # "none" \/ ~LockFree(c)
    /\ Goto(r, "refused")
    /\ UNCHANGED <<mode, spent, open, overran, excess>>
    /\ UNCHANGED dbVars /\ UNCHANGED sumVars

\* DELETE ... WHERE created < now - TTL.
Sweep(r) == LET c == ConnOf[r] IN
    /\ At(r, "sweep")
    /\ LockFree(c)
    /\ tx' = [tx EXCEPT ![c] = "write"]
    /\ del' = [del EXCEPT ![c] = @ \cup (View(c) \cap old)]
    /\ Goto(r, "spent")
    /\ UNCHANGED <<mode, spent, open, overran, excess, resv, old, ins>>
    /\ UNCHANGED sumVars

\* SELECT SUM(cost_usd) FROM audit.
SumSpent(r) ==
    /\ At(r, "spent")
    /\ sumSpent' = [sumSpent EXCEPT ![r] = spent]
    /\ Goto(r, "held")
    /\ UNCHANGED <<mode, spent, open, overran, excess, sumHeld>>
    /\ UNCHANGED dbVars

\* Mutant of SumHeld: counts this process's reservations alone.
SumHeldOfProcess(r) ==
    /\ At(r, "held")
    /\ sumHeld' = [sumHeld EXCEPT ![r] =
           MaxRun * Cardinality({q \in View(ConnOf[r]) : ConnOf[q] = ConnOf[r]})]
    /\ Goto(r, "insert")
    /\ UNCHANGED <<mode, spent, open, overran, excess, sumSpent>>
    /\ UNCHANGED dbVars

\* SELECT SUM(amount) FROM reservations.
SumHeld(r) ==
    /\ At(r, "held")
    /\ sumHeld' = [sumHeld EXCEPT ![r] = MaxRun * Cardinality(View(ConnOf[r]))]
    /\ Goto(r, "insert")
    /\ UNCHANGED <<mode, spent, open, overran, excess, sumSpent>>
    /\ UNCHANGED dbVars

\* Mutant of Fits: outstanding reservations are forgotten.
FitsCommittedOnly(r) == sumSpent[r] + MaxRun <= Budget

Fits(r) == sumSpent[r] + sumHeld[r] + MaxRun <= Budget

\* reserve() returns or raises, and its locals are gone.
Return(r) ==
    /\ sumSpent' = [sumSpent EXCEPT ![r] = 0]
    /\ sumHeld' = [sumHeld EXCEPT ![r] = 0]

\* Mutant of Refuse: returns without the rollback.
RefuseWithoutRollback(r) ==
    /\ At(r, "insert")
    /\ ~Fits(r)
    /\ Goto(r, "refused")
    /\ Return(r)
    /\ UNCHANGED <<mode, spent, open, overran, excess>>
    /\ UNCHANGED dbVars

\* Over budget: rollback and refuse.
Refuse(r) ==
    /\ At(r, "insert")
    /\ ~Fits(r)
    /\ Rollback(ConnOf[r])
    /\ Goto(r, "refused")
    /\ Return(r)
    /\ UNCHANGED <<mode, spent, open, excess>>

\* INSERT INTO reservations.
Insert(r) == LET c == ConnOf[r] IN
    /\ At(r, "insert")
    /\ Fits(r)
    /\ LockFree(c)
    /\ tx' = [tx EXCEPT ![c] = "write"]
    /\ ins' = [ins EXCEPT ![c] = @ \cup {r}]
    /\ Goto(r, "commit")
    /\ UNCHANGED <<mode, spent, open, overran, excess, resv, old, del>>
    /\ UNCHANGED sumVars

\* A statement inside the try raises (an error of the file, or the lock, when
\* the transaction was lost to another thread): rollback, and the gate fails
\* closed.
StatementFails(r) ==
    /\ pc[r] \in {"sweep", "spent", "held", "insert", "commit"}
    /\ At(r, "insert") => Fits(r)
    /\ Rollback(ConnOf[r])
    /\ Goto(r, "refused")
    /\ Return(r)
    /\ UNCHANGED <<mode, spent, open, excess>>

\* conn.commit(): the run is admitted and its work starts.
CommitHold(r) ==
    /\ At(r, "commit")
    /\ Commit(ConnOf[r])
    /\ open' = open \cup {r}
    /\ Goto(r, "running")
    /\ Return(r)
    /\ UNCHANGED <<mode, spent, excess>>

-----------------------------------------------------------------------------
(* The run's row in the ledger, then CostGate.settle *)

\* A run without a reservation handle has nothing to settle.
AfterRow == IF mode = "reserve" THEN "settle" ELSE "done"

\* AuditSubscriber -> SqliteAuditLogger.log for a run that completed or failed.
Record(r, cost) ==
    /\ At(r, "running")
    /\ \A c \in Conns : tx[c] # "write"
    /\ spent' = spent + cost
    /\ excess' = excess + Above(cost)
    /\ open' = open \ {r}
    /\ Goto(r, AfterRow)
    /\ UNCHANGED <<mode, overran>>
    /\ UNCHANGED dbVars /\ UNCHANGED sumVars

\* log() fails, on the lock or on the file; it warns, and the run goes on
\* without its row.
RecordFails(r) ==
    /\ At(r, "running")
    /\ open' = open \ {r}
    /\ Goto(r, AfterRow)
    /\ UNCHANGED <<mode, spent, overran, excess>>
    /\ UNCHANGED dbVars /\ UNCHANGED sumVars

\* Mutant of SettleDelete: the `finally` fires while the run is still open, as
\* it would on the creation of a stream's generator.
SettleDeleteEarly(r) == LET c == ConnOf[r] IN
    /\ At(r, "settle") \/ (At(r, "running") /\ mode = "reserve")
    /\ LockFree(c)
    /\ tx' = [tx EXCEPT ![c] = "write"]
    /\ del' = [del EXCEPT ![c] = @ \cup {r}]
    /\ Goto(r, "release")
    /\ UNCHANGED <<mode, spent, open, overran, excess, resv, old, ins>>
    /\ UNCHANGED sumVars

\* DELETE FROM reservations WHERE id = ?; the driver opens a transaction first
\* when the connection is in none.
SettleDelete(r) == LET c == ConnOf[r] IN
    /\ At(r, "settle")
    /\ LockFree(c)
    /\ tx' = [tx EXCEPT ![c] = "write"]
    /\ del' = [del EXCEPT ![c] = @ \cup {r}]
    /\ Goto(r, "release")
    /\ UNCHANGED <<mode, spent, open, overran, excess, resv, old, ins>>
    /\ UNCHANGED sumVars

\* The DELETE times out; settle() warns, and does not roll back the transaction
\* the driver has opened.
SettleFails(r) == LET c == ConnOf[r] IN
    /\ At(r, "settle")
    /\ ~LockFree(c)
    /\ tx' = [tx EXCEPT ![c] = "deferred"]
    /\ Goto(r, "done")
    /\ UNCHANGED <<mode, spent, open, overran, excess, resv, old, ins, del>>
    /\ UNCHANGED sumVars

SettleCommit(r) ==
    /\ At(r, "release")
    /\ Commit(ConnOf[r])
    /\ Goto(r, "done")
    /\ UNCHANGED <<mode, spent, open, excess>>
    /\ UNCHANGED sumVars

-----------------------------------------------------------------------------
(* The environment *)

\* An hour passes for a reservation.
Age(r) ==
    /\ r \in resv \ old
    /\ old' = old \cup {r}
    /\ UNCHANGED <<mode, spent, open, overran, excess, resv, tx, ins, del, pc>>
    /\ UNCHANGED sumVars

\* The process of connection c dies, and SQLite rolls its transaction back.
\* A later run on c stands for the restarted process.
Crash(c) ==
    /\ InFlight(c) # {}
    /\ pc' = [r \in Runs |-> IF r \in InFlight(c) THEN "crashed" ELSE pc[r]]
    /\ open' = open \ InFlight(c)
    /\ Rollback(c)
    /\ sumSpent' = [r \in Runs |-> IF r \in InFlight(c) THEN 0 ELSE sumSpent[r]]
    /\ sumHeld' = [r \in Runs |-> IF r \in InFlight(c) THEN 0 ELSE sumHeld[r]]
    /\ UNCHANGED <<mode, spent, excess>>

\* What the thread of run r does next.
Step(r) ==
    \/ LegacyCheck(r)
    \/ Begin(r) \/ BeginFails(r) \/ Sweep(r) \/ SumSpent(r) \/ SumHeld(r)
    \/ Refuse(r) \/ Insert(r) \/ StatementFails(r) \/ CommitHold(r)
    \/ \E cost \in Costs : Record(r, cost)
    \/ RecordFails(r)
    \/ SettleDelete(r) \/ SettleFails(r) \/ SettleCommit(r)

Next ==
    \/ \E r \in Runs : Start(r) \/ Step(r) \/ Age(r)
    \/ \E c \in Conns : Crash(c)

Spec == Init /\ [][Next]_vars

\* A thread that has a statement to execute executes it, or its busy timeout
\* ends the wait; whether a run is started, a process dies or an hour passes is
\* left open.
FairSpec == Spec /\ \A r \in Runs : WF_vars(Step(r))
-----------------------------------------------------------------------------
(* Properties *)

\* CostLedger implements BudgetAdmission: the decision that five SQL statements
\* and a commit take together, beside other processes, crashes and expiring
\* holds, is one atomic admission (audit.py: "under one BEGIN IMMEDIATE
\* transaction ... this closes the check-then-act TOCTOU").
Admission == AdmissionSpec

\* While a run of the reserving gate is open and its hold has not expired, its
\* reservation is a committed row, so that every other process counts it: the
\* cost reaches the ledger before CostMiddleware's `finally` settles.
LiveHoldsDurable ==
    mode = "reserve" => open \ overran \subseteq resv

\* Without max_run_usd the gate only blocks once the budget is spent, and the
\* overshoot is bounded by the runs in flight (CostGate's docstring): had each
\* of them the cost of the dearest run, spent and open runs stay below the
\* budget and one such run in every place a run can take.  A budget of nothing
\* admits nothing.
LegacyOvershootBounded ==
    mode = "legacy" =>
        IF Budget = 0 THEN spent = 0 /\ open = {}
        ELSE \A top \in Costs :
                (\A cost \in Costs : cost <= top) =>
                    spent + top * Cardinality(open)
                        < Budget + top * (MaxThreads * Cardinality(Conns))

\* settle() is best effort: "a failed delete must never break a run".  A run
\* that has its process to itself finds the gate's connection in no transaction,
\* without which BEGIN IMMEDIATE can only fail.
SettleFailureBreaksNoRun ==
    \A r \in Runs :
        At(r, "begin") /\ InFlight(ConnOf[r]) = {r} => tx[ConnOf[r]] = "none"

\* The write lock is never kept: admitted, refused, failed or dead, a run lets
\* the other processes' transactions through.
LockReleased ==
    \A c \in Conns : tx[c] = "write" ~> tx[c] # "write"

\* A run that reached the gate is answered, whatever state the connections are
\* in: admitted and finished, refused, or dead with its process.
EveryRunEnds ==
    \A r \in Runs : pc[r] \in Active ~> pc[r] \in Ended
=============================================================================
