-------------------------- MODULE CostLedgerProofs --------------------------
(***************************************************************************)
(* Proofs about CostLedger for every number of processes, runs and amounts.*)
(* When each process runs the agent one run at a time (MaxThreads = 1) the *)
(* gate's reservation protocol keeps the budget, and its five statements   *)
(* implement the atomic admission of BudgetAdmission; the overshoot of the *)
(* gate without reservations is bounded for any number of threads.         *)
(***************************************************************************)
EXTENDS CostLedger, ListLemmas

(***************************************************************************)
(* The inductive invariant.  Of the reserving gate it says who may be in a *)
(* transaction, what the transaction may hold, and that what a run has     *)
(* read inside its transaction is still so when it decides.                *)
(***************************************************************************)

\* Inside a transaction; and inside one that may have deleted something.
InTx    == {"sweep", "spent", "held", "insert", "commit", "release"}
MayHaveDeleted == InTx \ {"sweep"}

\* Runs the gate has not admitted.
NotAdmitted == {"new", "check"} \cup InReserve

\* One run at a time in each process.
Serial ==
    \A q, r \in Runs :
        pc[q] \in Active /\ pc[r] \in Active /\ ConnOf[q] = ConnOf[r] => q = r

OpenIsRunning == open = {r \in Runs : pc[r] = "running"}

\* The write lock belongs to one connection, and a run in its transaction has it.
LockExclusive == \A c, d \in Conns : tx[c] = "write" /\ tx[d] = "write" => c = d
LockHeld      == \A r \in Runs : pc[r] \in InTx => tx[ConnOf[r]] = "write"

\* A connection has inserted the hold its run is about to commit, no other.
InsertedOwn == \A c \in Conns : ins[c] = {r \in Runs : ConnOf[r] = c /\ pc[r] = "commit"}

\* What a connection has deleted, a run inside its transaction has deleted.
DeletedByOwner ==
    \A c \in Conns : del[c] # {} =>
        \E r \in Runs : ConnOf[r] = c /\ pc[r] \in MayHaveDeleted

\* Of open runs it has deleted expired holds alone; a settling run, its own.
DeletedExpired ==
    \A c \in Conns : \A q \in del[c] : pc[q] = "running" => q \in old
DeletedOwn ==
    \A r \in Runs : pc[r] = "release" => del[ConnOf[r]] \subseteq {r}

\* Only an admitted run has a hold to sweep, to delete or to outlive.
HoldsAdmitted ==
    /\ \A q \in resv \cup overran : pc[q] \notin NotAdmitted
    /\ \A c \in Conns : \A q \in del[c] : pc[q] \notin NotAdmitted

\* What a run has read inside its transaction still holds.
SumsCurrent ==
    \A r \in Runs :
        /\ pc[r] \in {"held", "insert", "commit"} => sumSpent[r] = spent
        /\ pc[r] \in {"insert", "commit"} =>
               sumHeld[r] = MaxRun * Cardinality(resv \ del[ConnOf[r]])
        /\ pc[r] = "commit" => Fits(r)

NoLegacyCheck == \A r \in Runs : pc[r] # "check"

ReserveInv ==
    /\ Serial
    /\ OpenIsRunning
    /\ LockExclusive
    /\ LockHeld
    /\ InsertedOwn
    /\ DeletedByOwner
    /\ DeletedExpired
    /\ DeletedOwn
    /\ HoldsAdmitted
    /\ SumsCurrent
    /\ NoLegacyCheck
    /\ LiveHoldsDurable

\* Without reservations the database is only read.
OtherInv ==
    /\ \A r \in Runs : pc[r] \in {"new", "check", "running", "done", "refused", "crashed"}
    /\ \A r \in Runs : pc[r] = "check" => mode = "legacy"
    /\ open = {r \in Runs : pc[r] = "running"}
    /\ overran = {}

IInv ==
    /\ TypeOK
    /\ mode = "reserve" => ReserveInv /\ BudgetRespected
    /\ mode # "reserve" => OtherInv

-----------------------------------------------------------------------------
(* Facts about the operators *)

USE RunsAssumption, AmountAssumption, CostsAssumption, ConnsAssumption,
    ThreadsAssumption

\* Every set of runs is finite and has a size.
LEMMA RunsFinite ==
    ASSUME NEW S, S \subseteq Runs
    PROVE  IsFiniteSet(S) /\ Cardinality(S) \in Nat
BY FS_Subset, FS_CardinalityType

\* A set of runs is no larger than one that contains it.
LEMMA CardinalityMono ==
    ASSUME NEW S, NEW T, S \subseteq T, T \subseteq Runs
    PROVE  Cardinality(S) <= Cardinality(T)
BY RunsFinite, FS_Subset

\* The size of a union with one more element.
LEMMA UnionBound ==
    ASSUME NEW S, NEW T, NEW U, NEW r \in Runs, S \subseteq Runs, T \subseteq Runs,
           U \subseteq (S \cup {r}) \cup T
    PROVE  Cardinality(U) <= Cardinality(S) + 1 + Cardinality(T)
<1> DEFINE V == S \cup {r}
<1>1. /\ IsFiniteSet(S) /\ IsFiniteSet(T) /\ IsFiniteSet(V) /\ IsFiniteSet(V \cap T)
      /\ Cardinality(S) \in Nat /\ Cardinality(T) \in Nat /\ Cardinality(V) \in Nat
      /\ Cardinality(V \cap T) \in Nat /\ Cardinality(V \cup T) \in Nat
      /\ Cardinality(U) \in Nat
  BY RunsFinite
<1>2. Cardinality(V) <= Cardinality(S) + 1
  <2>1. Cardinality(V) = IF r \in S THEN Cardinality(S) ELSE Cardinality(S) + 1
    BY <1>1, FS_AddElement
  <2> QED BY <1>1, <2>1
<1>3. Cardinality(V \cup T) = Cardinality(V) + Cardinality(T) - Cardinality(V \cap T)
  BY <1>1, FS_Union
<1>4. Cardinality(U) <= Cardinality(V \cup T)
  BY CardinalityMono
<1> HIDE DEF V
<1> QED
  BY <1>1, <1>2, <1>3, <1>4

\* Multiplying by what a hold is worth keeps the order.
LEMMA TimesMono ==
    ASSUME NEW a \in Nat, NEW b \in Nat, a <= b
    PROVE  MaxRun * a \in Nat /\ MaxRun * a <= MaxRun * b
BY SMT

\* What a cost adds to `excess` is what it has above MaxRun.
LEMMA AboveBounds ==
    ASSUME NEW cost \in Costs
    PROVE  Above(cost) \in Nat /\ cost \in Nat /\ cost <= MaxRun + Above(cost)
BY DEF Above

\* With one thread per process, a run starts when nothing else runs there.
LEMMA StartsAlone ==
    ASSUME MaxThreads = 1, NEW c \in Conns, Cardinality(InFlight(c)) < MaxThreads
    PROVE  InFlight(c) = {}
<1>1. InFlight(c) \subseteq Runs
  BY DEF InFlight
<1>2. Cardinality(InFlight(c)) = 0
  BY <1>1, RunsFinite
<1> QED
  BY <1>1, <1>2, RunsFinite, FS_EmptySet

-----------------------------------------------------------------------------
(* Type correctness *)

LEMMA TypeStep == TypeOK /\ [Next]_vars => TypeOK'
<1> SUFFICES ASSUME TypeOK, [Next]_vars
             PROVE  TypeOK'
  OBVIOUS
<1> USE DEF TypeOK, AdmissionTypeOK, Goto, At, dbVars, sumVars, Active, InReserve,
            Ended, TxStates
<1>1. ASSUME NEW r \in Runs, Start(r) PROVE TypeOK'
  BY <1>1 DEF Start
<1>2. ASSUME NEW r \in Runs, LegacyCheck(r) PROVE TypeOK'
  BY <1>2 DEF LegacyCheck
<1>3. ASSUME NEW r \in Runs, Begin(r) PROVE TypeOK'
  BY <1>3 DEF Begin
<1>4. ASSUME NEW r \in Runs, BeginFails(r) PROVE TypeOK'
  BY <1>4 DEF BeginFails
<1>5. ASSUME NEW r \in Runs, Sweep(r) PROVE TypeOK'
  BY <1>5 DEF Sweep, View
<1>6. ASSUME NEW r \in Runs, SumSpent(r) PROVE TypeOK'
  BY <1>6 DEF SumSpent
<1>7. ASSUME NEW r \in Runs, SumHeld(r) PROVE TypeOK'
  <2>1. View(ConnOf[r]) \subseteq Runs
    BY DEF View
  <2>2. MaxRun * Cardinality(View(ConnOf[r])) \in Nat
    BY <2>1, RunsFinite
  <2> QED BY <1>7, <2>2 DEF SumHeld
<1>8. ASSUME NEW r \in Runs, Refuse(r) PROVE TypeOK'
  BY <1>8 DEF Refuse, Rollback, Return
<1>9. ASSUME NEW r \in Runs, Insert(r) PROVE TypeOK'
  BY <1>9 DEF Insert
<1>10. ASSUME NEW r \in Runs, StatementFails(r) PROVE TypeOK'
  BY <1>10 DEF StatementFails, Rollback, Return
<1>11. ASSUME NEW r \in Runs, CommitHold(r) PROVE TypeOK'
  BY <1>11 DEF CommitHold, Commit, View, Return
<1>12. ASSUME NEW r \in Runs, NEW cost \in Costs, Record(r, cost) PROVE TypeOK'
  <2>1. AfterRow \in {"settle", "done"}
    BY DEF AfterRow
  <2> QED BY <1>12, <2>1, AboveBounds DEF Record
<1>13. ASSUME NEW r \in Runs, RecordFails(r) PROVE TypeOK'
  <2>1. AfterRow \in {"settle", "done"}
    BY DEF AfterRow
  <2> QED BY <1>13, <2>1 DEF RecordFails
<1>14. ASSUME NEW r \in Runs, SettleDelete(r) PROVE TypeOK'
  BY <1>14 DEF SettleDelete
<1>15. ASSUME NEW r \in Runs, SettleFails(r) PROVE TypeOK'
  BY <1>15 DEF SettleFails
<1>16. ASSUME NEW r \in Runs, SettleCommit(r) PROVE TypeOK'
  BY <1>16 DEF SettleCommit, Commit, View
<1>17. ASSUME NEW r \in Runs, Age(r) PROVE TypeOK'
  BY <1>17 DEF Age
<1>18. ASSUME NEW c \in Conns, Crash(c) PROVE TypeOK'
  BY <1>18 DEF Crash, Rollback
<1>19. CASE UNCHANGED vars
  BY <1>19 DEF vars
<1> QED
  BY <1>1, <1>2, <1>3, <1>4, <1>5, <1>6, <1>7, <1>8, <1>9, <1>10, <1>11, <1>12,
     <1>13, <1>14, <1>15, <1>16, <1>17, <1>18, <1>19 DEF Next, Step

\* The variables keep their types, for any number of threads per process.
THEOREM TypeCorrect == Spec => []TypeOK
<1>1. Init => TypeOK
  BY DEF Init, AdmissionInit, TypeOK, AdmissionTypeOK, Modes, TxStates, Active,
         InReserve, Ended
<1> QED
  BY <1>1, TypeStep, PTL DEF Spec

-----------------------------------------------------------------------------
(* The invariant is inductive *)

\* Who runs: one run at a time in a process, and the open ones are running.
LEMMA ControlStep ==
    ASSUME MaxThreads = 1, TypeOK, mode = "reserve", ReserveInv, Next
    PROVE  (Serial /\ OpenIsRunning /\ NoLegacyCheck)'
<1> USE DEF ReserveInv, TypeOK, AdmissionTypeOK, Goto, At, dbVars, sumVars, Active,
            InReserve, Ended, TxStates, InTx, MayHaveDeleted, NotAdmitted
<1>1. ASSUME NEW r \in Runs, Start(r) PROVE (Serial /\ OpenIsRunning /\ NoLegacyCheck)'
  <2>1. InFlight(ConnOf[r]) = {}
    BY <1>1, StartsAlone DEF Start
  <2> QED BY <1>1, <2>1 DEF Start, InFlight, Serial, OpenIsRunning, NoLegacyCheck
<1>2. ASSUME NEW r \in Runs, LegacyCheck(r) PROVE (Serial /\ OpenIsRunning /\ NoLegacyCheck)'
  BY <1>2 DEF LegacyCheck, Serial, OpenIsRunning, NoLegacyCheck
<1>3. ASSUME NEW r \in Runs, Begin(r) PROVE (Serial /\ OpenIsRunning /\ NoLegacyCheck)'
  BY <1>3 DEF Begin, Serial, OpenIsRunning, NoLegacyCheck
<1>4. ASSUME NEW r \in Runs, BeginFails(r) PROVE (Serial /\ OpenIsRunning /\ NoLegacyCheck)'
  BY <1>4 DEF BeginFails, Serial, OpenIsRunning, NoLegacyCheck
<1>5. ASSUME NEW r \in Runs, Sweep(r) PROVE (Serial /\ OpenIsRunning /\ NoLegacyCheck)'
  BY <1>5 DEF Sweep, Serial, OpenIsRunning, NoLegacyCheck
<1>6. ASSUME NEW r \in Runs, SumSpent(r) PROVE (Serial /\ OpenIsRunning /\ NoLegacyCheck)'
  BY <1>6 DEF SumSpent, Serial, OpenIsRunning, NoLegacyCheck
<1>7. ASSUME NEW r \in Runs, SumHeld(r) PROVE (Serial /\ OpenIsRunning /\ NoLegacyCheck)'
  BY <1>7 DEF SumHeld, Serial, OpenIsRunning, NoLegacyCheck
<1>8. ASSUME NEW r \in Runs, Refuse(r) PROVE (Serial /\ OpenIsRunning /\ NoLegacyCheck)'
  BY <1>8 DEF Refuse, Rollback, Return, Serial, OpenIsRunning, NoLegacyCheck
<1>9. ASSUME NEW r \in Runs, Insert(r) PROVE (Serial /\ OpenIsRunning /\ NoLegacyCheck)'
  BY <1>9 DEF Insert, Serial, OpenIsRunning, NoLegacyCheck
<1>10. ASSUME NEW r \in Runs, StatementFails(r) PROVE (Serial /\ OpenIsRunning /\ NoLegacyCheck)'
  BY <1>10 DEF StatementFails, Rollback, Return, Serial, OpenIsRunning, NoLegacyCheck
<1>11. ASSUME NEW r \in Runs, CommitHold(r) PROVE (Serial /\ OpenIsRunning /\ NoLegacyCheck)'
  BY <1>11 DEF CommitHold, Commit, Return, Serial, OpenIsRunning, NoLegacyCheck
<1>12. ASSUME NEW r \in Runs, NEW cost \in Costs, Record(r, cost) PROVE (Serial /\ OpenIsRunning /\ NoLegacyCheck)'
  BY <1>12 DEF Record, AfterRow, Serial, OpenIsRunning, NoLegacyCheck
<1>13. ASSUME NEW r \in Runs, RecordFails(r) PROVE (Serial /\ OpenIsRunning /\ NoLegacyCheck)'
  BY <1>13 DEF RecordFails, AfterRow, Serial, OpenIsRunning, NoLegacyCheck
<1>14. ASSUME NEW r \in Runs, SettleDelete(r) PROVE (Serial /\ OpenIsRunning /\ NoLegacyCheck)'
  BY <1>14 DEF SettleDelete, Serial, OpenIsRunning, NoLegacyCheck
<1>15. ASSUME NEW r \in Runs, SettleFails(r) PROVE (Serial /\ OpenIsRunning /\ NoLegacyCheck)'
  BY <1>15 DEF SettleFails, Serial, OpenIsRunning, NoLegacyCheck
<1>16. ASSUME NEW r \in Runs, SettleCommit(r) PROVE (Serial /\ OpenIsRunning /\ NoLegacyCheck)'
  BY <1>16 DEF SettleCommit, Commit, Serial, OpenIsRunning, NoLegacyCheck
<1>17. ASSUME NEW r \in Runs, Age(r) PROVE (Serial /\ OpenIsRunning /\ NoLegacyCheck)'
  BY <1>17 DEF Age, Serial, OpenIsRunning, NoLegacyCheck
<1>18. ASSUME NEW c \in Conns, Crash(c) PROVE (Serial /\ OpenIsRunning /\ NoLegacyCheck)'
  BY <1>18 DEF Crash, Rollback, InFlight, Serial, OpenIsRunning, NoLegacyCheck
<1> QED
  BY <1>1, <1>2, <1>3, <1>4, <1>5, <1>6, <1>7, <1>8, <1>9, <1>10, <1>11, <1>12, <1>13, <1>14, <1>15, <1>16, <1>17, <1>18 DEF Next, Step

\* Who holds the write lock.
LEMMA LockStep ==
    ASSUME MaxThreads = 1, TypeOK, mode = "reserve", ReserveInv, Next
    PROVE  (LockExclusive /\ LockHeld)'
<1> USE DEF ReserveInv, TypeOK, AdmissionTypeOK, Goto, At, dbVars, sumVars, Active,
            InReserve, Ended, TxStates, InTx, MayHaveDeleted, NotAdmitted
<1>1. ASSUME NEW r \in Runs, Start(r) PROVE (LockExclusive /\ LockHeld)'
  BY <1>1 DEF Start, Serial, LockExclusive, LockHeld, NoLegacyCheck
<1>2. ASSUME NEW r \in Runs, LegacyCheck(r) PROVE (LockExclusive /\ LockHeld)'
  BY <1>2 DEF LegacyCheck, Serial, LockExclusive, LockHeld, NoLegacyCheck
<1>3. ASSUME NEW r \in Runs, Begin(r) PROVE (LockExclusive /\ LockHeld)'
  BY <1>3 DEF Begin, LockFree, Serial, LockExclusive, LockHeld, NoLegacyCheck
<1>4. ASSUME NEW r \in Runs, BeginFails(r) PROVE (LockExclusive /\ LockHeld)'
  BY <1>4 DEF BeginFails, Serial, LockExclusive, LockHeld, NoLegacyCheck
<1>5. ASSUME NEW r \in Runs, Sweep(r) PROVE (LockExclusive /\ LockHeld)'
  BY <1>5 DEF Sweep, LockFree, Serial, LockExclusive, LockHeld, NoLegacyCheck
<1>6. ASSUME NEW r \in Runs, SumSpent(r) PROVE (LockExclusive /\ LockHeld)'
  BY <1>6 DEF SumSpent, Serial, LockExclusive, LockHeld, NoLegacyCheck
<1>7. ASSUME NEW r \in Runs, SumHeld(r) PROVE (LockExclusive /\ LockHeld)'
  BY <1>7 DEF SumHeld, Serial, LockExclusive, LockHeld, NoLegacyCheck
<1>8. ASSUME NEW r \in Runs, Refuse(r) PROVE (LockExclusive /\ LockHeld)'
  BY <1>8 DEF Refuse, Rollback, Return, Serial, LockExclusive, LockHeld, NoLegacyCheck
<1>9. ASSUME NEW r \in Runs, Insert(r) PROVE (LockExclusive /\ LockHeld)'
  BY <1>9 DEF Insert, LockFree, Serial, LockExclusive, LockHeld, NoLegacyCheck
<1>10. ASSUME NEW r \in Runs, StatementFails(r) PROVE (LockExclusive /\ LockHeld)'
  BY <1>10 DEF StatementFails, Rollback, Return, Serial, LockExclusive, LockHeld, NoLegacyCheck
<1>11. ASSUME NEW r \in Runs, CommitHold(r) PROVE (LockExclusive /\ LockHeld)'
  BY <1>11 DEF CommitHold, Commit, Return, Serial, LockExclusive, LockHeld, NoLegacyCheck
<1>12. ASSUME NEW r \in Runs, NEW cost \in Costs, Record(r, cost) PROVE (LockExclusive /\ LockHeld)'
  BY <1>12 DEF Record, AfterRow, Serial, LockExclusive, LockHeld, NoLegacyCheck
<1>13. ASSUME NEW r \in Runs, RecordFails(r) PROVE (LockExclusive /\ LockHeld)'
  BY <1>13 DEF RecordFails, AfterRow, Serial, LockExclusive, LockHeld, NoLegacyCheck
<1>14. ASSUME NEW r \in Runs, SettleDelete(r) PROVE (LockExclusive /\ LockHeld)'
  BY <1>14 DEF SettleDelete, LockFree, Serial, LockExclusive, LockHeld, NoLegacyCheck
<1>15. ASSUME NEW r \in Runs, SettleFails(r) PROVE (LockExclusive /\ LockHeld)'
  BY <1>15 DEF SettleFails, LockFree, Serial, LockExclusive, LockHeld, NoLegacyCheck
<1>16. ASSUME NEW r \in Runs, SettleCommit(r) PROVE (LockExclusive /\ LockHeld)'
  BY <1>16 DEF SettleCommit, Commit, Serial, LockExclusive, LockHeld, NoLegacyCheck
<1>17. ASSUME NEW r \in Runs, Age(r) PROVE (LockExclusive /\ LockHeld)'
  BY <1>17 DEF Age, Serial, LockExclusive, LockHeld, NoLegacyCheck
<1>18. ASSUME NEW c \in Conns, Crash(c) PROVE (LockExclusive /\ LockHeld)'
  BY <1>18 DEF Crash, Rollback, InFlight, Serial, LockExclusive, LockHeld, NoLegacyCheck
<1> QED
  BY <1>1, <1>2, <1>3, <1>4, <1>5, <1>6, <1>7, <1>8, <1>9, <1>10, <1>11, <1>12, <1>13, <1>14, <1>15, <1>16, <1>17, <1>18 DEF Next, Step

\* What an open transaction may hold.
LEMMA PendingStep ==
    ASSUME MaxThreads = 1, TypeOK, mode = "reserve", ReserveInv, Next
    PROVE  (InsertedOwn /\ DeletedByOwner /\ DeletedOwn)'
<1> USE DEF ReserveInv, TypeOK, AdmissionTypeOK, Goto, At, dbVars, sumVars, Active,
            InReserve, Ended, TxStates, InTx, MayHaveDeleted, NotAdmitted
<1>1. ASSUME NEW r \in Runs, Start(r) PROVE (InsertedOwn /\ DeletedByOwner /\ DeletedOwn)'
  BY <1>1 DEF Start, Serial, InsertedOwn, DeletedByOwner, DeletedOwn, NoLegacyCheck
<1>2. ASSUME NEW r \in Runs, LegacyCheck(r) PROVE (InsertedOwn /\ DeletedByOwner /\ DeletedOwn)'
  BY <1>2 DEF LegacyCheck, Serial, InsertedOwn, DeletedByOwner, DeletedOwn, NoLegacyCheck
<1>3. ASSUME NEW r \in Runs, Begin(r) PROVE (InsertedOwn /\ DeletedByOwner /\ DeletedOwn)'
  BY <1>3 DEF Begin, Serial, InsertedOwn, DeletedByOwner, DeletedOwn, NoLegacyCheck
<1>4. ASSUME NEW r \in Runs, BeginFails(r) PROVE (InsertedOwn /\ DeletedByOwner /\ DeletedOwn)'
  BY <1>4 DEF BeginFails, Serial, InsertedOwn, DeletedByOwner, DeletedOwn, NoLegacyCheck
<1>5. ASSUME NEW r \in Runs, Sweep(r) PROVE (InsertedOwn /\ DeletedByOwner /\ DeletedOwn)'
  BY <1>5 DEF Sweep, View, Serial, InsertedOwn, DeletedByOwner, DeletedOwn, NoLegacyCheck
<1>6. ASSUME NEW r \in Runs, SumSpent(r) PROVE (InsertedOwn /\ DeletedByOwner /\ DeletedOwn)'
  BY <1>6 DEF SumSpent, Serial, InsertedOwn, DeletedByOwner, DeletedOwn, NoLegacyCheck
<1>7. ASSUME NEW r \in Runs, SumHeld(r) PROVE (InsertedOwn /\ DeletedByOwner /\ DeletedOwn)'
  BY <1>7 DEF SumHeld, Serial, InsertedOwn, DeletedByOwner, DeletedOwn, NoLegacyCheck
<1>8. ASSUME NEW r \in Runs, Refuse(r) PROVE (InsertedOwn /\ DeletedByOwner /\ DeletedOwn)'
  BY <1>8 DEF Refuse, Rollback, Return, Serial, InsertedOwn, DeletedByOwner, DeletedOwn, NoLegacyCheck
<1>9. ASSUME NEW r \in Runs, Insert(r) PROVE (InsertedOwn /\ DeletedByOwner /\ DeletedOwn)'
  BY <1>9 DEF Insert, Serial, InsertedOwn, DeletedByOwner, DeletedOwn, NoLegacyCheck
<1>10. ASSUME NEW r \in Runs, StatementFails(r) PROVE (InsertedOwn /\ DeletedByOwner /\ DeletedOwn)'
  BY <1>10 DEF StatementFails, Rollback, Return, Serial, InsertedOwn, DeletedByOwner, DeletedOwn, NoLegacyCheck
<1>11. ASSUME NEW r \in Runs, CommitHold(r) PROVE (InsertedOwn /\ DeletedByOwner /\ DeletedOwn)'
  BY <1>11 DEF CommitHold, Commit, Return, View, Serial, InsertedOwn, DeletedByOwner, DeletedOwn, NoLegacyCheck
<1>12. ASSUME NEW r \in Runs, NEW cost \in Costs, Record(r, cost) PROVE (InsertedOwn /\ DeletedByOwner /\ DeletedOwn)'
  BY <1>12 DEF Record, AfterRow, Serial, InsertedOwn, DeletedByOwner, DeletedOwn, NoLegacyCheck
<1>13. ASSUME NEW r \in Runs, RecordFails(r) PROVE (InsertedOwn /\ DeletedByOwner /\ DeletedOwn)'
  BY <1>13 DEF RecordFails, AfterRow, Serial, InsertedOwn, DeletedByOwner, DeletedOwn, NoLegacyCheck
<1>14. ASSUME NEW r \in Runs, SettleDelete(r) PROVE (InsertedOwn /\ DeletedByOwner /\ DeletedOwn)'
  BY <1>14 DEF SettleDelete, Serial, InsertedOwn, DeletedByOwner, DeletedOwn, NoLegacyCheck
<1>15. ASSUME NEW r \in Runs, SettleFails(r) PROVE (InsertedOwn /\ DeletedByOwner /\ DeletedOwn)'
  BY <1>15 DEF SettleFails, Serial, InsertedOwn, DeletedByOwner, DeletedOwn, NoLegacyCheck
<1>16. ASSUME NEW r \in Runs, SettleCommit(r) PROVE (InsertedOwn /\ DeletedByOwner /\ DeletedOwn)'
  BY <1>16 DEF SettleCommit, Commit, View, Serial, InsertedOwn, DeletedByOwner, DeletedOwn, NoLegacyCheck
<1>17. ASSUME NEW r \in Runs, Age(r) PROVE (InsertedOwn /\ DeletedByOwner /\ DeletedOwn)'
  BY <1>17 DEF Age, Serial, InsertedOwn, DeletedByOwner, DeletedOwn, NoLegacyCheck
<1>18. ASSUME NEW c \in Conns, Crash(c) PROVE (InsertedOwn /\ DeletedByOwner /\ DeletedOwn)'
  BY <1>18 DEF Crash, Rollback, InFlight, Serial, InsertedOwn, DeletedByOwner, DeletedOwn, NoLegacyCheck
<1> QED
  BY <1>1, <1>2, <1>3, <1>4, <1>5, <1>6, <1>7, <1>8, <1>9, <1>10, <1>11, <1>12, <1>13, <1>14, <1>15, <1>16, <1>17, <1>18 DEF Next, Step

\* Holds belong to admitted runs, and a live one is durable until it expires.
LEMMA HoldsStep ==
    ASSUME MaxThreads = 1, TypeOK, mode = "reserve", ReserveInv, Next
    PROVE  (HoldsAdmitted /\ DeletedExpired /\ LiveHoldsDurable)'
<1> USE DEF ReserveInv, TypeOK, AdmissionTypeOK, Goto, At, dbVars, sumVars, Active,
            InReserve, Ended, TxStates, InTx, MayHaveDeleted, NotAdmitted
<1>1. ASSUME NEW r \in Runs, Start(r) PROVE (HoldsAdmitted /\ DeletedExpired /\ LiveHoldsDurable)'
  BY <1>1 DEF Start, Serial, OpenIsRunning, LockExclusive,
      LockHeld, InsertedOwn, DeletedByOwner, DeletedExpired, DeletedOwn, HoldsAdmitted,
      NoLegacyCheck, LiveHoldsDurable
<1>2. ASSUME NEW r \in Runs, LegacyCheck(r) PROVE (HoldsAdmitted /\ DeletedExpired /\ LiveHoldsDurable)'
  BY <1>2 DEF LegacyCheck, Serial, OpenIsRunning, LockExclusive,
      LockHeld, InsertedOwn, DeletedByOwner, DeletedExpired, DeletedOwn, HoldsAdmitted,
      NoLegacyCheck, LiveHoldsDurable
<1>3. ASSUME NEW r \in Runs, Begin(r) PROVE (HoldsAdmitted /\ DeletedExpired /\ LiveHoldsDurable)'
  BY <1>3 DEF Begin, Serial, OpenIsRunning, LockExclusive,
      LockHeld, InsertedOwn, DeletedByOwner, DeletedExpired, DeletedOwn, HoldsAdmitted,
      NoLegacyCheck, LiveHoldsDurable
<1>4. ASSUME NEW r \in Runs, BeginFails(r) PROVE (HoldsAdmitted /\ DeletedExpired /\ LiveHoldsDurable)'
  BY <1>4 DEF BeginFails, Serial, OpenIsRunning, LockExclusive,
      LockHeld, InsertedOwn, DeletedByOwner, DeletedExpired, DeletedOwn, HoldsAdmitted,
      NoLegacyCheck, LiveHoldsDurable
<1>5. ASSUME NEW r \in Runs, Sweep(r) PROVE (HoldsAdmitted /\ DeletedExpired /\ LiveHoldsDurable)'
  BY <1>5 DEF Sweep, View, Serial, OpenIsRunning, LockExclusive,
      LockHeld, InsertedOwn, DeletedByOwner, DeletedExpired, DeletedOwn, HoldsAdmitted,
      NoLegacyCheck, LiveHoldsDurable
<1>6. ASSUME NEW r \in Runs, SumSpent(r) PROVE (HoldsAdmitted /\ DeletedExpired /\ LiveHoldsDurable)'
  BY <1>6 DEF SumSpent, Serial, OpenIsRunning, LockExclusive,
      LockHeld, InsertedOwn, DeletedByOwner, DeletedExpired, DeletedOwn, HoldsAdmitted,
      NoLegacyCheck, LiveHoldsDurable
<1>7. ASSUME NEW r \in Runs, SumHeld(r) PROVE (HoldsAdmitted /\ DeletedExpired /\ LiveHoldsDurable)'
  BY <1>7 DEF SumHeld, Serial, OpenIsRunning, LockExclusive,
      LockHeld, InsertedOwn, DeletedByOwner, DeletedExpired, DeletedOwn, HoldsAdmitted,
      NoLegacyCheck, LiveHoldsDurable
<1>8. ASSUME NEW r \in Runs, Refuse(r) PROVE (HoldsAdmitted /\ DeletedExpired /\ LiveHoldsDurable)'
  BY <1>8 DEF Refuse, Rollback, Return, Serial, OpenIsRunning, LockExclusive,
      LockHeld, InsertedOwn, DeletedByOwner, DeletedExpired, DeletedOwn, HoldsAdmitted,
      NoLegacyCheck, LiveHoldsDurable
<1>9. ASSUME NEW r \in Runs, Insert(r) PROVE (HoldsAdmitted /\ DeletedExpired /\ LiveHoldsDurable)'
  BY <1>9 DEF Insert, Serial, OpenIsRunning, LockExclusive,
      LockHeld, InsertedOwn, DeletedByOwner, DeletedExpired, DeletedOwn, HoldsAdmitted,
      NoLegacyCheck, LiveHoldsDurable
<1>10. ASSUME NEW r \in Runs, StatementFails(r) PROVE (HoldsAdmitted /\ DeletedExpired /\ LiveHoldsDurable)'
  BY <1>10 DEF StatementFails, Rollback, Return, Serial, OpenIsRunning, LockExclusive,
      LockHeld, InsertedOwn, DeletedByOwner, DeletedExpired, DeletedOwn, HoldsAdmitted,
      NoLegacyCheck, LiveHoldsDurable
<1>11. ASSUME NEW r \in Runs, CommitHold(r) PROVE (HoldsAdmitted /\ DeletedExpired /\ LiveHoldsDurable)'
  BY <1>11 DEF CommitHold, Commit, Return, View, Serial, OpenIsRunning, LockExclusive,
      LockHeld, InsertedOwn, DeletedByOwner, DeletedExpired, DeletedOwn, HoldsAdmitted,
      NoLegacyCheck, LiveHoldsDurable
<1>12. ASSUME NEW r \in Runs, NEW cost \in Costs, Record(r, cost) PROVE (HoldsAdmitted /\ DeletedExpired /\ LiveHoldsDurable)'
  BY <1>12 DEF Record, AfterRow, Serial, OpenIsRunning, LockExclusive,
      LockHeld, InsertedOwn, DeletedByOwner, DeletedExpired, DeletedOwn, HoldsAdmitted,
      NoLegacyCheck, LiveHoldsDurable
<1>13. ASSUME NEW r \in Runs, RecordFails(r) PROVE (HoldsAdmitted /\ DeletedExpired /\ LiveHoldsDurable)'
  BY <1>13 DEF RecordFails, AfterRow, Serial, OpenIsRunning, LockExclusive,
      LockHeld, InsertedOwn, DeletedByOwner, DeletedExpired, DeletedOwn, HoldsAdmitted,
      NoLegacyCheck, LiveHoldsDurable
<1>14. ASSUME NEW r \in Runs, SettleDelete(r) PROVE (HoldsAdmitted /\ DeletedExpired /\ LiveHoldsDurable)'
  BY <1>14 DEF SettleDelete, Serial, OpenIsRunning, LockExclusive,
      LockHeld, InsertedOwn, DeletedByOwner, DeletedExpired, DeletedOwn, HoldsAdmitted,
      NoLegacyCheck, LiveHoldsDurable
<1>15. ASSUME NEW r \in Runs, SettleFails(r) PROVE (HoldsAdmitted /\ DeletedExpired /\ LiveHoldsDurable)'
  BY <1>15 DEF SettleFails, Serial, OpenIsRunning, LockExclusive,
      LockHeld, InsertedOwn, DeletedByOwner, DeletedExpired, DeletedOwn, HoldsAdmitted,
      NoLegacyCheck, LiveHoldsDurable
<1>16. ASSUME NEW r \in Runs, SettleCommit(r) PROVE (HoldsAdmitted /\ DeletedExpired /\ LiveHoldsDurable)'
  BY <1>16 DEF SettleCommit, Commit, View, Serial, OpenIsRunning, LockExclusive,
      LockHeld, InsertedOwn, DeletedByOwner, DeletedExpired, DeletedOwn, HoldsAdmitted,
      NoLegacyCheck, LiveHoldsDurable
<1>17. ASSUME NEW r \in Runs, Age(r) PROVE (HoldsAdmitted /\ DeletedExpired /\ LiveHoldsDurable)'
  BY <1>17 DEF Age, Serial, OpenIsRunning, LockExclusive,
      LockHeld, InsertedOwn, DeletedByOwner, DeletedExpired, DeletedOwn, HoldsAdmitted,
      NoLegacyCheck, LiveHoldsDurable
<1>18. ASSUME NEW c \in Conns, Crash(c) PROVE (HoldsAdmitted /\ DeletedExpired /\ LiveHoldsDurable)'
  BY <1>18 DEF Crash, Rollback, InFlight, Serial, OpenIsRunning, LockExclusive,
      LockHeld, InsertedOwn, DeletedByOwner, DeletedExpired, DeletedOwn, HoldsAdmitted,
      NoLegacyCheck, LiveHoldsDurable
<1> QED
  BY <1>1, <1>2, <1>3, <1>4, <1>5, <1>6, <1>7, <1>8, <1>9, <1>10, <1>11, <1>12, <1>13, <1>14, <1>15, <1>16, <1>17, <1>18 DEF Next, Step

\* What a run has read in its transaction stays true until it decides.
LEMMA SumsStep ==
    ASSUME MaxThreads = 1, TypeOK, mode = "reserve", ReserveInv, Next
    PROVE  SumsCurrent'
<1> USE DEF ReserveInv, TypeOK, AdmissionTypeOK, Goto, At, dbVars, sumVars, Active,
            InReserve, Ended, TxStates, InTx, MayHaveDeleted, NotAdmitted
<1>1. ASSUME NEW r \in Runs, Start(r) PROVE SumsCurrent'
  <2>1. \A q \in Runs : pc'[q] \in {"held", "insert", "commit"} => pc'[q] = pc[q]
    BY <1>1 DEF Start
  <2>2. UNCHANGED <<spent, sumSpent, sumHeld, resv, del>>
    BY <1>1 DEF Start
  <2> QED BY <2>1, <2>2 DEF SumsCurrent, Fits
<1>2. ASSUME NEW r \in Runs, LegacyCheck(r) PROVE SumsCurrent'
  BY <1>2 DEF LegacyCheck, Serial, LockExclusive, LockHeld,
      InsertedOwn, SumsCurrent, NoLegacyCheck, Fits
<1>3. ASSUME NEW r \in Runs, Begin(r) PROVE SumsCurrent'
  BY <1>3 DEF Begin, Serial, LockExclusive, LockHeld,
      InsertedOwn, SumsCurrent, NoLegacyCheck, Fits
<1>4. ASSUME NEW r \in Runs, BeginFails(r) PROVE SumsCurrent'
  BY <1>4 DEF BeginFails, Serial, LockExclusive, LockHeld,
      InsertedOwn, SumsCurrent, NoLegacyCheck, Fits
<1>5. ASSUME NEW r \in Runs, Sweep(r) PROVE SumsCurrent'
  BY <1>5 DEF Sweep, View, Serial, LockExclusive, LockHeld,
      InsertedOwn, SumsCurrent, NoLegacyCheck, Fits
<1>6. ASSUME NEW r \in Runs, SumSpent(r) PROVE SumsCurrent'
  BY <1>6 DEF SumSpent, Serial, LockExclusive, LockHeld,
      InsertedOwn, SumsCurrent, NoLegacyCheck, Fits
<1>7. ASSUME NEW r \in Runs, SumHeld(r) PROVE SumsCurrent'
  <2>1. View(ConnOf[r]) = resv \ del[ConnOf[r]]
    BY <1>7 DEF SumHeld, View, Serial, InsertedOwn
  <2>2. MaxRun * Cardinality(resv \ del[ConnOf[r]]) \in Nat
    BY RunsFinite
  <2> QED BY <1>7, <2>1, <2>2 DEF SumHeld, Serial, LockExclusive, LockHeld,
      InsertedOwn, SumsCurrent, NoLegacyCheck, Fits
<1>8. ASSUME NEW r \in Runs, Refuse(r) PROVE SumsCurrent'
  BY <1>8 DEF Refuse, Rollback, Return, Serial, LockExclusive, LockHeld,
      InsertedOwn, SumsCurrent, NoLegacyCheck, Fits
<1>9. ASSUME NEW r \in Runs, Insert(r) PROVE SumsCurrent'
  BY <1>9 DEF Insert, Serial, LockExclusive, LockHeld,
      InsertedOwn, SumsCurrent, NoLegacyCheck, Fits
<1>10. ASSUME NEW r \in Runs, StatementFails(r) PROVE SumsCurrent'
  BY <1>10 DEF StatementFails, Rollback, Return, Serial, LockExclusive, LockHeld,
      InsertedOwn, SumsCurrent, NoLegacyCheck, Fits
<1>11. ASSUME NEW r \in Runs, CommitHold(r) PROVE SumsCurrent'
  BY <1>11 DEF CommitHold, Commit, Return, View, Serial, LockExclusive, LockHeld,
      InsertedOwn, SumsCurrent, NoLegacyCheck, Fits
<1>12. ASSUME NEW r \in Runs, NEW cost \in Costs, Record(r, cost) PROVE SumsCurrent'
  BY <1>12 DEF Record, AfterRow, Serial, LockExclusive, LockHeld,
      InsertedOwn, SumsCurrent, NoLegacyCheck, Fits
<1>13. ASSUME NEW r \in Runs, RecordFails(r) PROVE SumsCurrent'
  BY <1>13 DEF RecordFails, AfterRow, Serial, LockExclusive, LockHeld,
      InsertedOwn, SumsCurrent, NoLegacyCheck, Fits
<1>14. ASSUME NEW r \in Runs, SettleDelete(r) PROVE SumsCurrent'
  <2>1. \A q \in Runs : pc'[q] \notin {"held", "insert", "commit"}
    BY <1>14 DEF SettleDelete, LockFree, Serial, LockHeld
  <2> QED BY <2>1 DEF SumsCurrent
<1>15. ASSUME NEW r \in Runs, SettleFails(r) PROVE SumsCurrent'
  BY <1>15 DEF SettleFails, Serial, LockExclusive, LockHeld,
      InsertedOwn, SumsCurrent, NoLegacyCheck, Fits
<1>16. ASSUME NEW r \in Runs, SettleCommit(r) PROVE SumsCurrent'
  BY <1>16 DEF SettleCommit, Commit, View, Serial, LockExclusive, LockHeld,
      InsertedOwn, SumsCurrent, NoLegacyCheck, Fits
<1>17. ASSUME NEW r \in Runs, Age(r) PROVE SumsCurrent'
  BY <1>17 DEF Age, Serial, LockExclusive, LockHeld,
      InsertedOwn, SumsCurrent, NoLegacyCheck, Fits
<1>18. ASSUME NEW c \in Conns, Crash(c) PROVE SumsCurrent'
  BY <1>18 DEF Crash, Rollback, InFlight, Serial, LockExclusive, LockHeld,
      InsertedOwn, SumsCurrent, NoLegacyCheck, Fits
<1> QED
  BY <1>1, <1>2, <1>3, <1>4, <1>5, <1>6, <1>7, <1>8, <1>9, <1>10, <1>11, <1>12, <1>13, <1>14, <1>15, <1>16, <1>17, <1>18 DEF Next, Step

-----------------------------------------------------------------------------
(* The budget *)

\* A step that closes runs, and adds neither spend nor open runs, keeps the bound.
LEMMA BoundKept ==
    ASSUME TypeOK, TypeOK', BudgetRespected, mode = "reserve",
           spent' = spent, excess' = excess, mode' = mode,
           open' \subseteq open, overran \subseteq overran'
    PROVE  BudgetRespected'
<1> DEFINE o == Cardinality(open)
           p == Cardinality(open')
           v == Cardinality(overran)
           w == Cardinality(overran')
<1>1. /\ o \in Nat /\ p \in Nat /\ v \in Nat /\ w \in Nat
      /\ p <= o /\ v <= w
  BY RunsFinite, CardinalityMono DEF TypeOK, AdmissionTypeOK
<1>2. MaxRun * p <= MaxRun * o /\ MaxRun * v <= MaxRun * w
  BY <1>1, TimesMono
<1>3. /\ MaxRun * p \in Nat /\ MaxRun * o \in Nat
      /\ MaxRun * v \in Nat /\ MaxRun * w \in Nat
  BY <1>1, TimesMono
<1>4. spent + MaxRun * o <= Budget + MaxRun * v + excess
  BY DEF BudgetRespected
<1> HIDE DEF o, p, v, w
<1>5. spent + MaxRun * p <= Budget + MaxRun * w + excess
  <2> DEFINE mo == MaxRun * o
             mp == MaxRun * p
             mv == MaxRun * v
             mw == MaxRun * w
  <2>1. /\ mp <= mo /\ mv <= mw /\ spent + mo <= Budget + mv + excess
        /\ mp \in Nat /\ mo \in Nat /\ mv \in Nat /\ mw \in Nat
    BY <1>2, <1>3, <1>4
  <2> HIDE DEF mo, mp, mv, mw
  <2>2. spent + mp <= Budget + mw + excess
    BY <2>1 DEF TypeOK, AdmissionTypeOK
  <2> QED BY <2>2 DEF mp, mw
<1> QED
  BY <1>5 DEF BudgetRespected, p, w

\* What the gate has read is still so when the run is admitted: with the holds
\* of the runs that are open and unexpired afterwards, the run fits the budget.
LEMMA AdmissionFits ==
    ASSUME TypeOK, TypeOK', mode = "reserve", ReserveInv,
           NEW r \in Runs, CommitHold(r)
    PROVE  spent + MaxRun * Cardinality(open \ overran') + MaxRun <= Budget
<1> DEFINE kept == resv \ del[ConnOf[r]]
           a == Cardinality(open \ overran')
           b == Cardinality(kept)
<1>1. spent + MaxRun * b + MaxRun <= Budget
  BY DEF CommitHold, At, ReserveInv, SumsCurrent, Fits
<1>2. open \ overran' \subseteq kept
  BY DEF CommitHold, Commit, At, ReserveInv, LiveHoldsDurable, DeletedExpired,
         OpenIsRunning, TypeOK, AdmissionTypeOK
<1>3. kept \subseteq Runs
  BY DEF TypeOK
<1>4. a \in Nat /\ b \in Nat /\ a <= b
  BY <1>2, <1>3, CardinalityMono, RunsFinite
<1>5. MaxRun * a \in Nat /\ MaxRun * b \in Nat /\ MaxRun * a <= MaxRun * b
  BY <1>4, TimesMono
<1> HIDE DEF a, b
<1>6. spent + MaxRun * a + MaxRun <= Budget
  <2> DEFINE ma == MaxRun * a
             mb == MaxRun * b
  <2>1. ma \in Nat /\ mb \in Nat /\ ma <= mb /\ spent + mb + MaxRun <= Budget
    BY <1>1, <1>5
  <2> HIDE DEF ma, mb
  <2>2. spent + ma + MaxRun <= Budget
    BY <2>1 DEF TypeOK, AdmissionTypeOK
  <2> QED BY <2>2 DEF ma
<1> QED BY <1>6 DEF a

\* An admission that fits keeps the bound.
LEMMA BoundAdmitted ==
    ASSUME TypeOK, TypeOK', mode = "reserve", ReserveInv,
           NEW r \in Runs, CommitHold(r)
    PROVE  BudgetRespected'
<1> DEFINE a == Cardinality(open \ overran')
           p == Cardinality(open')
           w == Cardinality(overran')
<1>1. spent + MaxRun * a + MaxRun <= Budget
  BY AdmissionFits
<1>2. p \in Nat /\ a \in Nat /\ w \in Nat /\ p <= a + 1 + w
  <2>1. open' \subseteq ((open \ overran') \cup {r}) \cup overran'
    BY DEF CommitHold
  <2>2. open \ overran' \subseteq Runs /\ overran' \subseteq Runs /\ open' \subseteq Runs
    BY DEF TypeOK, AdmissionTypeOK
  <2> QED BY <2>1, <2>2, UnionBound, RunsFinite
<1>3. spent' = spent /\ excess' = excess /\ mode' = mode
  BY DEF CommitHold
<1> HIDE DEF a, p, w
<1>4. MaxRun * p <= MaxRun * a + MaxRun + MaxRun * w
  <2>1. MaxRun * p <= MaxRun * (a + 1 + w)
    BY <1>2, TimesMono
  <2>2. MaxRun * (a + 1 + w) = MaxRun * a + MaxRun + MaxRun * w
    BY <1>2, SMT
  <2> QED BY <2>1, <2>2
<1>5. MaxRun * p \in Nat /\ MaxRun * a \in Nat /\ MaxRun * w \in Nat
  BY <1>2, TimesMono
<1>6. spent + MaxRun * p <= Budget + MaxRun * w + excess
  <2> DEFINE mp == MaxRun * p
             ma == MaxRun * a
             mw == MaxRun * w
  <2>1. /\ mp \in Nat /\ ma \in Nat /\ mw \in Nat
        /\ mp <= ma + MaxRun + mw /\ spent + ma + MaxRun <= Budget
    BY <1>1, <1>4, <1>5
  <2> HIDE DEF mp, ma, mw
  <2>2. spent + mp <= Budget + mw + excess
    BY <2>1 DEF TypeOK, AdmissionTypeOK
  <2> QED BY <2>2 DEF mp, mw
<1> QED
  BY <1>3, <1>6 DEF BudgetRespected, p, w

\* A recorded cost is paid for by the run that leaves, and what it has above
\* MaxRun by `excess`.
LEMMA BoundRecorded ==
    ASSUME TypeOK, TypeOK', mode = "reserve", ReserveInv, BudgetRespected,
           NEW r \in Runs, NEW cost \in Costs, Record(r, cost)
    PROVE  BudgetRespected'
<1> DEFINE o == Cardinality(open)
           p == Cardinality(open')
           v == Cardinality(overran)
<1>1. r \in open /\ open' = open \ {r}
  BY DEF Record, ReserveInv, OpenIsRunning, At
<1>2. o \in Nat /\ p \in Nat /\ v \in Nat /\ o = p + 1
  BY <1>1, RunsFinite, FS_RemoveElement DEF TypeOK, AdmissionTypeOK
<1>3. /\ spent' = spent + cost /\ excess' = excess + Above(cost)
      /\ mode' = mode /\ overran' = overran
  BY DEF Record
<1>4. spent + MaxRun * o <= Budget + MaxRun * v + excess
  BY DEF BudgetRespected
<1> HIDE DEF o, p, v
<1>5. MaxRun * o = MaxRun * p + MaxRun
  BY <1>2, SMT
<1>6. MaxRun * p \in Nat /\ MaxRun * v \in Nat
  BY <1>2, TimesMono
<1>7. (spent + cost) + MaxRun * p <= Budget + MaxRun * v + (excess + Above(cost))
  <2> DEFINE mp == MaxRun * p
             mv == MaxRun * v
             e  == Above(cost)
  <2>1. /\ mp \in Nat /\ mv \in Nat /\ e \in Nat /\ cost \in Nat
        /\ cost <= MaxRun + e
        /\ spent + (mp + MaxRun) <= Budget + mv + excess
    BY <1>4, <1>5, <1>6, AboveBounds
  <2> HIDE DEF mp, mv, e
  <2>2. (spent + cost) + mp <= Budget + mv + (excess + e)
    BY <2>1 DEF TypeOK, AdmissionTypeOK
  <2> QED BY <2>2 DEF mp, mv, e
<1> QED
  BY <1>3, <1>7 DEF BudgetRespected, p, v

\* Every step of the reserving gate keeps the budget.
LEMMA BoundStep ==
    ASSUME TypeOK, TypeOK', mode = "reserve", ReserveInv, BudgetRespected, Next
    PROVE  BudgetRespected'
<1>1. ASSUME NEW r \in Runs, CommitHold(r) PROVE BudgetRespected'
  BY <1>1, BoundAdmitted
<1>2. ASSUME NEW r \in Runs, NEW cost \in Costs, Record(r, cost) PROVE BudgetRespected'
  BY <1>2, BoundRecorded
<1>3. ASSUME NEW r \in Runs,
             \/ Start(r) \/ Age(r) \/ Begin(r) \/ BeginFails(r) \/ Sweep(r) \/ SumSpent(r)
             \/ SumHeld(r) \/ Refuse(r) \/ Insert(r) \/ StatementFails(r)
             \/ RecordFails(r) \/ SettleDelete(r) \/ SettleFails(r) \/ SettleCommit(r)
      PROVE  BudgetRespected'
  <2>1. /\ spent' = spent /\ excess' = excess /\ mode' = mode
        /\ open' \subseteq open /\ overran \subseteq overran'
    BY <1>3 DEF Start, Age, Begin, BeginFails, Sweep, SumSpent, SumHeld, Refuse, Insert,
                StatementFails, RecordFails, SettleDelete, SettleFails, SettleCommit,
                Rollback, Commit
  <2> QED BY <2>1, BoundKept
<1>4. ASSUME NEW c \in Conns, Crash(c) PROVE BudgetRespected'
  <2>1. /\ spent' = spent /\ excess' = excess /\ mode' = mode
        /\ open' \subseteq open /\ overran \subseteq overran'
    BY <1>4 DEF Crash, Rollback
  <2> QED BY <2>1, BoundKept
<1>5. ASSUME NEW r \in Runs, LegacyCheck(r) PROVE BudgetRespected'
  BY <1>5 DEF LegacyCheck, At, ReserveInv, NoLegacyCheck
<1> QED
  BY <1>1, <1>2, <1>3, <1>4, <1>5 DEF Next, Step

\* Without reservations, no run is ever in a transaction.
LEMMA OtherStep ==
    ASSUME TypeOK, mode # "reserve", OtherInv, Next
    PROVE  OtherInv'
<1> USE DEF OtherInv, TypeOK, AdmissionTypeOK, Modes, Goto, At, dbVars, sumVars
<1>1. ASSUME NEW r \in Runs, Start(r) \/ LegacyCheck(r) \/ RecordFails(r) \/ Age(r)
      PROVE  OtherInv'
  BY <1>1 DEF Start, LegacyCheck, RecordFails, Age, AfterRow
<1>2. ASSUME NEW r \in Runs, NEW cost \in Costs, Record(r, cost) PROVE OtherInv'
  BY <1>2 DEF Record, AfterRow
<1>3. ASSUME NEW r \in Runs,
             \/ Begin(r) \/ BeginFails(r) \/ Sweep(r) \/ SumSpent(r) \/ SumHeld(r)
             \/ Refuse(r) \/ Insert(r) \/ StatementFails(r) \/ CommitHold(r)
             \/ SettleDelete(r) \/ SettleFails(r) \/ SettleCommit(r)
      PROVE  FALSE
  BY <1>3 DEF Begin, BeginFails, Sweep, SumSpent, SumHeld, Refuse, Insert,
              StatementFails, CommitHold, SettleDelete, SettleFails, SettleCommit
<1>4. ASSUME NEW c \in Conns, Crash(c) PROVE OtherInv'
  BY <1>4 DEF Crash, Rollback, InFlight
<1> QED
  BY <1>1, <1>2, <1>3, <1>4 DEF Next, Step

LEMMA InvInit == Init => IInv
<1> SUFFICES ASSUME Init PROVE IInv
  OBVIOUS
<1>1. TypeOK
  BY DEF Init, AdmissionInit, TypeOK, AdmissionTypeOK, Modes, TxStates, Active,
         InReserve, Ended
<1>2. ReserveInv
  BY DEF Init, AdmissionInit, ReserveInv, Serial, OpenIsRunning, LockExclusive, LockHeld,
         InsertedOwn, DeletedByOwner, DeletedExpired, DeletedOwn, HoldsAdmitted,
         SumsCurrent, NoLegacyCheck, LiveHoldsDurable, Active, InReserve, InTx
<1>3. BudgetRespected
  <2>1. Cardinality(open) = 0 /\ Cardinality(overran) = 0
    BY FS_EmptySet DEF Init, AdmissionInit
  <2> QED BY <2>1 DEF Init, AdmissionInit, BudgetRespected
<1>4. OtherInv
  BY DEF Init, AdmissionInit, OtherInv
<1> QED
  BY <1>1, <1>2, <1>3, <1>4 DEF IInv

LEMMA InvStep ==
    ASSUME MaxThreads = 1
    PROVE  IInv /\ [Next]_vars => IInv'
<1> SUFFICES ASSUME IInv, [Next]_vars PROVE IInv'
  OBVIOUS
<1>1. TypeOK /\ TypeOK'
  BY TypeStep DEF IInv
<1>2. mode' = mode
  BY DEF Next, Step, Start, LegacyCheck, Begin, BeginFails, Sweep, SumSpent, SumHeld,
         Refuse, Insert, StatementFails, CommitHold, Record, RecordFails, SettleDelete,
         SettleFails, SettleCommit, Age, Crash, vars
<1>3. CASE Next /\ mode = "reserve"
  <2>1. ReserveInv /\ BudgetRespected
    BY <1>3 DEF IInv
  <2>2. /\ (Serial /\ OpenIsRunning /\ NoLegacyCheck)'
        /\ (LockExclusive /\ LockHeld)'
        /\ (InsertedOwn /\ DeletedByOwner /\ DeletedOwn)'
        /\ (HoldsAdmitted /\ DeletedExpired /\ LiveHoldsDurable)'
        /\ SumsCurrent'
    BY <1>1, <1>3, <2>1, ControlStep, LockStep, PendingStep, HoldsStep, SumsStep
  <2>3. BudgetRespected'
    BY <1>1, <1>3, <2>1, BoundStep
  <2> QED BY <1>1, <1>2, <1>3, <2>2, <2>3 DEF IInv, ReserveInv
<1>4. CASE Next /\ mode # "reserve"
  BY <1>1, <1>2, <1>4, OtherStep DEF IInv
<1>5. CASE UNCHANGED vars
  <2> USE <1>5 DEF vars
  <2>1. BudgetRespected' = BudgetRespected
    BY DEF BudgetRespected
  <2>2. OtherInv' = OtherInv
    BY DEF OtherInv
  <2>3. Serial' = Serial /\ OpenIsRunning' = OpenIsRunning /\ NoLegacyCheck' = NoLegacyCheck
    BY DEF Serial, OpenIsRunning, NoLegacyCheck
  <2>4. LockExclusive' = LockExclusive /\ LockHeld' = LockHeld
    BY DEF LockExclusive, LockHeld
  <2>5. /\ InsertedOwn' = InsertedOwn /\ DeletedByOwner' = DeletedByOwner
        /\ DeletedOwn' = DeletedOwn /\ DeletedExpired' = DeletedExpired
    BY DEF InsertedOwn, DeletedByOwner, DeletedOwn, DeletedExpired
  <2>6. HoldsAdmitted' = HoldsAdmitted /\ LiveHoldsDurable' = LiveHoldsDurable
    BY DEF HoldsAdmitted, LiveHoldsDurable
  <2>7. SumsCurrent' = SumsCurrent
    BY DEF SumsCurrent, Fits
  <2>8. ReserveInv' = ReserveInv
    BY <2>3, <2>4, <2>5, <2>6, <2>7 DEF ReserveInv
  <2> QED BY <1>1, <1>2, <2>1, <2>2, <2>8 DEF IInv
<1> QED
  BY <1>3, <1>4, <1>5

-----------------------------------------------------------------------------
(* Theorems *)

LEMMA Invariance ==
    ASSUME MaxThreads = 1
    PROVE  Spec => []IInv
<1>1. Init => IInv
  BY InvInit
<1>2. IInv /\ [Next]_vars => IInv'
  BY InvStep
<1> QED
  BY <1>1, <1>2, PTL DEF Spec

\* However many processes run the agent, die or outlive their holds, the open
\* runs fit the budget up to one max_run_usd per outlived hold and what runs
\* cost above it.
THEOREM BudgetKept ==
    ASSUME MaxThreads = 1
    PROVE  Spec => []BudgetRespected
<1>1. IInv => BudgetRespected
  BY DEF IInv, BudgetRespected
<1> QED
  BY <1>1, Invariance, PTL

\* The hold of an open run is a committed row until it expires.
THEOREM HoldsDurable ==
    ASSUME MaxThreads = 1
    PROVE  Spec => []LiveHoldsDurable
<1>1. IInv => LiveHoldsDurable
  BY DEF IInv, ReserveInv, LiveHoldsDurable
<1> QED
  BY <1>1, Invariance, PTL

-----------------------------------------------------------------------------
(* The five statements implement the atomic admission *)

\* The commit of an admission is the atomic decision: the holds it swept expire
\* in it, and with those left the run fits the budget.
LEMMA HoldAdmits ==
    ASSUME TypeOK, TypeOK', mode = "reserve", ReserveInv,
           NEW r \in Runs, CommitHold(r)
    PROVE  AdmissionNext
<1> DEFINE swept == del[ConnOf[r]] \cap old \cap open
<1>1. r \notin open /\ r \notin overran
  BY DEF CommitHold, At, ReserveInv, OpenIsRunning, HoldsAdmitted, NotAdmitted, InReserve
<1>2. swept \subseteq open /\ overran' = overran \cup swept
  BY DEF CommitHold, Commit
<1>3. spent + MaxRun * Cardinality(open \ overran') + MaxRun <= Budget
  BY AdmissionFits
<1>4. open' = open \cup {r} /\ UNCHANGED <<mode, spent, excess>>
  BY DEF CommitHold
<1>5. Admit(r, swept)
  BY <1>1, <1>2, <1>3, <1>4 DEF Admit
<1> QED BY <1>2, <1>5 DEF AdmissionNext

\* Every other step of the reserving gate is no decision: it ends a run, ends the
\* runs of a dead process, or changes nothing the budget is about.
LEMMA OtherReserveSteps ==
    ASSUME TypeOK, mode = "reserve", ReserveInv, Next,
           \A r \in Runs : ~CommitHold(r)
    PROVE  [AdmissionNext]_absVars
<1>1. ASSUME NEW r \in Runs,
             \/ Start(r) \/ Age(r) \/ Begin(r) \/ BeginFails(r) \/ Sweep(r) \/ SumSpent(r)
             \/ SumHeld(r) \/ Refuse(r) \/ Insert(r) \/ StatementFails(r)
             \/ SettleDelete(r) \/ SettleFails(r)
      PROVE  UNCHANGED absVars
  BY <1>1 DEF Start, Age, Begin, BeginFails, Sweep, SumSpent, SumHeld, Refuse, Insert,
              StatementFails, SettleDelete, SettleFails, Rollback, absVars
<1>2. ASSUME NEW r \in Runs, SettleCommit(r) PROVE UNCHANGED absVars
  <2>1. del[ConnOf[r]] \subseteq {r} /\ r \notin open
    BY <1>2 DEF SettleCommit, At, ReserveInv, DeletedOwn, OpenIsRunning
  <2>2. overran' = overran
    BY <1>2, <2>1 DEF SettleCommit, Commit
  <2> QED BY <1>2, <2>2 DEF SettleCommit, absVars
<1>3. ASSUME NEW r \in Runs, NEW cost \in Costs, Record(r, cost) PROVE AdmissionNext
  <2>1. r \in open
    BY <1>3 DEF Record, At, ReserveInv, OpenIsRunning
  <2>2. Finish(r, cost)
    BY <1>3, <2>1 DEF Record, Finish
  <2> QED BY <2>2 DEF AdmissionNext
<1>4. ASSUME NEW r \in Runs, RecordFails(r) PROVE AdmissionNext
  <2>1. r \in open
    BY <1>4 DEF RecordFails, At, ReserveInv, OpenIsRunning
  <2>2. Abandon({r})
    BY <1>4, <2>1 DEF RecordFails, Abandon
  <2> QED BY <2>1, <2>2 DEF AdmissionNext
<1>5. ASSUME NEW c \in Conns, Crash(c) PROVE AdmissionNext
  <2>1. open' = open \ (InFlight(c) \cap open)
    BY <1>5 DEF Crash
  <2>2. Abandon(InFlight(c) \cap open)
    BY <1>5, <2>1 DEF Crash, Rollback, Abandon
  <2> QED BY <2>2 DEF AdmissionNext
<1>6. ASSUME NEW r \in Runs, LegacyCheck(r) PROVE FALSE
  BY <1>6 DEF LegacyCheck, At, ReserveInv, NoLegacyCheck
<1> QED
  BY <1>1, <1>2, <1>3, <1>4, <1>5, <1>6 DEF Next, Step

\* Without reservations the read of the spend is the decision.
LEMMA LegacySteps ==
    ASSUME TypeOK, mode # "reserve", OtherInv, Next
    PROVE  [AdmissionNext]_absVars
<1>1. ASSUME NEW r \in Runs, LegacyCheck(r) PROVE [AdmissionNext]_absVars
  <2>1. CASE UNCHANGED open
    BY <1>1, <2>1 DEF LegacyCheck, absVars
  <2>2. CASE spent < Budget /\ open' = open \cup {r} /\ mode = "legacy"
    <3>1. r \notin open
      BY <1>1 DEF LegacyCheck, At, OtherInv
    <3>2. Admit(r, {})
      BY <1>1, <2>2, <3>1 DEF LegacyCheck, Admit
    <3> QED BY <3>2 DEF AdmissionNext
  <2> QED BY <1>1, <2>1, <2>2 DEF LegacyCheck, At, OtherInv
<1>2. ASSUME NEW r \in Runs, NEW cost \in Costs, Record(r, cost) PROVE AdmissionNext
  <2>1. r \in open
    BY <1>2 DEF Record, At, OtherInv
  <2>2. Finish(r, cost)
    BY <1>2, <2>1 DEF Record, Finish
  <2> QED BY <2>2 DEF AdmissionNext
<1>3. ASSUME NEW r \in Runs, RecordFails(r) PROVE AdmissionNext
  <2>1. r \in open
    BY <1>3 DEF RecordFails, At, OtherInv
  <2>2. Abandon({r})
    BY <1>3, <2>1 DEF RecordFails, Abandon
  <2> QED BY <2>1, <2>2 DEF AdmissionNext
<1>4. ASSUME NEW c \in Conns, Crash(c) PROVE AdmissionNext
  <2>1. open' = open \ (InFlight(c) \cap open)
    BY <1>4 DEF Crash
  <2>2. Abandon(InFlight(c) \cap open)
    BY <1>4, <2>1 DEF Crash, Rollback, Abandon
  <2> QED BY <2>2 DEF AdmissionNext
<1>5. ASSUME NEW r \in Runs, Start(r) \/ Age(r) PROVE UNCHANGED absVars
  BY <1>5 DEF Start, Age, absVars
<1>6. ASSUME NEW r \in Runs,
             \/ Begin(r) \/ BeginFails(r) \/ Sweep(r) \/ SumSpent(r) \/ SumHeld(r)
             \/ Refuse(r) \/ Insert(r) \/ StatementFails(r) \/ CommitHold(r)
             \/ SettleDelete(r) \/ SettleFails(r) \/ SettleCommit(r)
      PROVE  FALSE
  BY <1>6 DEF Begin, BeginFails, Sweep, SumSpent, SumHeld, Refuse, Insert, At, OtherInv,
              StatementFails, CommitHold, SettleDelete, SettleFails, SettleCommit
<1> QED
  BY <1>1, <1>2, <1>3, <1>4, <1>5, <1>6 DEF Next, Step

\* For any number of processes that run the agent one run at a time, any amounts
\* and any interleaving of their statements, crashes and expiring holds, the gate
\* decides like one atomic admission (governance/audit.py, reserve: "under one
\* BEGIN IMMEDIATE transaction").
THEOREM GateIsAtomic ==
    ASSUME MaxThreads = 1
    PROVE  Spec => Admission
<1>1. Init => AdmissionInit
  BY DEF Init
<1>2. ASSUME IInv, [Next]_vars PROVE [AdmissionNext]_absVars
  <2>1. CASE UNCHANGED vars
    BY <2>1 DEF vars, absVars
  <2>2. CASE Next /\ mode # "reserve"
    BY <1>2, <2>2, LegacySteps DEF IInv
  <2>3. CASE Next /\ mode = "reserve"
    <3>1. TypeOK /\ TypeOK' /\ ReserveInv
      BY <1>2, <2>3, TypeStep DEF IInv
    <3>2. CASE \E r \in Runs : CommitHold(r)
      BY <2>3, <3>1, <3>2, HoldAdmits
    <3>3. CASE \A r \in Runs : ~CommitHold(r)
      BY <2>3, <3>1, <3>3, OtherReserveSteps
    <3> QED BY <3>2, <3>3
  <2> QED BY <1>2, <2>1, <2>2, <2>3
<1> QED
  BY <1>1, <1>2, Invariance, PTL DEF Spec, Admission, AdmissionSpec

-----------------------------------------------------------------------------
(* The overshoot of the gate without reservations *)

\* A process has at most MaxThreads runs in flight.
ThreadsBound == \A c \in Conns : Cardinality(InFlight(c)) <= MaxThreads

\* Open runs of the processes in D.
OpenIn(D) == {r \in open : ConnOf[r] \in D}

\* No set of n processes has more than n * MaxThreads open runs.
Crowded(n) ==
    \A D \in SUBSET Conns :
        Cardinality(D) = n => Cardinality(OpenIn(D)) <= MaxThreads * n

LEMMA CrowdGrows ==
    ASSUME TypeOK, ThreadsBound, OtherInv, NEW n \in Nat, Crowded(n)
    PROVE  Crowded(n + 1)
<1> SUFFICES ASSUME NEW D \in SUBSET Conns, Cardinality(D) = n + 1
             PROVE  Cardinality(OpenIn(D)) <= MaxThreads * (n + 1)
  BY DEF Crowded
<1>1. IsFiniteSet(D) /\ D # {}
  BY FS_Subset, FS_EmptySet
<1>2. PICK c \in D : TRUE
  BY <1>1
<1>3. Cardinality(D \ {c}) = n
  <2>1. Cardinality(D \ {c}) = Cardinality(D) - 1
    BY <1>1, <1>2, FS_RemoveElement
  <2>2. Cardinality(D) = n + 1
    OBVIOUS
  <2> QED BY <2>1, <2>2
<1>4. Cardinality(OpenIn(D \ {c})) <= MaxThreads * n
  BY <1>3 DEF Crowded
<1>5. OpenIn(D) \subseteq OpenIn(D \ {c}) \cup InFlight(c)
  BY DEF OpenIn, InFlight, OtherInv, Active, InReserve, TypeOK, AdmissionTypeOK
<1> DEFINE A == OpenIn(D \ {c})
           B == InFlight(c)
<1>6. A \subseteq Runs /\ B \subseteq Runs
  BY DEF OpenIn, InFlight, TypeOK, AdmissionTypeOK
<1> HIDE DEF A, B
<1>7. Cardinality(A \cup B) = Cardinality(A) + Cardinality(B) - Cardinality(A \cap B)
  BY <1>6, RunsFinite, FS_Union
<1>8. Cardinality(OpenIn(D)) <= Cardinality(A \cup B)
  BY <1>5, <1>6, CardinalityMono DEF A, B
<1>9. Cardinality(A) <= MaxThreads * n /\ Cardinality(B) <= MaxThreads
  BY <1>2, <1>4 DEF A, B, ThreadsBound
<1>10. /\ Cardinality(A) \in Nat /\ Cardinality(B) \in Nat /\ Cardinality(A \cap B) \in Nat
       /\ Cardinality(A \cup B) \in Nat /\ Cardinality(OpenIn(D)) \in Nat
  BY <1>5, <1>6, RunsFinite DEF A, B
<1>11. MaxThreads * (n + 1) = MaxThreads * n + MaxThreads /\ MaxThreads * n \in Nat
  BY SMT
<1> QED BY <1>7, <1>8, <1>9, <1>10, <1>11

\* So many runs can be open at once: MaxThreads in each process.
LEMMA OpenBound ==
    ASSUME TypeOK, ThreadsBound, OtherInv
    PROVE  Cardinality(open) <= MaxThreads * Cardinality(Conns)
<1> DEFINE S == {n \in Nat : Crowded(n)}
<1>1. 0 \in S
  <2>1. ASSUME NEW D \in SUBSET Conns, Cardinality(D) = 0
        PROVE  Cardinality(OpenIn(D)) <= MaxThreads * 0
    <3>1. D = {}
      BY <2>1, FS_Subset, FS_EmptySet
    <3>2. OpenIn(D) = {}
      BY <3>1 DEF OpenIn
    <3> QED BY <3>2, FS_EmptySet
  <2> QED BY <2>1 DEF Crowded
<1>2. \A n \in Nat : n \in S => n + 1 \in S
  BY CrowdGrows
<1> HIDE DEF S
<1>3. Nat \subseteq S
  BY <1>1, <1>2, SetInduction
<1>4. Crowded(Cardinality(Conns))
  BY <1>3, FS_CardinalityType DEF S
<1>5. OpenIn(Conns) = open
  BY DEF OpenIn, TypeOK, AdmissionTypeOK
<1> QED BY <1>4, <1>5 DEF Crowded

\* A run enters a process that has room; nothing else adds to what is in flight.
LEMMA ThreadsStep ==
    ASSUME TypeOK, ThreadsBound, [Next]_vars
    PROVE  ThreadsBound'
<1> SUFFICES ASSUME NEW c \in Conns PROVE Cardinality(InFlight(c)') <= MaxThreads
  BY DEF ThreadsBound
<1> USE DEF TypeOK, AdmissionTypeOK, Goto, At, dbVars, sumVars, Active, InReserve, Ended
<1>1. InFlight(c) \subseteq Runs /\ InFlight(c)' \subseteq Runs
  BY DEF InFlight
<1>2. ASSUME InFlight(c)' \subseteq InFlight(c)
      PROVE  Cardinality(InFlight(c)') <= MaxThreads
  BY <1>1, <1>2, CardinalityMono, RunsFinite DEF ThreadsBound
<1>3. ASSUME NEW r \in Runs, Start(r) PROVE Cardinality(InFlight(c)') <= MaxThreads
  <2>1. CASE ConnOf[r] # c
    <3>1. InFlight(c)' \subseteq InFlight(c)
      BY <1>3, <2>1 DEF Start, InFlight
    <3> QED BY <1>2, <3>1
  <2>2. CASE ConnOf[r] = c
    <3>1. InFlight(c)' \subseteq (InFlight(c) \cup {r}) \cup {}
      BY <1>3, <2>2 DEF Start, InFlight
    <3>2. Cardinality(InFlight(c)') <= Cardinality(InFlight(c)) + 1 + Cardinality({})
      BY <1>1, <3>1, UnionBound
    <3>3. Cardinality(InFlight(c)) < MaxThreads /\ Cardinality({}) = 0
      BY <1>3, <2>2, FS_EmptySet DEF Start
    <3> QED BY <1>1, <3>2, <3>3, RunsFinite
  <2> QED BY <2>1, <2>2
<1>4. ASSUME NEW r \in Runs,
             \/ LegacyCheck(r) \/ Age(r) \/ Begin(r) \/ BeginFails(r) \/ Sweep(r)
             \/ SumSpent(r) \/ SumHeld(r) \/ Refuse(r) \/ Insert(r) \/ StatementFails(r)
             \/ CommitHold(r) \/ RecordFails(r) \/ SettleDelete(r) \/ SettleFails(r)
             \/ SettleCommit(r) \/ \E cost \in Costs : Record(r, cost)
      PROVE  InFlight(c)' \subseteq InFlight(c)
  BY <1>4 DEF InFlight, LegacyCheck, Age, Begin, BeginFails, Sweep, SumSpent, SumHeld,
              Refuse, Insert, StatementFails, CommitHold, RecordFails, SettleDelete,
              SettleFails, SettleCommit, Record, AfterRow
<1>5. ASSUME NEW d \in Conns, Crash(d) PROVE InFlight(c)' \subseteq InFlight(c)
  BY <1>5 DEF Crash, InFlight
<1>6. ASSUME UNCHANGED vars PROVE InFlight(c)' \subseteq InFlight(c)
  BY <1>6 DEF vars, InFlight
<1> QED
  BY <1>2, <1>3, <1>4, <1>5, <1>6 DEF Next, Step

\* Multiplying by a cost keeps the order.
LEMMA CostsMono ==
    ASSUME NEW top \in Nat, NEW a \in Nat, NEW b \in Nat, a <= b
    PROVE  top * a \in Nat /\ top * b \in Nat /\ top * a <= top * b
BY SMT

\* The bound a cost `top` that no run exceeds puts on spent and open runs.
Places == MaxThreads * Cardinality(Conns)
Bounded(top) == spent + top * Cardinality(open) < Budget + top * Places

LEMMA PlacesNat == Places \in Nat
<1>1. Cardinality(Conns) \in Nat
  BY FS_CardinalityType
<1> QED BY <1>1 DEF Places

\* A run that closes turns at most its cost from open into spent.
LEMMA OvershootRecorded ==
    ASSUME TypeOK, NEW top \in Costs, \A x \in Costs : x <= top, Bounded(top),
           NEW r \in Runs, NEW cost \in Costs, Record(r, cost), r \in open
    PROVE  Bounded(top)'
<1> DEFINE o == Cardinality(open)
           p == Cardinality(open')
<1>1. open' = open \ {r} /\ spent' = spent + cost
  BY DEF Record
<1>2. o \in Nat /\ p \in Nat /\ o = p + 1
  BY <1>1, RunsFinite, FS_RemoveElement DEF TypeOK, AdmissionTypeOK
<1>3. top \in Nat /\ cost \in Nat /\ cost <= top
  OBVIOUS
<1>4. spent + top * o < Budget + top * Places
  BY DEF Bounded
<1> HIDE DEF o, p
<1>5. top * o = top * p + top /\ top * p \in Nat
  BY <1>2, <1>3, SMT
<1>6. top * Places \in Nat
  BY <1>3, PlacesNat, SMT
<1> DEFINE tp == top * p
           tk == top * Places
<1>7. tp \in Nat /\ tk \in Nat /\ spent + (tp + top) < Budget + tk
  BY <1>4, <1>5, <1>6
<1> HIDE DEF tp, tk
<1>8. (spent + cost) + tp < Budget + tk
  BY <1>3, <1>7 DEF TypeOK, AdmissionTypeOK
<1> QED BY <1>1, <1>8 DEF Bounded, tp, tk, p

\* A step that spends nothing and opens nothing keeps the bound.
LEMMA OvershootKept ==
    ASSUME TypeOK, NEW top \in Costs, Bounded(top), spent' = spent, open' \subseteq open
    PROVE  Bounded(top)'
<1> DEFINE o == Cardinality(open)
           p == Cardinality(open')
<1>1. o \in Nat /\ p \in Nat /\ p <= o
  BY RunsFinite, CardinalityMono DEF TypeOK, AdmissionTypeOK
<1>2. spent + top * o < Budget + top * Places
  BY DEF Bounded
<1> HIDE DEF o, p
<1>3. top * p \in Nat /\ top * o \in Nat /\ top * p <= top * o /\ top * Places \in Nat
  BY <1>1, PlacesNat, CostsMono
<1> DEFINE tp == top * p
           tk == top * Places
           to == top * o
<1>4. tp \in Nat /\ tk \in Nat /\ to \in Nat /\ tp <= to /\ spent + to < Budget + tk
  BY <1>2, <1>3
<1> HIDE DEF tp, tk, to
<1>5. spent + tp < Budget + tk
  BY <1>4 DEF TypeOK, AdmissionTypeOK
<1> QED BY <1>5 DEF Bounded, tp, tk, p

\* While the budget is not spent, there is room for a run in every place.
LEMMA RoomBelow ==
    ASSUME TypeOK, ThreadsBound, OtherInv, NEW top \in Costs, spent < Budget
    PROVE  Bounded(top)
<1> DEFINE o == Cardinality(open)
<1>1. o \in Nat /\ o <= Places
  BY RunsFinite, OpenBound DEF TypeOK, AdmissionTypeOK, Places
<1> HIDE DEF o
<1>2. top * o \in Nat /\ top * Places \in Nat /\ top * o <= top * Places
  BY <1>1, PlacesNat, CostsMono
<1> DEFINE tk == top * Places
           to == top * o
<1>3. tk \in Nat /\ to \in Nat /\ to <= tk
  BY <1>2
<1> HIDE DEF tk, to
<1>4. spent + to < Budget + tk
  BY <1>3 DEF TypeOK, AdmissionTypeOK
<1> QED BY <1>4 DEF Bounded, tk, to, o

Room ==
    TypeOK /\ ThreadsBound /\ OtherInv /\ spent < Budget => \A top \in Costs : Bounded(top)

LEMMA RoomNext == Room'
<1>1. Room
  BY RoomBelow DEF Room
<1> QED BY <1>1, PTL

LEMMA OvershootStep ==
    ASSUME TypeOK, TypeOK', ThreadsBound, ThreadsBound', OtherInv, OtherInv',
           mode' = mode, LegacyOvershootBounded, mode = "legacy", Next
    PROVE  LegacyOvershootBounded'
<1> USE DEF At
<1>1. ASSUME NEW r \in Runs,
             \/ Begin(r) \/ BeginFails(r) \/ Sweep(r) \/ SumSpent(r) \/ SumHeld(r)
             \/ Refuse(r) \/ Insert(r) \/ StatementFails(r) \/ CommitHold(r)
             \/ SettleDelete(r) \/ SettleFails(r) \/ SettleCommit(r)
      PROVE  FALSE
  BY <1>1 DEF Begin, BeginFails, Sweep, SumSpent, SumHeld, Refuse, Insert, OtherInv,
              StatementFails, CommitHold, SettleDelete, SettleFails, SettleCommit
<1>2. ASSUME Budget = 0 PROVE spent' = 0 /\ open' = {}
  <2>1. spent = 0 /\ open = {}
    BY <1>2 DEF LegacyOvershootBounded
  <2>2. ASSUME NEW r \in Runs, Start(r) \/ Age(r) \/ RecordFails(r) \/ LegacyCheck(r)
        PROVE  spent' = 0 /\ open' = {}
    BY <1>2, <2>1, <2>2 DEF Start, Age, RecordFails, LegacyCheck
  <2>3. ASSUME NEW r \in Runs, NEW cost \in Costs, Record(r, cost) PROVE FALSE
    BY <2>1, <2>3 DEF Record, OtherInv
  <2>4. ASSUME NEW c \in Conns, Crash(c) PROVE spent' = 0 /\ open' = {}
    BY <2>1, <2>4 DEF Crash
  <2> QED BY <1>1, <2>2, <2>3, <2>4 DEF Next, Step
<1>3. ASSUME Budget # 0, NEW top \in Costs, \A x \in Costs : x <= top
      PROVE  Bounded(top)'
  <2>1. Bounded(top)
    BY <1>3 DEF LegacyOvershootBounded, Bounded, Places
  <2>2. ASSUME NEW r \in Runs, NEW cost \in Costs, Record(r, cost) PROVE Bounded(top)'
    <3>1. r \in open
      BY <2>2 DEF Record, OtherInv
    <3> QED BY <1>3, <2>1, <2>2, <3>1, OvershootRecorded
  <2>3. ASSUME NEW r \in Runs, LegacyCheck(r) PROVE Bounded(top)'
    <3>1. CASE UNCHANGED open
      BY <2>1, <2>3, <3>1, OvershootKept DEF LegacyCheck
    <3>2. CASE spent < Budget
      <4>1. spent' < Budget
        BY <2>3, <3>2 DEF LegacyCheck
      <4>2. Bounded(top)'
        BY <4>1, RoomNext DEF Room
      <4> QED BY <4>2
    <3> QED BY <2>3, <3>1, <3>2 DEF LegacyCheck
  <2>4. ASSUME NEW r \in Runs, Start(r) \/ Age(r) \/ RecordFails(r)
        PROVE  Bounded(top)'
    BY <2>1, <2>4, OvershootKept DEF Start, Age, RecordFails
  <2>5. ASSUME NEW c \in Conns, Crash(c) PROVE Bounded(top)'
    BY <2>1, <2>5, OvershootKept DEF Crash
  <2> QED BY <1>1, <2>2, <2>3, <2>4, <2>5 DEF Next, Step
<1> QED
  BY <1>2, <1>3 DEF LegacyOvershootBounded, Bounded, Places

\* The inductive invariant of the overshoot, for any number of threads.
LegacyInv ==
    /\ TypeOK
    /\ ThreadsBound
    /\ mode # "reserve" => OtherInv
    /\ LegacyOvershootBounded

\* Without max_run_usd the gate overshoots the budget by what the runs in flight
\* cost and no more, however many threads and processes there are (CostGate's
\* docstring: the overshoot is bounded by the runs in flight).
THEOREM OvershootAlwaysBounded == Spec => []LegacyOvershootBounded
<1>1. Init => LegacyInv
  <2> SUFFICES ASSUME Init PROVE LegacyInv
    OBVIOUS
  <2>1. TypeOK /\ (mode # "reserve" => OtherInv)
    BY InvInit DEF IInv
  <2>2. ASSUME NEW c \in Conns PROVE InFlight(c) = {}
    BY DEF Init, InFlight, Active, InReserve
  <2>3. ThreadsBound
    BY <2>2, FS_EmptySet DEF ThreadsBound
  <2>4. ASSUME Budget # 0, mode = "legacy", NEW top \in Costs PROVE Bounded(top)
    <3>1. spent < Budget
      BY <2>4 DEF Init, AdmissionInit
    <3> QED BY <2>1, <2>3, <2>4, <3>1, RoomBelow
  <2>5. LegacyOvershootBounded
    BY <2>4 DEF LegacyOvershootBounded, Bounded, Places, Init, AdmissionInit
  <2> QED BY <2>1, <2>3, <2>5 DEF LegacyInv
<1>2. LegacyInv /\ [Next]_vars => LegacyInv'
  <2> SUFFICES ASSUME LegacyInv, [Next]_vars PROVE LegacyInv'
    OBVIOUS
  <2>1. TypeOK' /\ ThreadsBound'
    BY TypeStep, ThreadsStep DEF LegacyInv
  <2>2. mode' = mode
    BY DEF Next, Step, Start, LegacyCheck, Begin, BeginFails, Sweep, SumSpent, SumHeld,
           Refuse, Insert, StatementFails, CommitHold, Record, RecordFails, SettleDelete,
           SettleFails, SettleCommit, Age, Crash, vars
  <2>3. CASE UNCHANGED vars
    <3>1. OtherInv' = OtherInv
      BY <2>3 DEF vars, OtherInv
    <3>2. LegacyOvershootBounded' = LegacyOvershootBounded
      BY <2>3 DEF vars, LegacyOvershootBounded
    <3> QED BY <2>1, <2>2, <3>1, <3>2 DEF LegacyInv
  <2>4. CASE Next
    <3>1. mode # "reserve" => OtherInv'
      BY <2>4, OtherStep DEF LegacyInv
    <3>2. mode = "legacy" => LegacyOvershootBounded'
      BY <2>1, <2>2, <2>4, <3>1, OvershootStep DEF LegacyInv
    <3>3. LegacyOvershootBounded'
      BY <2>2, <3>2 DEF LegacyOvershootBounded
    <3> QED BY <2>1, <2>2, <3>1, <3>3 DEF LegacyInv
  <2> QED BY <2>3, <2>4
<1>3. LegacyInv => LegacyOvershootBounded
  BY DEF LegacyInv
<1> QED
  BY <1>1, <1>2, <1>3, PTL DEF Spec
=============================================================================
