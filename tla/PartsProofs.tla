---------------------------- MODULE PartsProofs -----------------------------
(***************************************************************************)
(* The theorems of the other parts for the composition that TLC checks,    *)
(* and the types of all: a step of MCParts is a step of one part and       *)
(* leaves the others alone, so that an invariant of a part is one of the   *)
(* whole.  The context compiler has its proofs in a module of its own;     *)
(* part and proofs are two instances of one module, and their definitions  *)
(* the same formulas.                                                      *)
(***************************************************************************)
EXTENDS KnowledgeProofs

PromptProofs == INSTANCE ContextProofs WITH given <- sources, at <- place

-----------------------------------------------------------------------------
(* The memory gateway.  Each one's writes and audit rows are counted. *)

\* A gateway comes to its audit row by a write, and leaves it by the row or by a
\* fault: the difference is at most its faults, and exactly one more in between.
Owed(w) ==
    /\ audits[w] <= writes[w]
    /\ writes[w] <= audits[w] + faults[w] + (IF mpc[w] = "audit" THEN 1 ELSE 0)
    /\ mpc[w] = "audit" => audits[w] < writes[w]

AuditInv ==
    /\ mpc \in [Writers -> {"idle", "search", "select", "update", "insert", "audit"}]
    /\ {writes, audits, faults} \subseteq [Writers -> Nat]
    /\ \A w \in Writers : Owed(w)

LEMMA MemoryInit == Init => AuditInv
BY DEF Init, Memory!Init, AuditInv, Owed

\* Until its write a gateway counts nothing, and may give up.
LEMMA BeforeWrite ==
    ASSUME AuditInv, NEW w \in Writers,
           \/ Memory!Apply(w) \/ Memory!Search(w)
           \/ Memory!Select(w) \/ Memory!Fails(w)
    PROVE  AuditInv'
<1>1. writes' = writes /\ audits' = audits /\ faults' = faults /\ mpc[w] # "audit"
  BY DEF Memory!Apply, Memory!Search, Memory!Select, Memory!Fails
<1>2. mpc' \in [Writers -> {"idle", "search", "select", "update", "insert", "audit"}]
  BY DEF Memory!Apply, Memory!Search, Memory!Select, Memory!Fails,
            Memory!Goto, Memory!Rest, AuditInv
<1>3. \A v \in Writers : mpc'[v] = "audit" <=> mpc[v] = "audit"
  BY <1>1 DEF Memory!Apply, Memory!Search, Memory!Select, Memory!Fails,
            Memory!Goto, Memory!Rest, AuditInv
<1>. QED BY <1>1, <1>2, <1>3 DEF AuditInv, Owed

LEMMA WriteStep ==
    ASSUME AuditInv, NEW w \in Writers, Memory!Update(w) \/ Memory!Insert(w)
    PROVE  AuditInv'
<1>1. /\ mpc' = [mpc EXCEPT ![w] = "audit"] /\ mpc[w] # "audit"
      /\ writes' = [writes EXCEPT ![w] = @ + 1]
      /\ audits' = audits /\ faults' = faults
  BY DEF Memory!Update, Memory!Stored, Memory!Insert, Memory!Inserted, Memory!Goto
<1>2. \A v \in Writers : Owed(v)'
  BY <1>1 DEF AuditInv, Owed
<1>. QED BY <1>1, <1>2 DEF AuditInv

LEMMA AuditStep ==
    ASSUME AuditInv, NEW w \in Writers,
           Memory!Audit(w) \/ Memory!AuditFails(w) \/ Memory!Die(w)
    PROVE  AuditInv'
<1>1. mpc' = [mpc EXCEPT ![w] = "idle"] /\ writes' = writes
  BY DEF Memory!Audit, Memory!AuditFails, Memory!Die, Memory!Rest, Memory!Goto
<1>2. CASE Memory!Audit(w)
  <2>1. mpc[w] = "audit" /\ audits' = [audits EXCEPT ![w] = @ + 1] /\ faults' = faults
    BY <1>2 DEF Memory!Audit
  <2>2. \A v \in Writers : Owed(v)'
    BY <1>1, <2>1 DEF AuditInv, Owed
  <2>. QED BY <1>1, <2>1, <2>2 DEF AuditInv
<1>3. CASE Memory!AuditFails(w) \/ Memory!Die(w)
  <2>1. audits' = audits /\ faults' = [faults EXCEPT ![w] = @ + 1]
    BY <1>3 DEF Memory!AuditFails, Memory!Die
  <2>2. \A v \in Writers : Owed(v)'
    BY <1>1, <2>1 DEF AuditInv, Owed
  <2>. QED BY <1>1, <2>1, <2>2 DEF AuditInv
<1>. QED BY <1>2, <1>3

LEMMA MemoryStep == AuditInv /\ [Next]_parts => AuditInv'
<1> SUFFICES ASSUME AuditInv, [Next]_parts PROVE AuditInv'
  OBVIOUS
<1>1. CASE Memory!Next
  BY <1>1, BeforeWrite, WriteStep, AuditStep DEF Memory!Next
<1>2. CASE UNCHANGED memory
  BY <1>2 DEF memory, AuditInv, Owed
<1>. QED BY <1>1, <1>2 DEF Next, parts

\* Every change of the memory leaves its audit row (memory/agent.py, apply), for
\* any number of gateways on one file and whatever faults the others meet.
THEOREM MemoryAudited == Spec => []AuditedWrites
<1>1. AuditInv => AuditedWrites
  BY DEF AuditInv, Owed, AuditedWrites, Memory!AuditedWrites
<1>. QED BY <1>1, MemoryInit, MemoryStep, PTL DEF Spec

-----------------------------------------------------------------------------
(* The gateways' types *)

\* The ids in the order of recency: each has a place.
Recency(s, n) == s \in Seq(1 .. n) /\ Len(s) = n /\ \A x \in 1 .. n : \E i \in 1 .. n : s[i] = x

\* What a gateway that is at l holds: the delta d, the patch p and the row r.
Holding(l, d, p, r, n) ==
    /\ l \in {"search", "insert"} => d \in Memory!Adds
    /\ l \in {"select", "update"} => d.target \in Memory!Ids /\ p \in Memory!Patches
    /\ l = "update" => d.target \in 1 .. n /\ r \in Memory!Rows

Gateways ==
    /\ mpc \in [Writers -> {"idle", "search", "select", "update", "insert", "audit"}]
    /\ delta \in [Writers -> Memory!Deltas \cup {Memory!NoDelta}]
    /\ patch \in [Writers -> Memory!Patches \cup {Memory!NoPatch}]
    /\ row \in [Writers -> Memory!Rows \cup {Memory!NoRow}]
    /\ \A w \in Writers : Holding(mpc[w], delta[w], patch[w], row[w], Len(records))

\* A gateway that may yet insert a row is counted with the rows: each took one of
\* the deltas.
Adding == {w \in Writers : mpc[w] \in {"search", "insert"}}
MemoryShapes ==
    /\ applies \in 0 .. MaxApplies
    /\ records \in Seq(Memory!Rows) /\ Recency(recency, Len(records))
    /\ Gateways
    /\ IsFiniteSet(Adding) /\ Len(records) + Cardinality(Adding) <= applies

LEMMA MemoryShapesInit == Init => MemoryShapes
<1>. SUFFICES ASSUME Memory!Init PROVE MemoryShapes
  BY DEF Init
<1>1. <<>> \in Seq(Memory!Rows) /\ <<>> \in Seq(1 .. 0) /\ Len(<<>>) = 0 /\ MaxApplies \in Nat
  BY EmptySeq, PartsAssumption
<1>2. Recency(recency, Len(records))
  BY <1>1 DEF Memory!Init, Recency
<1>3. Gateways
  BY DEF Memory!Init, Gateways, Holding
<1>4. Adding = {}
  BY DEF Memory!Init, Adding
<1>5. IsFiniteSet(Adding) /\ Cardinality(Adding) = 0
  BY <1>4, FS_EmptySet
<1>. QED BY <1>1, <1>2, <1>3, <1>5 DEF Memory!Init, MemoryShapes

LEMMA MemoryBounds ==
    ASSUME MemoryShapes
    PROVE  /\ Len(records) \in Nat /\ Cardinality(Adding) \in Nat
           /\ Len(records) <= MaxApplies /\ MaxApplies \in Nat
           /\ DOMAIN records = 1 .. Len(records) /\ DOMAIN recency = 1 .. Len(records)
<1>1. Len(records) \in Nat /\ DOMAIN records = 1 .. Len(records)
  BY LenProperties DEF MemoryShapes
<1>2. Cardinality(Adding) \in Nat
  BY FS_CardinalityType DEF MemoryShapes
<1>3. recency \in Seq(1 .. Len(records)) /\ Len(recency) = Len(records)
  BY DEF MemoryShapes, Recency
<1>4. DOMAIN recency = 1 .. Len(records)
  BY <1>3, LenProperties
<1>5. MaxApplies \in Nat
  BY PartsAssumption
<1>. QED BY <1>1, <1>2, <1>4, <1>5 DEF MemoryShapes

\* A step of w that takes no delta and inserts nothing.
LEMMA HoldStep ==
    ASSUME MemoryShapes, NEW w \in Writers,
           records' \in Seq(Memory!Rows), Len(records') = Len(records),
           Recency(recency', Len(records)), applies' = applies,
           mpc' \in [Writers -> {"idle", "search", "select", "update", "insert", "audit"}],
           delta' \in [Writers -> Memory!Deltas \cup {Memory!NoDelta}],
           patch' \in [Writers -> Memory!Patches \cup {Memory!NoPatch}],
           row' \in [Writers -> Memory!Rows \cup {Memory!NoRow}],
           \A v \in Writers \ {w} : /\ mpc'[v] = mpc[v] /\ delta'[v] = delta[v]
                                    /\ patch'[v] = patch[v] /\ row'[v] = row[v],
           Holding(mpc'[w], delta'[w], patch'[w], row'[w], Len(records)),
           mpc'[w] \in {"search", "insert"} => mpc[w] \in {"search", "insert"}
    PROVE  MemoryShapes'
<1>1. Gateways'
  <2>1. ASSUME NEW v \in Writers
        PROVE  Holding(mpc'[v], delta'[v], patch'[v], row'[v], Len(records'))
    <3>1. CASE v = w
      BY <3>1
    <3>2. CASE v # w
      BY <3>2 DEF MemoryShapes, Gateways
    <3>. QED BY <3>1, <3>2
  <2>. QED BY <2>1 DEF Gateways
<1>2. Adding' \in SUBSET Adding
  BY DEF Adding
<1>3. IsFiniteSet(Adding') /\ Cardinality(Adding') \in Nat /\ Cardinality(Adding') <= Cardinality(Adding)
  BY <1>2, FS_Subset, FS_CardinalityType DEF MemoryShapes
<1>4. Len(records') + Cardinality(Adding') <= applies'
  <2>1. Len(records) + Cardinality(Adding) <= applies /\ applies \in Nat
    BY DEF MemoryShapes
  <2>. QED BY <1>3, <2>1, MemoryBounds
<1>. QED BY <1>1, <1>3, <1>4 DEF MemoryShapes

LEMMA RestTypes ==
    ASSUME MemoryShapes, NEW w \in Writers, Memory!Rest(w),
           records' = records, recency' = recency, applies' = applies
    PROVE  MemoryShapes'
<1>1. /\ mpc' = [mpc EXCEPT ![w] = "idle"] /\ delta' = [delta EXCEPT ![w] = Memory!NoDelta]
      /\ patch' = [patch EXCEPT ![w] = Memory!NoPatch]
      /\ row' = [row EXCEPT ![w] = Memory!NoRow]
  BY DEF Memory!Rest, Memory!Goto
<1>2. /\ mpc' \in [Writers -> {"idle", "search", "select", "update", "insert", "audit"}]
      /\ delta' \in [Writers -> Memory!Deltas \cup {Memory!NoDelta}]
      /\ patch' \in [Writers -> Memory!Patches \cup {Memory!NoPatch}]
      /\ row' \in [Writers -> Memory!Rows \cup {Memory!NoRow}]
      /\ mpc'[w] = "idle"
      /\ \A v \in Writers \ {w} : /\ mpc'[v] = mpc[v] /\ delta'[v] = delta[v]
                                  /\ patch'[v] = patch[v] /\ row'[v] = row[v]
  BY <1>1 DEF MemoryShapes, Gateways
<1>3. Holding(mpc'[w], delta'[w], patch'[w], row'[w], Len(records))
  BY <1>2 DEF Holding
<1>. QED BY <1>2, <1>3, HoldStep DEF MemoryShapes

LEMMA ApplyTypes ==
    ASSUME MemoryShapes, NEW w \in Writers, Memory!Apply(w)
    PROVE  MemoryShapes'
<1>. DEFINE n == Len(records)
<1>1. /\ mpc[w] = "idle" /\ applies < MaxApplies /\ applies' = applies + 1
      /\ records' = records /\ recency' = recency /\ row' = row
  BY DEF Memory!Apply
<1>2. PICK d \in Memory!Deltas :
         \/ /\ d.op = "add" /\ d.target = Memory!NoId
            /\ Memory!Goto(w, IF d.tier = "semantic" THEN "search" ELSE "insert")
            /\ delta' = [delta EXCEPT ![w] = d] /\ patch' = patch
         \/ /\ d.op # "add" /\ d.target # Memory!NoId
            /\ Memory!Goto(w, "select")
            /\ delta' = [delta EXCEPT ![w] = d]
            /\ patch' = [patch EXCEPT ![w] =
                  IF d.op = "update"
                  THEN [note |-> d.note, tags |-> IF d.tags = {} THEN Unset ELSE d.tags,
                        status |-> Unset]
                  ELSE [note |-> Unset, tags |-> Unset, status |-> "deprecated"]]
         \/ mpc' = mpc /\ delta' = delta /\ patch' = patch
  BY DEF Memory!Apply
<1>3. /\ mpc' \in [Writers -> {"idle", "search", "select", "update", "insert", "audit"}]
      /\ \A v \in Writers \ {w} : mpc'[v] = mpc[v]
  BY <1>2 DEF MemoryShapes, Gateways, Memory!Goto
<1>4. /\ delta' \in [Writers -> Memory!Deltas \cup {Memory!NoDelta}]
      /\ \A v \in Writers \ {w} : delta'[v] = delta[v]
  BY <1>2 DEF MemoryShapes, Gateways
<1>5. /\ patch' \in [Writers -> Memory!Patches \cup {Memory!NoPatch}]
      /\ \A v \in Writers \ {w} : patch'[v] = patch[v]
      /\ Holding(mpc'[w], delta'[w], patch'[w], row'[w], n)
  <2>1. CASE /\ d.op = "add" /\ d.target = Memory!NoId
             /\ Memory!Goto(w, IF d.tier = "semantic" THEN "search" ELSE "insert")
             /\ delta' = [delta EXCEPT ![w] = d] /\ patch' = patch
    <3>1. d \in Memory!Adds
      BY <2>1 DEF Memory!Deltas
    <3>2. mpc'[w] \in {"search", "insert"} /\ delta'[w] = d
      BY <2>1 DEF MemoryShapes, Gateways, Memory!Goto
    <3>. QED BY <2>1, <3>1, <3>2 DEF MemoryShapes, Gateways, Holding
  <2>2. CASE /\ d.op # "add" /\ d.target # Memory!NoId
             /\ Memory!Goto(w, "select")
             /\ delta' = [delta EXCEPT ![w] = d]
             /\ patch' = [patch EXCEPT ![w] =
                   IF d.op = "update"
                   THEN [note |-> d.note, tags |-> IF d.tags = {} THEN Unset ELSE d.tags,
                         status |-> Unset]
                   ELSE [note |-> Unset, tags |-> Unset, status |-> "deprecated"]]
    <3>. DEFINE p == IF d.op = "update"
                     THEN [note |-> d.note, tags |-> IF d.tags = {} THEN Unset ELSE d.tags,
                           status |-> Unset]
                     ELSE [note |-> Unset, tags |-> Unset, status |-> "deprecated"]
    <3>1. d.target \in Memory!Ids
      BY <2>2 DEF Memory!Deltas, Memory!Adds
    <3>2. p \in Memory!Patches
      <4>1. CASE d.op = "update"
        <5>1. d.note \in Notes /\ d.tags \in SUBSET Tags
          BY <4>1 DEF Memory!Deltas, Memory!Adds
        <5>. QED BY <4>1, <5>1 DEF Memory!Patches
      <4>2. CASE d.op # "update"
        BY <4>2 DEF Memory!Patches
      <4>. QED BY <4>1, <4>2
    <3>. HIDE DEF p
    <3>3. patch' = [patch EXCEPT ![w] = p]
      BY <2>2 DEF p
    <3>4. mpc'[w] = "select" /\ delta'[w] = d /\ patch'[w] = p
      BY <2>2, <3>3 DEF MemoryShapes, Gateways, Memory!Goto
    <3>5. Holding(mpc'[w], delta'[w], patch'[w], row'[w], n)
      BY <3>1, <3>2, <3>4 DEF Holding
    <3>. QED BY <3>2, <3>3, <3>5 DEF MemoryShapes, Gateways
  <2>3. CASE mpc' = mpc /\ delta' = delta /\ patch' = patch
    BY <1>1, <2>3 DEF MemoryShapes, Gateways
  <2>. QED BY <1>2, <2>1, <2>2, <2>3
<1>6. Gateways'
  <2>1. ASSUME NEW v \in Writers
        PROVE  Holding(mpc'[v], delta'[v], patch'[v], row'[v], Len(records'))
    <3>1. CASE v = w
      BY <1>1, <1>5, <3>1
    <3>2. CASE v # w
      BY <1>1, <1>3, <1>4, <1>5, <3>2 DEF MemoryShapes, Gateways
    <3>. QED BY <3>1, <3>2
  <2>2. row' \in [Writers -> Memory!Rows \cup {Memory!NoRow}]
    BY <1>1 DEF MemoryShapes, Gateways
  <2>. QED BY <1>3, <1>4, <1>5, <2>1, <2>2 DEF Gateways
<1>7. IsFiniteSet(Adding') /\ Cardinality(Adding') \in Nat
      /\ Cardinality(Adding') <= Cardinality(Adding) + 1
  <2>1. Adding' \in SUBSET (Adding \cup {w}) /\ w \notin Adding
    BY <1>1, <1>3 DEF Adding
  <2>2. IsFiniteSet(Adding \cup {w}) /\ Cardinality(Adding \cup {w}) = Cardinality(Adding) + 1
    BY <2>1, FS_AddElement DEF MemoryShapes
  <2>. QED BY <2>1, <2>2, FS_Subset, FS_CardinalityType
<1>8. Len(records') + Cardinality(Adding') <= applies' /\ applies' \in 0 .. MaxApplies
  <2>1. Len(records) + Cardinality(Adding) <= applies /\ applies \in Nat
    BY DEF MemoryShapes
  <2>. QED BY <1>1, <1>7, <2>1, MemoryBounds
<1>. QED BY <1>1, <1>6, <1>7, <1>8 DEF MemoryShapes

LEMMA SearchTypesStep ==
    ASSUME MemoryShapes, NEW w \in Writers, Memory!Search(w)
    PROVE  MemoryShapes'
<1>. DEFINE d == delta[w]
            E == Memory!Equal(d.note)
            i == recency[Memory!Min(E)]
            tags == records[i].tags \cup d.tags
            p == [note |-> Unset, tags |-> tags, status |-> Unset]
<1>1. /\ mpc[w] = "search" /\ records' = records /\ recency' = recency /\ row' = row
      /\ applies' = applies
  BY DEF Memory!Search
<1>2. d \in Memory!Adds
  BY <1>1 DEF MemoryShapes, Gateways, Holding
<1>3. CASE E = {}
  <2>1. mpc' = [mpc EXCEPT ![w] = "insert"] /\ delta' = delta /\ patch' = patch
    BY <1>3 DEF Memory!Search, Memory!Goto
  <2>2. mpc' \in [Writers -> {"idle", "search", "select", "update", "insert", "audit"}]
        /\ mpc'[w] = "insert" /\ \A v \in Writers \ {w} : mpc'[v] = mpc[v]
    BY <2>1 DEF MemoryShapes, Gateways
  <2>3. Holding(mpc'[w], delta'[w], patch'[w], row'[w], Len(records))
    BY <1>2, <2>1, <2>2 DEF Holding
  <2>. QED BY <1>1, <2>1, <2>2, <2>3, HoldStep DEF MemoryShapes, Gateways
<1>4. CASE E # {}
  <2>1. mpc' = [mpc EXCEPT ![w] = "select"] /\ delta' = [delta EXCEPT ![w].target = i]
        /\ patch' = [patch EXCEPT ![w] = p]
    BY <1>4 DEF Memory!Search, Memory!Goto
  <2>2. E \subseteq 1 .. Len(records)
    BY MemoryBounds DEF Memory!Equal, Memory!Visible, Memory!Active
  <2>3. Memory!Min(E) \in E
    <3>1. \E x \in E : \A y \in E : x <= y
      BY <1>4, <2>2, Least
    <3>. QED BY <3>1 DEF Memory!Min
  <2>4. i \in 1 .. Len(records)
    <3>1. recency \in Seq(1 .. Len(records)) /\ Len(recency) = Len(records)
      BY DEF MemoryShapes, Recency
    <3>. QED BY <2>2, <2>3, <3>1, ElementOfSeq
  <2>. HIDE DEF i, E
  <2>5. i \in Memory!Ids
    BY <2>4, MemoryBounds DEF Memory!Ids
  <2>6. tags \in SUBSET Tags
    <3>1. records[i] \in Memory!Rows
      BY <2>4, ElementOfSeq DEF MemoryShapes
    <3>. QED BY <1>2, <3>1 DEF Memory!Rows, Memory!Adds
  <2>. HIDE DEF tags
  <2>7. p \in Memory!Patches
    BY <2>6 DEF Memory!Patches
  <2>8. [d EXCEPT !.target = i] \in Memory!Adds
    BY <1>2, <2>5 DEF Memory!Adds
  <2>. HIDE DEF p
  <2>9. delta' = [delta EXCEPT ![w] = [d EXCEPT !.target = i]]
    BY <2>1
  <2>. DEFINE e == [d EXCEPT !.target = i]
  <2>10. e.target = i /\ e \in Memory!Deltas
    BY <1>2, <2>8 DEF Memory!Adds, Memory!Deltas
  <2>. HIDE DEF e, d
  <2>11. /\ mpc' \in [Writers -> {"idle", "search", "select", "update", "insert", "audit"}]
         /\ delta' \in [Writers -> Memory!Deltas \cup {Memory!NoDelta}]
         /\ patch' \in [Writers -> Memory!Patches \cup {Memory!NoPatch}]
         /\ row' \in [Writers -> Memory!Rows \cup {Memory!NoRow}]
         /\ mpc'[w] = "select" /\ delta'[w] = e /\ patch'[w] = p
         /\ \A v \in Writers \ {w} : /\ mpc'[v] = mpc[v] /\ delta'[v] = delta[v]
                                     /\ patch'[v] = patch[v] /\ row'[v] = row[v]
    <3>1. delta' = [delta EXCEPT ![w] = e]
      BY <2>9 DEF e
    <3>. QED BY <1>1, <2>1, <2>7, <2>10, <3>1 DEF MemoryShapes, Gateways
  <2>12. Holding(mpc'[w], delta'[w], patch'[w], row'[w], Len(records))
    BY <2>5, <2>7, <2>10, <2>11 DEF Holding
  <2>. QED BY <1>1, <2>11, <2>12, HoldStep DEF MemoryShapes
<1>. QED BY <1>3, <1>4

LEMMA SelectTypes ==
    ASSUME MemoryShapes, NEW w \in Writers, Memory!Select(w)
    PROVE  MemoryShapes'
<1>1. /\ mpc[w] = "select" /\ records' = records /\ recency' = recency
      /\ applies' = applies
  BY DEF Memory!Select
<1>2. CASE delta[w].target \in DOMAIN records
  <2>1. /\ row' = [row EXCEPT ![w] = records[delta[w].target]]
        /\ mpc' = [mpc EXCEPT ![w] = "update"] /\ delta' = delta /\ patch' = patch
    BY <1>2 DEF Memory!Select, Memory!Goto
  <2>2. records[delta[w].target] \in Memory!Rows
    BY <1>2, MemoryBounds, ElementOfSeq DEF MemoryShapes
  <2>3. /\ mpc' \in [Writers -> {"idle", "search", "select", "update", "insert", "audit"}]
        /\ row' \in [Writers -> Memory!Rows \cup {Memory!NoRow}]
        /\ mpc'[w] = "update" /\ row'[w] = records[delta[w].target]
        /\ \A v \in Writers \ {w} : mpc'[v] = mpc[v] /\ row'[v] = row[v]
    BY <2>1, <2>2 DEF MemoryShapes, Gateways
  <2>4. Holding(mpc'[w], delta'[w], patch'[w], row'[w], Len(records))
    BY <1>1, <1>2, <2>1, <2>2, <2>3, MemoryBounds DEF Holding, MemoryShapes, Gateways
  <2>. QED BY <1>1, <2>1, <2>3, <2>4, HoldStep DEF MemoryShapes, Gateways
<1>3. CASE delta[w].target \notin DOMAIN records
  BY <1>1, <1>3, RestTypes DEF Memory!Select
<1>. QED BY <1>2, <1>3

LEMMA PatchedRow ==
    ASSUME NEW r \in Memory!Rows, NEW p \in Memory!Patches
    PROVE  Memory!Patched(r, p) \in Memory!Rows
<1>1. /\ r.note \in Notes /\ r.tags \in SUBSET Tags /\ r.status \in {"active", "deprecated"}
      /\ p.note \in Notes \cup {Unset} /\ p.tags \in (SUBSET Tags) \cup {Unset}
      /\ p.status \in {"deprecated", Unset}
  BY DEF Memory!Rows, Memory!Patches
<1>2. /\ (IF p.note = Unset THEN r.note ELSE p.note) \in Notes
      /\ (IF p.tags = Unset THEN r.tags ELSE p.tags) \in SUBSET Tags
      /\ (IF p.status = Unset THEN r.status ELSE p.status) \in {"active", "deprecated"}
  BY <1>1
<1>. QED BY <1>2 DEF Memory!Rows, Memory!Patched

\* An id that comes to the front leaves the others their places among themselves.
LEMMA FrontLists ==
    ASSUME NEW n \in Nat, NEW s, Recency(s, n), NEW t \in 1 .. n,
           NEW x \in 1 .. n, s[x] = t
    PROVE  Recency(<<t>> \o RemoveAt(s, x), n)
<1>. DEFINE r == RemoveAt(s, x)
            q == <<t>> \o r
<1>1. /\ r \in Seq(1 .. n) /\ Len(r) = n - 1
      /\ \A j \in 1 .. n - 1 : r[j] = IF j < x THEN s[j] ELSE s[j + 1]
  <2>1. s \in Seq(1 .. n) /\ x \in 1 .. Len(s) /\ Len(s) = n
    BY DEF Recency
  <2>. QED BY <2>1, RemoveAtProperties
<1>. HIDE DEF r
<1>2. <<t>> \in Seq(1 .. n) /\ Len(<<t>>) = 1 /\ <<t>>[1] = t
  OBVIOUS
<1>3. /\ Len(q) = 1 + (n - 1) /\ q[1] = t /\ \A j \in 1 .. n - 1 : q[1 + j] = r[j]
  <2>1. /\ Len(q) = Len(<<t>>) + Len(r)
        /\ \A j \in 1 .. Len(<<t>>) : q[j] = <<t>>[j]
        /\ \A j \in 1 .. Len(r) : q[Len(<<t>>) + j] = r[j]
    BY <1>1, <1>2, ConcatAt
  <2>. QED BY <1>1, <1>2, <2>1
<1>4. q \in Seq(1 .. n)
  BY <1>1, <1>2, ConcatProperties
<1>. HIDE DEF q
<1>5. ASSUME NEW y \in 1 .. n PROVE \E i \in 1 .. n : q[i] = y
  <2>1. PICK i \in 1 .. n : s[i] = y
    BY DEF Recency
  <2>2. CASE i = x
    BY <1>3, <2>1, <2>2
  <2>3. CASE i < x
    <3>1. i \in 1 .. n - 1 /\ 1 + i \in 1 .. n
      BY <2>3
    <3>2. q[1 + i] = y
      BY <1>1, <1>3, <2>1, <2>3, <3>1
    <3>. QED BY <3>1, <3>2
  <2>4. CASE i > x
    <3>1. i - 1 \in 1 .. n - 1 /\ 1 + (i - 1) = i /\ ~(i - 1 < x) /\ (i - 1) + 1 = i
      BY <2>4
    <3>2. q[1 + (i - 1)] = r[i - 1] /\ r[i - 1] = s[(i - 1) + 1]
      BY <1>1, <1>3, <3>1
    <3>. QED BY <2>1, <3>1, <3>2
  <2>5. i < x \/ i = x \/ i > x
    BY DEF Recency
  <2>. QED BY <2>2, <2>3, <2>4, <2>5
<1>6. Recency(q, n)
  BY <1>3, <1>4, <1>5 DEF Recency
<1>. QED BY <1>6 DEF q, r

LEMMA UpdateTypes ==
    ASSUME MemoryShapes, NEW w \in Writers, Memory!Update(w)
    PROVE  MemoryShapes'
<1>. DEFINE t == delta[w].target
            x == Memory!Place(t)
            r == Memory!Patched(row[w], patch[w])
<1>1. /\ mpc[w] = "update" /\ mpc' = [mpc EXCEPT ![w] = "audit"]
      /\ records' = [records EXCEPT ![t] = r]
      /\ recency' = <<t>> \o Memory!RemoveAt(recency, x)
      /\ delta' = delta /\ patch' = patch /\ row' = row /\ applies' = applies
  BY DEF Memory!Update, Memory!Stored, Memory!Goto
<1>2. t \in 1 .. Len(records) /\ row[w] \in Memory!Rows /\ patch[w] \in Memory!Patches
  BY <1>1 DEF MemoryShapes, Gateways, Holding
<1>3. r \in Memory!Rows
  BY <1>2, PatchedRow
<1>. HIDE DEF r
<1>4. records' \in Seq(Memory!Rows) /\ Len(records') = Len(records)
  BY <1>1, <1>2, <1>3, ExceptSeq DEF MemoryShapes
<1>5. x \in 1 .. Len(records) /\ recency[x] = t
  <2>1. \E i \in 1 .. Len(records) : recency[i] = t
    BY <1>2 DEF MemoryShapes, Recency
  <2>. QED BY <2>1, MemoryBounds DEF Memory!Place
<1>6. Recency(recency', Len(records))
  <2>1. Memory!RemoveAt(recency, x) = RemoveAt(recency, x)
    BY DEF Memory!RemoveAt, RemoveAt
  <2>. HIDE DEF x, t
  <2>2. Recency(recency, Len(records))
    BY DEF MemoryShapes
  <2>3. Recency(<<t>> \o RemoveAt(recency, x), Len(records))
    BY <1>2, <1>5, <2>2, MemoryBounds, FrontLists
  <2>. QED BY <1>1, <2>1, <2>3
<1>7. /\ mpc' \in [Writers -> {"idle", "search", "select", "update", "insert", "audit"}]
      /\ mpc'[w] = "audit" /\ \A v \in Writers \ {w} : mpc'[v] = mpc[v]
  BY <1>1 DEF MemoryShapes, Gateways
<1>8. Holding(mpc'[w], delta'[w], patch'[w], row'[w], Len(records))
  BY <1>7 DEF Holding
<1>. QED BY <1>1, <1>4, <1>6, <1>7, <1>8, HoldStep DEF MemoryShapes, Gateways

LEMMA InsertTypes ==
    ASSUME MemoryShapes, NEW w \in Writers, Memory!Insert(w)
    PROVE  MemoryShapes'
<1>. DEFINE n == Len(records)
            d == delta[w]
            r == [note |-> d.note, tier |-> d.tier, tags |-> d.tags, status |-> "active"]
<1>1. /\ mpc[w] = "insert" /\ mpc' = [mpc EXCEPT ![w] = "audit"]
      /\ records' = Append(records, r) /\ recency' = <<n + 1>> \o recency
      /\ delta' = delta /\ patch' = patch /\ row' = row /\ applies' = applies
  BY DEF Memory!Insert, Memory!Inserted, Memory!Goto
<1>2. r \in Memory!Rows
  <2>1. d \in Memory!Adds
    BY <1>1 DEF MemoryShapes, Gateways, Holding
  <2>. QED BY <2>1 DEF Memory!Adds, Memory!Rows
<1>. HIDE DEF r
<1>3. records' \in Seq(Memory!Rows) /\ Len(records') = n + 1 /\ n \in Nat
  BY <1>1, <1>2, AppendProperties, MemoryBounds DEF MemoryShapes
<1>4. Recency(recency, n)
  BY DEF MemoryShapes
<1>. HIDE DEF n
<1>5. Recency(recency', n + 1)
  <2>1. recency \in Seq(1 .. n + 1) /\ Len(recency) = n
    <3>1. recency \in Seq(1 .. n) /\ Len(recency) = n
      BY <1>4 DEF Recency
    <3>2. \A j \in 1 .. n : recency[j] \in 1 .. n + 1
      BY <1>3, <3>1, ElementOfSeq
    <3>. QED BY <3>1, <3>2, SeqDef, LenProperties
  <2>2. <<n + 1>> \in Seq(1 .. n + 1) /\ Len(<<n + 1>>) = 1 /\ <<n + 1>>[1] = n + 1
    BY <1>3
  <2>. DEFINE q == <<n + 1>> \o recency
  <2>3. q \in Seq(1 .. n + 1)
    BY <2>1, <2>2, ConcatProperties
  <2>4. /\ Len(q) = Len(<<n + 1>>) + Len(recency)
        /\ \A j \in 1 .. Len(<<n + 1>>) : q[j] = <<n + 1>>[j]
        /\ \A j \in 1 .. Len(recency) : q[Len(<<n + 1>>) + j] = recency[j]
    BY <2>1, <2>2, ConcatAt
  <2>. HIDE DEF q
  <2>5. Len(q) = n + 1 /\ q[1] = n + 1 /\ \A j \in 1 .. n : q[1 + j] = recency[j]
    BY <1>3, <2>1, <2>2, <2>4
  <2>6. ASSUME NEW y \in 1 .. n + 1 PROVE \E i \in 1 .. n + 1 : q[i] = y
    <3>1. CASE y = n + 1
      BY <1>3, <2>5, <3>1
    <3>2. CASE y # n + 1
      <4>1. PICK i \in 1 .. n : recency[i] = y
        BY <1>3, <1>4, <3>2 DEF Recency
      <4>2. 1 + i \in 1 .. n + 1 /\ q[1 + i] = y
        BY <1>3, <2>5, <4>1
      <4>. QED BY <4>2
    <3>. QED BY <3>1, <3>2
  <2>. QED BY <1>1, <2>3, <2>5, <2>6 DEF Recency, q
<1>6. /\ mpc' \in [Writers -> {"idle", "search", "select", "update", "insert", "audit"}]
      /\ mpc'[w] = "audit" /\ \A v \in Writers \ {w} : mpc'[v] = mpc[v]
  BY <1>1 DEF MemoryShapes, Gateways
<1>7. Gateways'
  <2>1. ASSUME NEW v \in Writers
        PROVE  Holding(mpc'[v], delta'[v], patch'[v], row'[v], Len(records'))
    <3>1. CASE v = w
      BY <1>6, <3>1 DEF Holding
    <3>2. CASE v # w
      <4>1. Holding(mpc[v], delta[v], patch[v], row[v], n)
        BY DEF MemoryShapes, Gateways, n
      <4>. QED BY <1>1, <1>3, <1>6, <3>2, <4>1 DEF Holding
    <3>. QED BY <3>1, <3>2
  <2>. QED BY <1>1, <1>6, <2>1 DEF MemoryShapes, Gateways
<1>8. IsFiniteSet(Adding') /\ Cardinality(Adding') = Cardinality(Adding) - 1
  <2>1. Adding' = Adding \ {w} /\ w \in Adding
    BY <1>1, <1>6 DEF Adding
  <2>. QED BY <2>1, FS_RemoveElement DEF MemoryShapes
<1>9. Len(records') + Cardinality(Adding') <= applies'
  <2>1. n + Cardinality(Adding) <= applies /\ applies \in Nat
    BY DEF MemoryShapes, n
  <2>. QED BY <1>1, <1>3, <1>8, <2>1, MemoryBounds
<1>. QED BY <1>1, <1>3, <1>5, <1>7, <1>8, <1>9 DEF MemoryShapes

LEMMA MemoryShapesStep == MemoryShapes /\ [Next]_parts => MemoryShapes'
<1>. SUFFICES ASSUME MemoryShapes, [Next]_parts PROVE MemoryShapes'
  OBVIOUS
<1>1. CASE Memory!Next
  <2>1. PICK w \in Writers :
           \/ Memory!Apply(w) \/ Memory!Search(w) \/ Memory!Select(w) \/ Memory!Update(w)
           \/ Memory!Insert(w) \/ Memory!Audit(w) \/ Memory!AuditFails(w)
           \/ Memory!Fails(w) \/ Memory!Die(w)
    BY <1>1 DEF Memory!Next
  <2>2. CASE Memory!Audit(w) \/ Memory!AuditFails(w) \/ Memory!Fails(w) \/ Memory!Die(w)
    <3>1. Memory!Rest(w) /\ records' = records /\ recency' = recency /\ applies' = applies
      BY <2>2 DEF Memory!Audit, Memory!AuditFails, Memory!Fails, Memory!Die
    <3>. QED BY <3>1, RestTypes
  <2>. QED BY <2>1, <2>2, ApplyTypes, SearchTypesStep, SelectTypes, UpdateTypes, InsertTypes
<1>2. CASE UNCHANGED memory
  BY <1>2 DEF memory, MemoryShapes, Gateways, Adding
<1>. QED BY <1>1, <1>2 DEF Next, parts

LEMMA MemoryTypes == MemoryShapes => Memory!TypeOK
<1>. SUFFICES ASSUME MemoryShapes PROVE Memory!TypeOK
  OBVIOUS
<1>1. records \in Seq(Memory!Rows) /\ Len(records) <= MaxApplies /\ Len(recency) = Len(records)
  BY MemoryBounds DEF MemoryShapes, Recency
<1>2. {recency[i] : i \in DOMAIN recency} = DOMAIN records
  <2>1. recency \in Seq(1 .. Len(records)) /\ Len(recency) = Len(records)
    BY DEF MemoryShapes, Recency
  <2>2. \A i \in 1 .. Len(records) : recency[i] \in 1 .. Len(records)
    BY <2>1, ElementOfSeq
  <2>3. \A y \in 1 .. Len(records) : \E i \in 1 .. Len(records) : recency[i] = y
    BY DEF MemoryShapes, Recency
  <2>. QED BY <2>2, <2>3, MemoryBounds
<1>3. mpc \in [Writers -> {"idle", "search", "select", "update", "insert", "audit"}]
  BY DEF MemoryShapes, Gateways
<1>4. \A w \in Writers : /\ delta[w] \in Memory!Deltas \/ delta[w] = Memory!NoDelta
                         /\ patch[w] \in Memory!Patches \/ patch[w] = Memory!NoPatch
                         /\ mpc[w] = "update" => row[w] \in Memory!Rows
  BY DEF MemoryShapes, Gateways, Holding
<1>5. applies \in 0 .. MaxApplies
  BY DEF MemoryShapes
<1>. QED BY <1>1, <1>2, <1>3, <1>4, <1>5 DEF Memory!TypeOK

-----------------------------------------------------------------------------
(* lottie new.  What is on disk is told by the step that a unit's command has *)
(* come to: Stage says which, and the property alone says nothing of a unit   *)
(* whose command is in the middle. *)

GeneratorShapes ==
    /\ unit \in [Names -> Generator!Whole \cup Generator!Part \cup {Generator!Absent}]
    /\ npc \in [Names -> {"idle", "plan", "write", "gate", "register", "relist"}]
    /\ described \in [Names -> BOOLEAN]
    /\ answer \in [Names -> {"none", "ok", "refused", "failed"}]
    /\ cuts \in Nat

\* What stands in a unit's directory while its command is under way: nothing
\* before the first file, a part of it while it is written, all of it at the gate
\* (of a model's output only), and what passed behind the gate.
Stage(n) ==
    /\ npc[n] = "plan" => unit[n] = Generator!Absent
    /\ npc[n] = "write" => unit[n] = Generator!Absent \/
          (unit[n] \in Generator!Part /\ (~described[n] => unit[n].quality = "good"))
    /\ npc[n] = "gate" => unit[n] \in Generator!Whole
    /\ npc[n] \in {"register", "relist"} => unit[n] \in Generator!Passed

\* A command that is under way has said nothing; one that is over said what is
\* there.
Word(n) ==
    /\ npc[n] # "idle" => answer[n] = "none"
    /\ answer[n] = "ok" => unit[n] \in Generator!Passed
    /\ answer[n] = "refused" => unit[n] = Generator!Absent
    /\ npc[n] = "idle" /\ cuts = 0 => unit[n] \in Generator!Passed \cup {Generator!Absent}

UnitInv(n)   == Stage(n) /\ Word(n)
GeneratorInv == GeneratorShapes /\ \A n \in Names : UnitInv(n)

\* The kinds of directory are told apart by how much of them is written.
LEMMA Kinds ==
    /\ Generator!Absent \notin Generator!Whole \cup Generator!Part
    /\ \A u \in Generator!Whole : u \notin Generator!Part
    /\ Generator!Passed \subseteq Generator!Whole
BY DEF Generator!Absent, Generator!Whole, Generator!Part, Generator!Passed,
       Generator!Qualities

LEMMA GeneratorInit == Init => GeneratorInv
BY DEF Init, Generator!Init, GeneratorInv, GeneratorShapes, UnitInv, Stage, Word

\* A command works on the directory of its own unit; the others keep theirs.
OneUnit(n) == \A m \in Names \ {n} :
    /\ unit'[m] = unit[m] /\ npc'[m] = npc[m] /\ described'[m] = described[m]
    /\ answer'[m] = answer[m]

LEMMA OthersKeep ==
    ASSUME GeneratorInv, NEW n \in Names, GeneratorShapes', OneUnit(n), bandit' = bandit,
           cuts' >= cuts, UnitInv(n)'
    PROVE  GeneratorInv'
<1>1. ASSUME NEW m \in Names \ {n} PROVE UnitInv(m)'
  <2>1. UnitInv(m)
    BY DEF GeneratorInv
  <2>2. cuts' = 0 => cuts = 0
    BY DEF GeneratorInv, GeneratorShapes
  <2>3. Generator!Passed' = Generator!Passed
    BY DEF Generator!Passed
  <2>. QED BY <2>1, <2>2, <2>3 DEF UnitInv, Stage, Word, OneUnit
<1>. QED BY <1>1 DEF GeneratorInv

LEMMA PassedStays == bandit' = bandit => Generator!Passed' = Generator!Passed
BY DEF Generator!Passed

LEMMA StartStep ==
    ASSUME GeneratorInv, NEW n \in Names,
           Generator!Generate(n) \/ Generator!Describe(n) \/ Generator!Plan(n)
    PROVE  GeneratorInv'
<1>1. GeneratorShapes' /\ OneUnit(n)
  BY DEF Generator!Generate, Generator!Describe, Generator!Plan, Generator!Goto,
         Generator!Say, GeneratorInv, GeneratorShapes, OneUnit
<1>2. UnitInv(n)
  BY DEF GeneratorInv
<1>3. bandit' = bandit /\ cuts' = cuts /\ unit' = unit
  BY DEF Generator!Generate, Generator!Describe, Generator!Plan
<1>4. cuts' >= cuts
  BY <1>3 DEF GeneratorInv, GeneratorShapes
<1>5. CASE Generator!Generate(n)
  <2>1. UnitInv(n)'
    BY <1>2, <1>3, <1>5, PassedStays, Kinds
       DEF Generator!Generate, Generator!Goto, Generator!Say, UnitInv, Stage, Word,
           GeneratorInv, GeneratorShapes
  <2>. QED BY <1>1, <1>3, <1>4, <2>1, OthersKeep
<1>6. CASE Generator!Describe(n)
  <2>1. UnitInv(n)'
    BY <1>2, <1>3, <1>6, PassedStays, Kinds
       DEF Generator!Describe, Generator!Goto, Generator!Say, UnitInv, Stage, Word,
           GeneratorInv, GeneratorShapes
  <2>. QED BY <1>1, <1>3, <1>4, <2>1, OthersKeep
<1>7. CASE Generator!Plan(n)
  <2>1. UnitInv(n)'
    BY <1>2, <1>3, <1>7, PassedStays, Kinds
       DEF Generator!Plan, Generator!Goto, Generator!Say, UnitInv, Stage, Word,
           GeneratorInv, GeneratorShapes
  <2>. QED BY <1>1, <1>3, <1>4, <2>1, OthersKeep
<1>. QED BY <1>5, <1>6, <1>7

\* The first file is a part of the unit, the last one makes it whole; what the
\* templates write is good.
LEMMA WriteUnitStep ==
    ASSUME GeneratorInv, NEW n \in Names, Generator!Write(n)
    PROVE  GeneratorInv'
<1>1. UnitInv(n) /\ npc[n] = "write"
  BY DEF GeneratorInv, Generator!Write
<1>2. bandit' = bandit /\ cuts' = cuts /\ answer' = answer /\ described' = described
  BY DEF Generator!Write
<1>3. cuts' >= cuts
  BY <1>2 DEF GeneratorInv, GeneratorShapes
<1>4. answer[n] = "none"
  BY <1>1 DEF UnitInv, Word
<1>5. CASE unit[n] = Generator!Absent
  <2>1. PICK q \in Generator!Qualities :
            /\ unit' = [unit EXCEPT ![n] = [quality |-> q, written |-> "part"]]
            /\ ~described[n] => q = "good"
    BY <1>5 DEF Generator!Write, Generator!Qualities
  <2>2. npc' = npc /\ [quality |-> q, written |-> "part"] \in Generator!Part
    BY <1>5 DEF Generator!Write, Generator!Part
  <2>3. GeneratorShapes' /\ OneUnit(n)
    BY <1>2, <2>1, <2>2 DEF GeneratorInv, GeneratorShapes, OneUnit
  <2>4. unit'[n] = [quality |-> q, written |-> "part"]
    BY <2>1 DEF GeneratorInv, GeneratorShapes
  <2>5. UnitInv(n)'
    BY <1>1, <1>2, <1>4, <2>1, <2>2, <2>4 DEF UnitInv, Stage, Word
  <2>. QED BY <1>2, <1>3, <2>3, <2>5, OthersKeep
<1>6. CASE unit[n] # Generator!Absent
  <2>1. unit[n] \in Generator!Part /\ (~described[n] => unit[n].quality = "good")
    BY <1>1, <1>6 DEF UnitInv, Stage
  <2> DEFINE u == [quality |-> unit[n].quality, written |-> "all"]
  <2>2. u \in Generator!Whole /\ (u.quality = "good" => u \in Generator!Passed)
    BY <2>1 DEF Generator!Part, Generator!Whole, Generator!Passed
  <2>3. unit' = [unit EXCEPT ![n] = u]
    BY <1>6, <2>1 DEF Generator!Write, Generator!Part
  <2>4. npc' = [npc EXCEPT ![n] = IF described[n] THEN "gate" ELSE "register"]
    BY <1>6 DEF Generator!Write, Generator!Goto
  <2>5. unit'[n] = u /\ npc'[n] = IF described[n] THEN "gate" ELSE "register"
    BY <2>3, <2>4 DEF GeneratorInv, GeneratorShapes
  <2>6. u.quality = unit[n].quality
    OBVIOUS
  <2> HIDE DEF u
  <2>7. GeneratorShapes' /\ OneUnit(n)
    BY <1>2, <2>2, <2>3, <2>4 DEF GeneratorInv, GeneratorShapes, OneUnit
  <2>8. UnitInv(n)'
    BY <1>2, <1>4, <2>1, <2>2, <2>5, <2>6, PassedStays DEF UnitInv, Stage, Word
  <2>. QED BY <1>2, <1>3, <2>7, <2>8, OthersKeep
<1>. QED BY <1>5, <1>6

\* One finding removes the directory; what no finding names has passed.
LEMMA GateUnitStep ==
    ASSUME GeneratorInv, NEW n \in Names, Generator!Gate(n)
    PROVE  GeneratorInv'
<1>1. UnitInv(n) /\ npc[n] = "gate" /\ unit[n] \in Generator!Whole /\ answer[n] = "none"
  BY DEF GeneratorInv, Generator!Gate, Generator!Gated, UnitInv, Stage, Word
<1>2. bandit' = bandit /\ cuts' = cuts /\ described' = described
  BY DEF Generator!Gate, Generator!Gated
<1>3. cuts' >= cuts
  BY <1>2 DEF GeneratorInv, GeneratorShapes
<1>4. CASE ~Generator!Findings(unit[n].quality) /\ ~Generator!Diagnostics(unit[n].quality)
  <2>1. unit[n] \in Generator!Passed
    BY <1>1, <1>4 DEF Generator!Findings, Generator!Diagnostics, Generator!Whole,
                      Generator!Qualities, Generator!Passed
  <2>2. unit' = unit /\ answer' = answer /\ npc' = [npc EXCEPT ![n] = "register"]
    BY <1>4 DEF Generator!Gate, Generator!Gated, Generator!Goto
  <2>3. GeneratorShapes' /\ OneUnit(n) /\ npc'[n] = "register"
    BY <1>2, <2>2 DEF GeneratorInv, GeneratorShapes, OneUnit
  <2>4. UnitInv(n)'
    BY <1>1, <1>2, <2>1, <2>2, <2>3, PassedStays DEF UnitInv, Stage, Word
  <2>. QED BY <1>2, <1>3, <2>3, <2>4, OthersKeep
<1>5. CASE Generator!Findings(unit[n].quality) \/ Generator!Diagnostics(unit[n].quality)
  <2>1. unit' = [unit EXCEPT ![n] = Generator!Absent]
    BY <1>5 DEF Generator!Gate, Generator!Gated
  <2>2. unit'[n] = Generator!Absent
    BY <2>1 DEF GeneratorInv, GeneratorShapes
  <2>3. CASE attempt[n] = 1
    <3>1. npc' = [npc EXCEPT ![n] = "plan"] /\ answer' = answer
      BY <1>5, <2>3 DEF Generator!Gate, Generator!Gated, Generator!Goto
    <3>2. GeneratorShapes' /\ OneUnit(n) /\ npc'[n] = "plan"
      BY <1>2, <2>1, <3>1 DEF GeneratorInv, GeneratorShapes, OneUnit
    <3>3. UnitInv(n)'
      BY <1>1, <1>2, <2>2, <3>1, <3>2 DEF UnitInv, Stage, Word
    <3>. QED BY <1>2, <1>3, <3>2, <3>3, OthersKeep
  <2>4. CASE attempt[n] # 1
    <3>1. /\ npc' = [npc EXCEPT ![n] = "idle"]
          /\ answer' = [answer EXCEPT ![n] = "refused"]
      BY <1>5, <2>4 DEF Generator!Gate, Generator!Gated, Generator!Goto, Generator!Say
    <3>2. GeneratorShapes' /\ OneUnit(n) /\ npc'[n] = "idle" /\ answer'[n] = "refused"
      BY <1>2, <2>1, <3>1 DEF GeneratorInv, GeneratorShapes, OneUnit
    <3>3. UnitInv(n)'
      BY <2>2, <3>2 DEF UnitInv, Stage, Word
    <3>. QED BY <1>2, <1>3, <3>2, <3>3, OthersKeep
  <2>. QED BY <2>3, <2>4
<1>. QED BY <1>4, <1>5

\* LOTTIE.md is listed, a unit is removed, a command is cut short: the directory
\* stays as it is or goes.
LEMMA SettledStep ==
    ASSUME GeneratorInv, NEW n \in Names,
           \/ Generator!Register(n) \/ Generator!Relist(n)
           \/ Generator!Remove(n) \/ Generator!CutShort(n)
    PROVE  GeneratorInv'
<1>1. UnitInv(n) /\ bandit' = bandit /\ described' = described
  BY DEF GeneratorInv, Generator!Register, Generator!Relist, Generator!Remove,
         Generator!CutShort
<1>2. cuts' >= cuts
  BY DEF Generator!Register, Generator!Relist, Generator!Remove, Generator!CutShort,
         GeneratorInv, GeneratorShapes
<1>3. GeneratorShapes' /\ OneUnit(n)
  BY DEF Generator!Register, Generator!Relist, Generator!Remove, Generator!CutShort,
         Generator!Goto, Generator!Say, GeneratorInv, GeneratorShapes, OneUnit
<1>4. CASE Generator!Register(n) \/ Generator!Relist(n)
  <2>1. unit[n] \in Generator!Passed /\ unit' = unit
    BY <1>1, <1>4 DEF Generator!Register, Generator!Relist, UnitInv, Stage
  <2>2. \/ npc'[n] = "relist" /\ answer'[n] = answer[n] /\ answer[n] = "none"
        \/ npc'[n] = "idle" /\ answer'[n] = "ok"
    BY <1>1, <1>4 DEF Generator!Register, Generator!Relist, Generator!Goto,
                      Generator!Say, GeneratorInv, GeneratorShapes, UnitInv, Word
  <2>3. UnitInv(n)'
    BY <1>1, <2>1, <2>2, PassedStays DEF UnitInv, Stage, Word
  <2>. QED BY <1>1, <1>2, <1>3, <2>3, OthersKeep
<1>5. CASE Generator!Remove(n)
  <2>1. unit'[n] = Generator!Absent /\ npc'[n] = "idle" /\ answer'[n] = "none"
    BY <1>5 DEF Generator!Remove, Generator!Say, GeneratorInv, GeneratorShapes
  <2>2. UnitInv(n)'
    BY <2>1 DEF UnitInv, Stage, Word
  <2>. QED BY <1>1, <1>2, <1>3, <2>2, OthersKeep
<1>6. CASE Generator!CutShort(n)
  <2>1. npc'[n] = "idle" /\ answer'[n] = "none" /\ cuts' # 0
    BY <1>1, <1>6 DEF Generator!CutShort, Generator!Goto, GeneratorInv,
                      GeneratorShapes, UnitInv, Word
  <2>2. UnitInv(n)'
    BY <2>1 DEF UnitInv, Stage, Word
  <2>. QED BY <1>1, <1>2, <1>3, <2>2, OthersKeep
<1>. QED BY <1>4, <1>5, <1>6

LEMMA GeneratorStep == GeneratorInv /\ [Next]_parts => GeneratorInv'
<1> SUFFICES ASSUME GeneratorInv, [Next]_parts PROVE GeneratorInv'
  OBVIOUS
<1>1. CASE Generator!Sync \/ UNCHANGED generator
  BY <1>1 DEF Generator!Sync, generator, GeneratorInv, GeneratorShapes, UnitInv, Stage,
              Word, Generator!Passed
<1>2. CASE Generator!Next
  BY <1>1, <1>2, StartStep, WriteUnitStep, GateUnitStep, SettledStep DEF Generator!Next
<1>. QED BY <1>1, <1>2 DEF Next, parts

\* What a model wrote is on disk, behind a command that has ended, only if it
\* passed the gate whole (security/write_gate.py and scaffold/generator.py), for
\* any number of commands at once and wherever some of them are cut short.
THEOREM GeneratorGates == Spec => []OnlyGatedStays
<1>1. GeneratorInv => OnlyGatedStays
  BY DEF GeneratorInv, UnitInv, Stage, Word, OnlyGatedStays, Generator!OnlyGatedStays
<1>. QED BY <1>1, GeneratorInit, GeneratorStep, PTL DEF Spec

-----------------------------------------------------------------------------
(* lottie distill.  A promotion that is under way only ever moves forward  *)
(* through its files, and what it loaded does not change meanwhile:        *)
(* Promoting says how far it has come.                                     *)

Skills  == [text : Skill!Texts, version : 1 .. distills,
            capability : Capabilities \cup {None}]
Provs   == [version : 1 .. distills]
Records == [capability : Capabilities, version : 1 .. distills]

\* No version is beyond the distillations made.
SkillShapes ==
    /\ {draft, promoted, authored, loaded} \subseteq Skills \cup {None}
    /\ {draftProv, promotedProv, loadedProv} \subseteq Provs \cup {None}
    /\ record \in Records \cup {None}
    /\ dpc \in {"idle", "call", "template", "provenance"}
    /\ rpc \in {"idle", "template", "provenance", "record", "remove"}
    /\ granted \subseteq Capabilities
    /\ distills \in 0 .. MaxDistills /\ reviews \in 0 .. MaxReviews
    /\ edits \in 0 .. MaxEdits /\ deaths \in 0 .. MaxDeaths

\* A distillation under way has a skill to write.
Authoring == dpc # "idle" => authored \in Skills

Reviewed(template) == ~Skill!Flagged(template) /\ template.capability \in granted

\* A promotion under way has loaded a skill that passed, and has put down its
\* files up to its step.
Promoting ==
    /\ rpc # "idle" => loaded \in Skills /\ loadedProv \in Provs /\ Reviewed(loaded)
    /\ rpc \in {"provenance", "record", "remove"} => promoted = loaded
    /\ rpc \in {"record", "remove"} => promotedProv = loadedProv
    /\ rpc = "remove" =>
          record = [capability |-> loaded.capability, version |-> loaded.version]

SkillInv == SkillShapes /\ Authoring /\ Promoting /\ Skill!PromotedIsReviewed

\* What stands for an absent file is not the contents of one.
LEMMA FilesApart == SkillShapes => None \notin Capabilities \cup Skills \cup Provs \cup Records
<1>. SUFFICES ASSUME SkillShapes
              PROVE  None \notin Capabilities \cup Skills \cup Provs \cup Records
  OBVIOUS
<1>1. 1 .. distills \subseteq Int
  OBVIOUS
<1>2. Skills \subseteq [text : Skill!Texts, version : Int,
                        capability : Capabilities \cup {None}]
  BY <1>1 DEF Skills
<1>3. Provs \subseteq [version : Int \cup {None}]
  BY <1>1 DEF Provs
<1>4. Records \subseteq [capability : Capabilities \cup {None}, version : Int]
  BY <1>1 DEF Records
<1>. QED BY <1>2, <1>3, <1>4, PartsAssumption, NoneAssumption

LEMMA SkillInit == Init => SkillInv
<1>. SUFFICES ASSUME Init PROVE SkillInv
  OBVIOUS
<1>1. {MaxDistills, MaxReviews, MaxEdits, MaxDeaths} \subseteq Nat
  BY PartsAssumption
<1>. QED BY <1>1 DEF Init, Skill!Init, SkillInv, SkillShapes, Authoring, Promoting,
                     Skill!PromotedIsReviewed

\* The steps of lottie distill run leave the promotion alone.
LEMMA DistillStep ==
    ASSUME SkillInv, \/ Skill!Distill \/ Skill!Author
                     \/ Skill!WriteTemplate \/ Skill!WriteProvenance
    PROVE  SkillInv'
<1> USE DEF SkillInv, SkillShapes, Authoring, Promoting, Skill!PromotedIsReviewed,
            Reviewed, Skill!Flagged, Skill!promotedVars, Skill!reviewVars,
            Skill!draftVars
<1>1. CASE Skill!Distill
  <2>1. distills \in Nat /\ distills' = distills + 1 /\ distills' \in 0 .. MaxDistills
    BY <1>1, PartsAssumption DEF Skill!Distill
  <2>2. 1 .. distills \subseteq 1 .. distills' /\ 1 \in 1 .. distills'
        /\ \A v \in 1 .. distills : v + 1 \in 1 .. distills'
    BY <2>1
  <2>3. Skills \subseteq Skills' /\ Provs \subseteq Provs' /\ Records \subseteq Records'
    BY <2>2 DEF Skills, Provs, Records
  <2>4. authored' \in Skills'
    <3>1. (IF draft = None THEN 1 ELSE draft.version + 1) \in 1 .. distills'
      BY <2>2 DEF Skills
    <3>. QED BY <1>1, <3>1 DEF Skill!Distill, Skills, Skill!Texts
  <2>. HIDE DEF SkillInv
  <2>5. SkillShapes' /\ Authoring'
    BY <1>1, <2>1, <2>3, <2>4 DEF Skill!Distill, SkillInv
  <2>6. Promoting' /\ Skill!PromotedIsReviewed'
    BY <1>1, <2>3 DEF Skill!Distill, SkillInv
  <2>. QED BY <2>5, <2>6 DEF SkillInv
<1>2. CASE Skill!Author
  <2>1. authored \in Skills /\ Skills' = Skills /\ Provs' = Provs /\ Records' = Records
    BY <1>2 DEF Skill!Author, Skills, Provs, Records
  <2>2. \A c \in Capabilities \cup {None} : [authored EXCEPT !.capability = c] \in Skills
    BY <2>1 DEF Skills
  <2>. QED BY <1>2, <2>1, <2>2 DEF Skill!Author
<1>3. CASE Skill!WriteTemplate
  <2>1. Skills' = Skills /\ Provs' = Provs /\ Records' = Records
    BY <1>3 DEF Skill!WriteTemplate, Skills, Provs, Records
  <2>. QED BY <1>3, <2>1 DEF Skill!WriteTemplate
<1>4. CASE Skill!WriteProvenance
  <2>1. Skills' = Skills /\ Provs' = Provs /\ Records' = Records
    BY <1>4 DEF Skill!WriteProvenance, Skills, Provs, Records
  <2>2. authored.version \in 1 .. distills
    BY <1>4 DEF Skill!WriteProvenance, Skills
  <2>3. draftProv' \in Provs \cup {None}
    BY <1>4, <2>2 DEF Skill!WriteProvenance, Provs
  <2>. QED BY <1>4, <2>1, <2>3 DEF Skill!WriteProvenance
<1>. QED BY <1>1, <1>2, <1>3, <1>4

\* A promotion begins with a skill that passed the screen, under the capability
\* that the reviewer named.
LEMMA PromoteStep ==
    ASSUME SkillInv, Skill!Promote
    PROVE  SkillInv'
<1> USE DEF SkillInv, SkillShapes, Authoring, Promoting, Skill!PromotedIsReviewed, Reviewed
<1>. PICK c \in Capabilities \cup {None} :
      /\ Skill!Reviewing /\ draft # None
      /\ IF c = None \/ Skill!Flagged(draft)
         THEN UNCHANGED <<rpc, loaded, loadedProv, granted>>
         ELSE /\ rpc' = "template" /\ granted' = granted \cup {c}
              /\ loaded' = [draft EXCEPT !.capability = c]
              /\ loadedProv' = IF draftProv = None THEN [version |-> draft.version]
                               ELSE draftProv
      /\ UNCHANGED <<Skill!draftVars, Skill!promotedVars, Skill!distillVars, edits, deaths>>
  BY DEF Skill!Promote, Skill!Approve
<1>0. Skills' = Skills /\ Provs' = Provs /\ Records' = Records
  BY DEF Skills, Provs, Records, Skill!distillVars
<1>1. reviews' \in 0 .. MaxReviews /\ Authoring'
  BY <1>0, PartsAssumption DEF Skill!Reviewing, Skill!distillVars
<1>2. CASE c = None \/ Skill!Flagged(draft)
  BY <1>0, <1>1, <1>2
     DEF Skill!promotedVars, Skill!Reviewing, Skill!Flagged, Skill!draftVars, Skill!distillVars
<1>3. CASE ~(c = None \/ Skill!Flagged(draft))
  <2>1. draft \in Skills /\ c \in Capabilities
    BY <1>3
  <2>2. loaded' \in Skills /\ loaded'.capability = c /\ loaded'.text = draft.text
    BY <1>3, <2>1 DEF Skills
  <2>3. loadedProv' \in Provs
    BY <1>3, <2>1 DEF Skills, Provs
  <2>4. Reviewed(loaded)'
    BY <1>3, <2>2 DEF Skill!Flagged
  <2>5. Skill!PromotedIsReviewed'
    BY <1>3 DEF Skill!promotedVars, Skill!Flagged
  <2>6. SkillShapes'
    BY <1>0, <1>1, <1>3, <2>1, <2>2, <2>3
       DEF Skill!promotedVars, Skill!draftVars, Skill!distillVars
  <2>. QED BY <1>0, <1>1, <1>3, <2>2, <2>3, <2>4, <2>5, <2>6
<1>. QED BY <1>2, <1>3

\* Each file of a promotion, in its turn; and editors, rejections and deaths.
LEMMA OtherSkillStep ==
    ASSUME SkillInv, \/ Skill!PutTemplate \/ Skill!PutProvenance \/ Skill!PutRecord
                     \/ Skill!RemoveDraft \/ Skill!Edit \/ Skill!Reject \/ Skill!Die
    PROVE  SkillInv'
<1> USE DEF SkillInv, SkillShapes, Authoring, Promoting, Skill!PromotedIsReviewed,
            Reviewed, Skill!Flagged, Skill!promotedVars, Skill!distillVars,
            Skill!draftVars, Skill!reviewVars
<1>0. Skills' = Skills /\ Provs' = Provs /\ Records' = Records
  BY DEF Skills, Provs, Records, Skill!PutTemplate, Skill!PutProvenance,
         Skill!PutRecord, Skill!RemoveDraft, Skill!Edit, Skill!Reject, Skill!Die
<1>1. CASE Skill!PutTemplate
  BY <1>0, <1>1 DEF Skill!PutTemplate
<1>2. CASE Skill!PutProvenance
  BY <1>0, <1>2 DEF Skill!PutProvenance
<1>3. CASE Skill!PutRecord
  <2>1. record' \in Records
    BY <1>3 DEF Skill!PutRecord, Skills, Records
  <2>. QED BY <1>0, <1>3, <2>1 DEF Skill!PutRecord
<1>4. CASE Skill!RemoveDraft
  BY <1>0, <1>4 DEF Skill!RemoveDraft
<1>5. CASE Skill!Edit
  <2>1. draft \in Skills
    BY <1>5 DEF Skill!Edit
  <2>2. \A t \in Skill!Texts : [draft EXCEPT !.text = t] \in Skills
    BY <2>1 DEF Skills
  <2>3. edits' \in 0 .. MaxEdits
    BY <1>5, PartsAssumption DEF Skill!Edit
  <2>. QED BY <1>0, <1>5, <2>2, <2>3 DEF Skill!Edit
<1>6. CASE Skill!Reject
  <2>1. reviews' \in 0 .. MaxReviews
    BY <1>6, PartsAssumption DEF Skill!Reject, Skill!Reviewing
  <2>. QED BY <1>0, <1>6, <2>1 DEF Skill!Reject
<1>7. CASE Skill!Die
  <2>1. deaths' \in 0 .. MaxDeaths
    BY <1>7, PartsAssumption DEF Skill!Die
  <2>. QED BY <1>0, <1>7, <2>1 DEF Skill!Die
<1>. QED BY <1>1, <1>2, <1>3, <1>4, <1>5, <1>6, <1>7

LEMMA SkillStep == SkillInv /\ [Next]_parts => SkillInv'
<1>. SUFFICES ASSUME SkillInv, [Next]_parts PROVE SkillInv'
  OBVIOUS
<1>1. CASE UNCHANGED skill
  BY <1>1 DEF skill, SkillInv, SkillShapes, Skills, Provs, Records, Authoring, Promoting,
              Skill!PromotedIsReviewed, Reviewed, Skill!Flagged
<1>2. Skill!Next \/ UNCHANGED skill
  BY DEF Next, parts
<1>. QED BY <1>1, <1>2, DistillStep, PromoteStep, OtherSkillStep DEF Skill!Next

LEMMA SkillTypes == SkillInv => Skill!TypeOK
<1>. SUFFICES ASSUME SkillInv PROVE Skill!TypeOK
  OBVIOUS
<1>1. 1 .. distills \subseteq Skill!Versions
  BY PartsAssumption DEF SkillInv, SkillShapes, Skill!Versions
<1>2. /\ Skills \subseteq Skill!Templates /\ Provs \subseteq Skill!Provenances
      /\ Records \subseteq [capability : Capabilities, version : Skill!Versions]
  BY <1>1 DEF Skills, Provs, Records, Skill!Templates, Skill!Provenances
<1>. QED BY <1>2 DEF SkillInv, SkillShapes, Skill!TypeOK

\* What agents run was screened in the state it ships in, and carries a capability
\* that a reviewer gave (distill/store.py, promote), for any number of processes'
\* deaths, editors' changes and later distillations in between.
THEOREM SkillReviewed == Spec => []PromotedIsReviewed
<1>1. SkillInv => PromotedIsReviewed
  BY DEF SkillInv, PromotedIsReviewed
<1>. QED BY <1>1, SkillInit, SkillStep, PTL DEF Spec

\* A draft leaves the disk by a rejection or behind a promotion that stands whole
\* (distill/store.py, promote), wherever a process dies.
THEOREM SkillDraftKept == Spec => ApprovedNotLost
<1>1. ASSUME SkillInv, [Next]_parts PROVE [Skill!DraftKept]_parts
  <2>. SUFFICES ASSUME Skill!Next, draft # None, draft' = None
                PROVE  reviews' > reviews \/ Skill!Whole
    <3>1. Skill!Next \/ draft' = draft
      BY <1>1 DEF Next, parts, skill
    <3>. QED BY <3>1 DEF Skill!DraftKept
  <2>0. None \notin Capabilities \cup Skills \cup Provs \cup Records
    BY <1>1, FilesApart DEF SkillInv
  <2>1. CASE Skill!RemoveDraft
    <3>1. /\ promoted = loaded /\ promotedProv = loadedProv
          /\ loaded \in Skills /\ loadedProv \in Provs
          /\ record = [capability |-> loaded.capability, version |-> loaded.version]
          /\ loaded.capability \in Capabilities
      BY <2>1, <1>1 DEF Skill!RemoveDraft, SkillInv, SkillShapes, Promoting, Reviewed
    <3>2. record \in Records
      BY <3>1 DEF Skills, Records
    <3>. QED BY <2>0, <3>1, <3>2 DEF Skill!Whole
  <2>2. CASE Skill!Reject
    BY <2>2, <1>1 DEF Skill!Reject, Skill!Reviewing, SkillInv, SkillShapes
  <2>3. CASE Skill!WriteTemplate
    BY <2>0, <2>3, <1>1 DEF Skill!WriteTemplate, SkillInv, Authoring
  <2>4. CASE Skill!Edit
    <3>1. draft' \in Skills
      BY <2>4, <1>1 DEF Skill!Edit, SkillInv, SkillShapes, Skills
    <3>. QED BY <2>0, <3>1
  <2>5. CASE \/ Skill!Distill \/ Skill!Author \/ Skill!WriteProvenance \/ Skill!Promote
             \/ Skill!PutTemplate \/ Skill!PutProvenance \/ Skill!PutRecord \/ Skill!Die
    BY <2>5 DEF Skill!Distill, Skill!Author, Skill!WriteProvenance, Skill!Promote,
                Skill!Approve, Skill!PutTemplate, Skill!PutProvenance, Skill!PutRecord,
                Skill!Die, Skill!draftVars
  <2>. QED BY <2>1, <2>2, <2>3, <2>4, <2>5 DEF Skill!Next
<1>. QED BY <1>1, SkillInit, SkillStep, PTL DEF Spec, ApprovedNotLost

-----------------------------------------------------------------------------
(* The chain of providers.  The outcomes of a call are cut in two by the   *)
(* provider being asked: those before it failed and may fail over, those   *)
(* behind it were not asked; and only it has spoken.                       *)

CallInv ==
    /\ outcome \in [Model!Providers -> Model!Outcomes] /\ tried \in Model!Providers
    /\ lpc \in {"idle", "run", "asked", "streaming"}
    /\ \A p \in Model!Providers : p < tried => outcome[p] = "transient"
    /\ \A p \in Model!Providers : p > tried => outcome[p] = "unasked"
    /\ voices \subseteq {tried}
    /\ lpc \in {"asked", "streaming"} => outcome[tried] = "unasked"
    /\ lpc = "asked" => voices = {}

\* A call is answered at most once.
CallShapes ==
    /\ {active, named} \subseteq Model!Providers /\ streamed \in BOOLEAN
    /\ served \in Seq(Model!Providers)
    /\ Len(served) + (IF lpc \in {"asked", "streaming"} THEN 1 ELSE 0) <= calls
    /\ rowOf \in [provider : Model!Providers \cup {0}, served : Seq(Model!Providers)]
    /\ deltas \in 0 .. MaxDeltas /\ calls \in 0 .. MaxCalls /\ runs \in 0 .. MaxRuns

LEMMA ModelInit == Init => CallInv /\ CallShapes
<1>. SUFFICES ASSUME Init PROVE CallInv /\ CallShapes
  OBVIOUS
<1>1. Chain \in Nat \ {0} /\ {MaxDeltas, MaxCalls, MaxRuns} \subseteq Nat
  BY PartsAssumption
<1>2. 1 \in Model!Providers
  BY <1>1 DEF Model!Providers
<1>3. CallInv
  BY <1>1, <1>2 DEF Init, Model!Init, CallInv, Model!Providers, Model!Unasked, Model!Outcomes
<1>4. /\ served = <<>> /\ calls = 0 /\ lpc = "idle" /\ rowOf = [provider |-> 0, served |-> <<>>]
      /\ active = 1 /\ named = 1 /\ streamed = FALSE /\ deltas = 0 /\ runs = 0
  BY DEF Init, Model!Init, Model!NoRow
<1>5. <<>> \in Seq(Model!Providers) /\ Len(<<>>) = 0
  OBVIOUS
<1>6. rowOf \in [provider : Model!Providers \cup {0}, served : Seq(Model!Providers)]
  BY <1>4, <1>5
<1>7. Len(served) + (IF lpc \in {"asked", "streaming"} THEN 1 ELSE 0) <= calls
  BY <1>4, <1>5
<1>8. CallShapes
  <2>1. served \in Seq(Model!Providers) /\ deltas \in 0 .. MaxDeltas
        /\ calls \in 0 .. MaxCalls /\ runs \in 0 .. MaxRuns
    BY <1>1, <1>4, <1>5
  <2>2. {active, named} \subseteq Model!Providers /\ streamed \in BOOLEAN
    BY <1>2, <1>4
  <2>. QED BY <1>6, <1>7, <2>1, <2>2, Zenon DEF CallShapes
<1>. QED BY <1>3, <1>8

\* A failure moves on to the next provider, or ends the call.
LEMMA FailCall ==
    ASSUME CallInv, Model!Fail
    PROVE  CallInv'
<1>. PICK kind \in Model!Kinds :
      /\ lpc \in {"asked", "streaming"}
      /\ outcome' = [outcome EXCEPT ![tried] =
                        IF lpc = "streaming" THEN "broken" ELSE kind]
      /\ IF Model!FallsBack(kind)
         THEN lpc' = "asked" /\ tried' = tried + 1
         ELSE lpc' = "run" /\ UNCHANGED tried
      /\ UNCHANGED voices
  BY DEF Model!Fail
<1>1. /\ outcome' \in [Model!Providers -> Model!Outcomes]
      /\ \A p \in Model!Providers \ {tried} : outcome'[p] = outcome[p]
  BY DEF CallInv, Model!Kinds, Model!Outcomes
<1>2. CASE Model!FallsBack(kind)
  <2>1. lpc = "asked" /\ tried + 1 \in Model!Providers /\ outcome'[tried] = "transient"
    BY <1>2, PartsAssumption DEF Model!FallsBack, CallInv, Model!Providers
  <2>. QED BY <1>1, <1>2, <2>1 DEF CallInv, Model!Providers
<1>3. CASE ~Model!FallsBack(kind)
  BY <1>1, <1>3 DEF CallInv, Model!Providers
<1>. QED BY <1>2, <1>3

LEMMA CallStep ==
    ASSUME CallInv, Model!Next
    PROVE  CallInv'
<1>1. CASE Model!StartRun
  BY <1>1 DEF Model!StartRun, CallInv
<1>2. CASE Model!Ask
  BY <1>2, PartsAssumption DEF Model!Ask, CallInv, Model!Unasked, Model!Providers, Model!Outcomes
<1>3. CASE Model!Answer
  BY <1>3 DEF Model!Answer, CallInv, Model!Providers, Model!Outcomes
<1>4. CASE Model!Delta
  BY <1>4 DEF Model!Delta, CallInv
<1>5. CASE Model!CloseStream
  BY <1>5 DEF Model!CloseStream, CallInv
<1>6. CASE Model!EndRun
  BY <1>6 DEF Model!EndRun, CallInv
<1>. QED BY <1>1, <1>2, <1>3, <1>4, <1>5, <1>6, FailCall DEF Model!Next

LEMMA CallShapesStep ==
    ASSUME CallInv, CallShapes, Model!Next
    PROVE  CallShapes'
<1>. DEFINE n == Len(served)
<1>0. n \in Nat /\ {MaxDeltas, MaxCalls, MaxRuns} \subseteq Nat
  BY PartsAssumption, LenProperties DEF CallShapes
<1>1. CASE Model!StartRun
  <2>1. served' = <<>> /\ <<>> \in Seq(Model!Providers) /\ Len(<<>>) = 0
    BY <1>1 DEF Model!StartRun
  <2>. QED BY <1>0, <1>1, <2>1 DEF Model!StartRun, CallShapes
<1>2. CASE Model!Ask
  <2>1. n <= calls /\ served' = served
    BY <1>2 DEF Model!Ask, CallShapes
  <2>. HIDE DEF n
  <2>2. n + 1 <= calls' /\ calls' \in 0 .. MaxCalls /\ deltas' \in 0 .. MaxDeltas
    BY <1>0, <1>2, <2>1 DEF Model!Ask, CallShapes
  <2>. QED BY <1>2, <2>1, <2>2 DEF Model!Ask, CallShapes, n
<1>3. CASE Model!Answer
  <2>1. served' \in Seq(Model!Providers) /\ Len(served') = n + 1
    BY <1>3, AppendProperties DEF Model!Answer, CallShapes, CallInv
  <2>. HIDE DEF n
  <2>2. n + 1 <= calls /\ calls' = calls
    BY <1>3 DEF Model!Answer, CallShapes, n
  <2>. QED BY <1>3, <2>1, <2>2 DEF Model!Answer, CallShapes, CallInv
<1>4. CASE Model!Delta
  <2>1. deltas' \in 0 .. MaxDeltas
    BY <1>0, <1>4 DEF Model!Delta, CallShapes
  <2>. QED BY <1>4, <2>1 DEF Model!Delta, CallShapes
<1>5. CASE Model!Fail \/ Model!CloseStream
  <2>1. /\ lpc \in {"asked", "streaming"} /\ lpc' \in {"run", "asked"}
        /\ UNCHANGED <<active, named, served, rowOf, streamed, deltas, calls, runs>>
    BY <1>5 DEF Model!Fail, Model!CloseStream
  <2>. HIDE DEF n
  <2>2. n + 1 <= calls /\ calls \in Nat
    BY <2>1 DEF CallShapes, n
  <2>3. n + (IF lpc' \in {"asked", "streaming"} THEN 1 ELSE 0) <= calls
    BY <1>0, <2>2
  <2>. QED BY <2>1, <2>3 DEF CallShapes, n
<1>6. CASE Model!EndRun
  BY <1>6 DEF Model!EndRun, CallShapes
<1>. QED BY <1>1, <1>2, <1>3, <1>4, <1>5, <1>6 DEF Model!Next

LEMMA ModelStep == CallInv /\ CallShapes /\ [Next]_parts => CallInv' /\ CallShapes'
<1>1. UNCHANGED model /\ CallInv /\ CallShapes => CallInv' /\ CallShapes'
  BY DEF model, CallInv, CallShapes
<1>2. [Next]_parts => Model!Next \/ UNCHANGED model
  BY DEF Next, parts
<1>. QED BY <1>1, <1>2, CallStep, CallShapesStep

LEMMA ModelTypes == CallInv /\ CallShapes => Model!TypeOK
<1>. SUFFICES ASSUME CallInv, CallShapes PROVE Model!TypeOK
  OBVIOUS
<1>1. Len(served) <= MaxCalls
  <2>. DEFINE n == Len(served)
  <2>1. n \in Nat /\ n + (IF lpc \in {"asked", "streaming"} THEN 1 ELSE 0) <= calls
    BY LenProperties DEF CallShapes
  <2>2. calls \in 0 .. MaxCalls /\ MaxCalls \in Nat
    BY PartsAssumption DEF CallShapes
  <2>. HIDE DEF n
  <2>. QED BY <2>1, <2>2 DEF n
<1>. QED BY <1>1 DEF CallInv, CallShapes, Model!TypeOK

\* What a caller gets of one call is one provider's, and nobody is asked behind a
\* refusal or a broken stream (llm/routing.py), however long the chain.
THEOREM ModelOneVoice == Spec => []OneVoice
<1>0. Chain \in Nat \ {0}
  BY PartsAssumption
<1>1. CallInv => OneVoice
  BY <1>0 DEF CallInv, OneVoice, Model!OneVoice, Model!Providers
<1>. QED BY <1>1, ModelInit, ModelStep, PTL DEF Spec

-----------------------------------------------------------------------------
(* lottie run --session *)

Ended == {r \in Runs : spc[r] = "over"}

\* A list that has every run of a set once.
Lists(list, set) ==
    /\ IsFiniteSet(set) /\ Len(list) = Cardinality(set)
    /\ {list[i] : i \in DOMAIN list} = set
Kept == IF file = NoFile THEN <<>> ELSE file.runs

SessionShapes ==
    /\ file \in Session!States \cup {NoFile, Torn}
    /\ spc \in [Runs -> {"new", "open", "write", "over", "died"}]
    /\ copy \in [Runs -> Session!States]
    /\ back \in [Runs -> {"open", "over"}]

\* What is in the file, or on its way there, has passed the screen.
Screened ==
    /\ file \notin {NoFile, Torn} => ~Session!Joined(file.progress)
    /\ \A r \in Runs : spc[r] = "write" => ~Session!Joined(copy[r].progress)

\* What an undisturbed run has in hand.
InHand(r) ==
    /\ spc[r] = "open"  => Lists(copy[r].runs, Ended)
    /\ spc[r] = "write" =>
          /\ file = Torn
          /\ Lists(copy[r].runs, IF back[r] = "over" THEN Ended \cup {r} ELSE Ended)

InOrder ==
    /\ \A q, r \in Session!InFlight : q = r
    /\ \A r \in Runs : InHand(r)
    /\ (\A r \in Runs : spc[r] # "write") => file # Torn /\ Lists(Kept, Ended)

SessionInv == SessionShapes /\ Screened /\ (~disturbed => InOrder)

LEMMA EmptyState == Session!Empty \in Session!States
<1>1. <<>> \in Seq(Session!Values) /\ Len(<<>>) = 0
  BY EmptySeq
<1>2. <<>> \in [1 .. 0 -> Session!Values]
  BY <1>1, LenProperties
<1>3. <<>> \in UNION {[1 .. n -> Session!Values] : n \in 0 .. MaxKeys}
  <2>1. MaxKeys \in Nat
    BY PartsAssumption
  <2>. QED BY <1>2, <2>1
<1>4. <<>> \in Seq(Runs)
  BY EmptySeq
<1>. QED BY <1>3, <1>4 DEF Session!Empty, Session!States

LEMMA SessionInit == Init => SessionInv
<1>. SUFFICES ASSUME Init PROVE SessionInv
  OBVIOUS
<1>1. Session!Init
  BY DEF Init
<1>2. Ended = {} /\ Session!InFlight = {}
  BY <1>1 DEF Session!Init, Ended, Session!InFlight
<1>3. Lists(<<>>, {})
  BY FS_EmptySet DEF Lists
<1>4. Session!Empty \in Session!States
  BY EmptyState
<1>5. SessionShapes /\ Screened
  BY <1>1, <1>4, FileAssumption DEF Session!Init, SessionShapes, Screened
<1>6. InOrder
  BY <1>1, <1>2, <1>3, FileAssumption DEF Session!Init, InOrder, InHand, Kept
<1>. QED BY <1>5, <1>6 DEF SessionInv

LEMMA MergedStates ==
    ASSUME NEW s \in Session!States, NEW p \in Session!Merged(s.progress)
    PROVE  [s EXCEPT !.progress = p] \in Session!States /\ [s EXCEPT !.progress = p].runs = s.runs
<1>1. PICK n \in 0 .. MaxKeys : s.progress \in [1 .. n -> Session!Values]
  BY DEF Session!States
<1>2. MaxKeys \in Nat /\ Len(s.progress) = n /\ s.progress \in Seq(Session!Values)
  BY <1>1, PartsAssumption
<1>3. CASE \E i \in DOMAIN s.progress, v \in Session!Values : p = [s.progress EXCEPT ![i] = v]
  <2>1. p \in [1 .. n -> Session!Values]
    BY <1>1, <1>3
  <2>. QED BY <2>1 DEF Session!States
<1>4. CASE n < MaxKeys /\ \E v \in Session!Values : p = Append(s.progress, v)
  <2>1. p \in Seq(Session!Values) /\ Len(p) = n + 1
    BY <1>2, <1>4, AppendProperties
  <2>2. p \in [1 .. n + 1 -> Session!Values]
    BY <2>1, LenProperties
  <2>3. n + 1 \in 0 .. MaxKeys
    BY <1>2, <1>4
  <2>4. p \in UNION {[1 .. j -> Session!Values] : j \in 0 .. MaxKeys}
    BY <2>2, <2>3
  <2>. QED BY <2>4 DEF Session!States
<1>. QED BY <1>2, <1>3, <1>4 DEF Session!Merged

LEMMA EndStates ==
    ASSUME NEW s \in Session!States, NEW r \in Runs
    PROVE  /\ [s EXCEPT !.runs = Append(@, r)] \in Session!States
           /\ [s EXCEPT !.runs = Append(@, r)].runs = Append(s.runs, r)
<1>1. Append(s.runs, r) \in Seq(Runs)
  BY AppendProperties DEF Session!States
<1>. QED BY <1>1 DEF Session!States

LEMMA ListsOneMore ==
    ASSUME NEW list \in Seq(Runs), NEW set, Lists(list, set), NEW r \in Runs, r \notin set
    PROVE  Lists(Append(list, r), set \cup {r})
<1>1. IsFiniteSet(set \cup {r}) /\ Cardinality(set \cup {r}) = Cardinality(set) + 1
  BY FS_AddElement DEF Lists
<1>2. Len(Append(list, r)) = Len(list) + 1 /\ DOMAIN Append(list, r) = 1 .. Len(list) + 1
  OBVIOUS
<1>3. \A i \in 1 .. Len(list) : Append(list, r)[i] = list[i]
  OBVIOUS
<1>4. Append(list, r)[Len(list) + 1] = r /\ DOMAIN list = 1 .. Len(list) /\ Len(list) \in Nat
  OBVIOUS
<1>5. {Append(list, r)[i] : i \in DOMAIN Append(list, r)} = set \cup {r}
  BY <1>2, <1>3, <1>4 DEF Lists
<1>. QED BY <1>1, <1>2, <1>5 DEF Lists

\* A save writes nothing of the runs that have ended.
LEMMA SaveStep ==
    ASSUME SessionInv, NEW r \in Runs, spc[r] = "open", NEW state \in Session!States,
           NEW ret \in {"open", "over"}, Session!Save(r, state, ret),
           ~disturbed => Lists(state.runs, IF ret = "over" THEN Ended \cup {r} ELSE Ended)
    PROVE  SessionInv'
<1>1. copy' = [copy EXCEPT ![r] = state]
  BY DEF Session!Save
<1>2. CASE Session!Rejected(state.progress)
  <2>1. disturbed' = TRUE /\ spc' = [spc EXCEPT ![r] = ret] /\ file' = file /\ back' = back
    BY <1>2 DEF Session!Save
  <2>. QED BY <1>1, <2>1 DEF SessionInv, SessionShapes, Screened
<1>3. CASE ~Session!Rejected(state.progress)
  <2>1. /\ spc' = [spc EXCEPT ![r] = "write"] /\ file' = Torn
        /\ back' = [back EXCEPT ![r] = ret] /\ disturbed' = disturbed
    BY <1>3 DEF Session!Save
  <2>2. ~Session!Joined(state.progress)
    BY <1>3 DEF Session!Rejected
  <2>3. SessionShapes' /\ Screened'
    BY <1>1, <2>1, <2>2 DEF SessionInv, SessionShapes, Screened
  <2>4. ASSUME ~disturbed PROVE InOrder'
    <3>1. Ended' = Ended /\ Session!InFlight' = Session!InFlight
      BY <2>1 DEF Ended, Session!InFlight, SessionInv, SessionShapes
    <3>2. ASSUME NEW q \in Runs PROVE InHand(q)'
      <4>1. CASE q = r
        BY <1>1, <2>1, <2>4, <3>1, <4>1 DEF InHand, SessionInv, SessionShapes
      <4>2. CASE q # r
        <5>1. spc[q] \notin {"open", "write"}
          BY <2>4, <4>2 DEF SessionInv, InOrder, Session!InFlight
        <5>. QED BY <2>1, <4>2, <5>1 DEF InHand, SessionInv, SessionShapes
      <4>. QED BY <4>1, <4>2
    <3>3. spc'[r] = "write"
      BY <2>1 DEF SessionInv, SessionShapes
    <3>. QED BY <2>4, <3>1, <3>2, <3>3 DEF SessionInv, InOrder
  <2>. QED BY <2>1, <2>3, <2>4 DEF SessionInv
<1>. QED BY <1>2, <1>3

LEMMA WriteFileStep ==
    ASSUME SessionInv, NEW r \in Runs, Session!Write(r)
    PROVE  SessionInv'
<1>1. /\ spc[r] = "write" /\ spc' = [spc EXCEPT ![r] = back[r]]
      /\ copy' = copy /\ back' = back /\ disturbed' = disturbed
      /\ file' \in {NoFile, Torn, copy[r]} /\ (file = Torn => file' = copy[r])
  BY FileAssumption DEF Session!Write
<1>2. SessionShapes' /\ Screened' /\ copy[r] \notin {NoFile, Torn}
  BY <1>1, FileAssumption DEF SessionInv, SessionShapes, Screened
<1>3. ASSUME ~disturbed PROVE InOrder'
  <2>1. /\ file' = copy[r] /\ Kept' = copy[r].runs
        /\ Lists(copy[r].runs, IF back[r] = "over" THEN Ended \cup {r} ELSE Ended)
    BY <1>1, <1>2, <1>3 DEF SessionInv, InOrder, InHand, Kept
  <2>2. Ended' = IF back[r] = "over" THEN Ended \cup {r} ELSE Ended
    BY <1>1 DEF Ended, SessionInv, SessionShapes
  <2>3. \A q \in Runs \ {r} : spc[q] \notin {"open", "write"} /\ spc'[q] = spc[q]
    BY <1>1, <1>3 DEF SessionInv, InOrder, Session!InFlight, SessionShapes
  <2>4. spc'[r] = back[r] /\ back[r] \in {"open", "over"}
    BY <1>1 DEF SessionInv, SessionShapes
  <2>5. ASSUME NEW q \in Runs PROVE InHand(q)'
    BY <1>1, <2>1, <2>2, <2>3, <2>4 DEF InHand
  <2>6. \A p, q \in Session!InFlight' : p = q
    BY <2>3 DEF Session!InFlight
  <2>7. file' # Torn /\ Lists(Kept', Ended')
    BY <1>2, <2>1, <2>2
  <2>. QED BY <2>5, <2>6, <2>7 DEF InOrder, Lists
<1>. QED BY <1>1, <1>2, <1>3 DEF SessionInv

LEMMA OpenStep ==
    ASSUME SessionInv, NEW r \in Runs, Session!Open(r)
    PROVE  SessionInv'
<1>1. /\ spc[r] = "new" /\ file' = file /\ back' = back
      /\ spc' = [spc EXCEPT ![r] = IF file = Torn THEN "over" ELSE "open"]
      /\ copy' = [copy EXCEPT ![r] = IF file \in {NoFile, Torn} THEN Session!Empty ELSE file]
      /\ disturbed' = (disturbed \/ file = Torn \/ Session!InFlight # {})
  BY DEF Session!Open
<1>2. SessionShapes' /\ Screened'
  BY <1>1, EmptyState DEF SessionInv, SessionShapes, Screened
<1>3. ASSUME ~disturbed' PROVE InOrder'
  <2>1. ~disturbed /\ file # Torn /\ Session!InFlight = {}
    BY <1>1, <1>3
  <2>2. \A q \in Runs : spc[q] \notin {"open", "write"}
    BY <2>1 DEF Session!InFlight
  <2>3. Lists(Kept, Ended)
    BY <2>1, <2>2 DEF SessionInv, InOrder
  <2>4. spc' = [spc EXCEPT ![r] = "open"] /\ copy'[r].runs = Kept
    BY <1>1, <2>1, FileAssumption DEF Kept, SessionInv, SessionShapes, Session!Empty
  <2>5. Ended' = Ended /\ Kept' = Kept
    BY <1>1, <2>4 DEF Ended, Kept, SessionInv, SessionShapes
  <2>6. ASSUME NEW q \in Runs PROVE InHand(q)'
    BY <2>2, <2>3, <2>4, <2>5 DEF InHand, SessionInv, SessionShapes
  <2>7. \A p, q \in Session!InFlight' : p = q
    BY <2>2, <2>4 DEF Session!InFlight, SessionInv, SessionShapes
  <2>8. file' # Torn /\ Lists(Kept', Ended')
    BY <1>1, <2>1, <2>3, <2>5
  <2>. QED BY <2>6, <2>7, <2>8 DEF InOrder, Lists
<1>. QED BY <1>2, <1>3 DEF SessionInv

LEMMA SessionStep == SessionInv /\ [Next]_parts => SessionInv'
<1> SUFFICES ASSUME SessionInv, [Next]_parts PROVE SessionInv'
  OBVIOUS
<1>1. ASSUME NEW r \in Runs, Session!SaveProgress(r) PROVE SessionInv'
  <2>1. spc[r] = "open"
    BY <1>1 DEF Session!SaveProgress
  <2>2. PICK p \in Session!Merged(copy[r].progress) :
           Session!Save(r, [copy[r] EXCEPT !.progress = p], "open")
    BY <1>1 DEF Session!SaveProgress
  <2>3. copy[r] \in Session!States
    BY DEF SessionInv, SessionShapes
  <2>4. ~disturbed => Lists(copy[r].runs, Ended)
    BY <2>1 DEF SessionInv, InOrder, InHand
  <2>. QED BY <2>1, <2>2, <2>3, <2>4, MergedStates, SaveStep
<1>2. ASSUME NEW r \in Runs, Session!End(r) PROVE SessionInv'
  <2> DEFINE state == [copy[r] EXCEPT !.runs = Append(@, r)]
  <2>1. spc[r] = "open" /\ Session!Save(r, state, "over")
    BY <1>2 DEF Session!End
  <2>2. copy[r] \in Session!States
    BY DEF SessionInv, SessionShapes
  <2>3. state \in Session!States /\ state.runs = Append(copy[r].runs, r)
    BY <2>2, EndStates
  <2>4. ~disturbed => Lists(copy[r].runs, Ended) /\ r \notin Ended
    BY <2>1 DEF SessionInv, InOrder, InHand, Ended
  <2>5. ~disturbed => Lists(state.runs, Ended \cup {r})
    BY <2>2, <2>3, <2>4, ListsOneMore DEF Session!States
  <2>. HIDE DEF state
  <2>. QED BY <2>1, <2>3, <2>5, SaveStep
<1>3. ASSUME NEW r \in Runs, Session!Die(r) PROVE SessionInv'
  BY <1>3 DEF Session!Die, SessionInv, SessionShapes, Screened
<1>4. CASE Session!Delete
  BY <1>4 DEF Session!Delete, SessionInv, SessionShapes, Screened
<1>5. CASE UNCHANGED session
  <2>1. /\ file' = file /\ spc' = spc /\ copy' = copy /\ back' = back
        /\ disturbed' = disturbed
    BY <1>5 DEF session
  <2>2. Ended' = Ended /\ Kept' = Kept /\ Session!InFlight' = Session!InFlight
    BY <2>1 DEF Ended, Kept, Session!InFlight
  <2>3. SessionShapes' /\ Screened'
    BY <2>1 DEF SessionInv, SessionShapes, Screened
  <2>4. InOrder => InOrder'
    <3>1. ASSUME NEW r \in Runs, InHand(r) PROVE InHand(r)'
      BY <2>1, <2>2, <3>1 DEF InHand
    <3>. QED BY <2>1, <2>2, <3>1 DEF InOrder
  <2>. QED BY <2>1, <2>3, <2>4 DEF SessionInv
<1>6. CASE Session!Next
  BY <1>1, <1>2, <1>3, <1>4, <1>6, OpenStep, WriteFileStep DEF Session!Next
<1>. QED BY <1>5, <1>6 DEF Next, parts

\* No file of a session carries a text that the screen flags, and runs that do not
\* disturb each other are all listed, once (session/store.py and
\* session/middleware.py), for any number of runs and keys.
THEOREM SessionKeepsRuns == Spec => []RunsKept
<1>1. SessionInv => RunsKept
  <2>. SUFFICES ASSUME SessionInv PROVE RunsKept
    OBVIOUS
  <2>1. ~disturbed /\ Session!InFlight = {} => file # Torn /\ Lists(Kept, Ended)
    BY DEF SessionInv, InOrder, Session!InFlight
  <2>2. ~disturbed /\ Session!InFlight = {} =>
           /\ file # Torn /\ Len(Kept) = Cardinality(Ended)
           /\ {Kept[i] : i \in DOMAIN Kept} = Ended
    BY <2>1 DEF Lists
  <2>3. file \notin {NoFile, Torn} => ~Session!Joined(file.progress)
    BY DEF SessionInv, Screened
  <2>4. RunsKept =
           (/\ file \notin {NoFile, Torn} => ~Session!Joined(file.progress)
            /\ ~disturbed /\ Session!InFlight = {} =>
                 /\ file # Torn /\ Len(Kept) = Cardinality(Ended)
                 /\ {Kept[i] : i \in DOMAIN Kept} = Ended)
    BY SameCardinality, Zenon DEF RunsKept, Session!RunsKept, Kept, Ended
  <2>. QED BY <2>2, <2>3, <2>4, Zenon
<1>. QED BY <1>1, SessionInit, SessionStep, PTL DEF Spec

-----------------------------------------------------------------------------
(* The prompt of a call.  While another part moves, there are no sources. *)

LEMMA SameSources ==
    /\ Context!Gathered = PromptProofs!Gathered
    /\ \A s : Context!ByOrder(s) = PromptProofs!ByOrder(s)
<1>1. Context!Gathered = PromptProofs!Gathered
  BY DEF Context!Gathered, PromptProofs!Gathered, Context!Extras, PromptProofs!Extras,
         Context!Agent, PromptProofs!Agent, Context!Extra, PromptProofs!Extra,
         Context!Recall, PromptProofs!Recall, Context!Said, PromptProofs!Said
<1>2. \A s : Context!ByOrder(s) = PromptProofs!ByOrder(s)
  BY DEF Context!ByOrder, PromptProofs!ByOrder, Context!Sooner, PromptProofs!Sooner,
         Context!Cardinality, PromptProofs!Cardinality
<1>. QED BY <1>1, <1>2

LEMMA PromptInit == Init => PromptProofs!ContextInv
<1>. SUFFICES ASSUME Init PROVE PromptProofs!ContextInv
  OBVIOUS
<1>1. CASE part = "context"
  <2>1. Context!Init
    BY <1>1 DEF Init
  <2>2. PromptProofs!Init
    BY <2>1, SameSources DEF Context!Init, PromptProofs!Init
  <2>3. Orders \subseteq Int
    BY PartsAssumption
  <2>. QED BY <2>2, <2>3, PromptProofs!ContextInit
<1>2. CASE part # "context"
  <2>1. /\ sources = <<>> /\ keep = 1 /\ emitted = <<>> /\ place = 1 /\ dropped = {}
        /\ cpc = "check"
    BY <1>2 DEF Init
  <2>2. /\ <<>> \in Seq(PromptProofs!Sources) /\ Len(<<>>) = 0
    BY EmptySeq
  <2>3. PromptProofs!Fine(sources)
    BY <2>1, <2>2 DEF PromptProofs!Fine, PromptProofs!Apart
  <2>4. PromptProofs!ContextShapes
    BY <2>1, <2>2, <2>3 DEF PromptProofs!ContextShapes
  <2>5. PromptProofs!Budgeted
    BY <2>1, <2>2 DEF PromptProofs!Budgeted
  <2>6. PromptProofs!PromptKeeps
    BY <2>1 DEF PromptProofs!PromptKeeps
  <2>. QED BY <2>4, <2>5, <2>6 DEF PromptProofs!ContextInv
<1>. QED BY <1>1, <1>2

LEMMA PromptStep == [Next]_parts => [PromptProofs!Next]_(PromptProofs!contextVars)
<1>1. Context!Next => PromptProofs!Next
  BY DEF Context!Next, PromptProofs!Next, Context!Check, PromptProofs!Check,
         Context!Keep, PromptProofs!Keep, Context!GiveUp, PromptProofs!GiveUp,
         Context!GivenUp, PromptProofs!GivenUp, Context!LoopEnds, PromptProofs!LoopEnds,
         Context!Compact, PromptProofs!Compact, Context!SummaryFails,
         PromptProofs!SummaryFails, Context!AsksModel, PromptProofs!AsksModel,
         Context!Compacted, PromptProofs!Compacted, Context!Droppable,
         PromptProofs!Droppable, Context!Untouchable, PromptProofs!Untouchable,
         Context!Summary, PromptProofs!Summary, Context!Said, PromptProofs!Said,
         Context!Inputs, PromptProofs!Inputs, Context!Fits, PromptProofs!Fits,
         Context!Over, PromptProofs!Over, Context!Tokens, PromptProofs!Tokens,
         Context!Assemble, PromptProofs!Assemble, Context!FlattenSeq,
         PromptProofs!FlattenSeq
<1>2. UNCHANGED context => UNCHANGED PromptProofs!contextVars
  BY DEF context, PromptProofs!contextVars
<1>. QED BY <1>1, <1>2 DEF Next, parts

LEMMA PromptInvStep == PromptProofs!ContextInv /\ [Next]_parts => PromptProofs!ContextInv'
BY PromptStep, PromptProofs!ContextStep

\* What a prompt over its ceiling gives up, and what never, whatever the ceiling, the
\* turns and the summaries are (context/compiler.py and context/compaction.py).
THEOREM PromptKeepsItsOrder == Spec => []PromptKeeps
<1>1. PromptProofs!PromptKeeps => PromptKeeps
  BY DEF PromptKeeps, Context!PromptKeeps, PromptProofs!PromptKeeps, Context!Fits,
         PromptProofs!Fits, Context!Over, PromptProofs!Over, Context!Tokens,
         PromptProofs!Tokens, Context!Assemble, PromptProofs!Assemble,
         Context!FlattenSeq, PromptProofs!FlattenSeq, Context!ToSet, PromptProofs!ToSet,
         Context!Cardinality, PromptProofs!Cardinality
<1>2. PromptProofs!ContextInv => PromptProofs!PromptKeeps
  BY DEF PromptProofs!ContextInv
<1>. QED BY <1>1, <1>2, PromptInit, PromptInvStep, PTL DEF Spec

-----------------------------------------------------------------------------
(* The types of all parts, what the properties say nothing of included *)

\* What a run of a session counts.
SessionCounts == saves \in [Runs -> 0 .. MaxSaves] /\ disturbed \in BOOLEAN

LEMMA SessionCountsInit == Init => SessionCounts
<1>1. 0 \in 0 .. MaxSaves
  BY PartsAssumption
<1>. QED BY <1>1 DEF Init, Session!Init, SessionCounts

LEMMA SessionCountsStep == SessionCounts /\ [Next]_parts => SessionCounts'
<1>. SUFFICES ASSUME SessionCounts, [Next]_parts PROVE SessionCounts'
  OBVIOUS
<1>1. ASSUME NEW r \in Runs, Session!SaveProgress(r) PROVE SessionCounts'
  <2>1. saves[r] < MaxSaves /\ saves' = [saves EXCEPT ![r] = @ + 1] /\ saves[r] \in Nat
    BY <1>1 DEF Session!SaveProgress, SessionCounts
  <2>2. saves[r] + 1 \in 0 .. MaxSaves
    BY <2>1, PartsAssumption
  <2>3. saves' \in [Runs -> 0 .. MaxSaves]
    BY <2>1, <2>2 DEF SessionCounts
  <2>4. disturbed' \in BOOLEAN
    BY <1>1 DEF Session!SaveProgress, Session!Save, SessionCounts
  <2>. QED BY <2>3, <2>4 DEF SessionCounts
<1>2. ASSUME NEW r \in Runs, Session!Open(r) \/ Session!End(r) \/ Session!Write(r) \/ Session!Die(r)
      PROVE  SessionCounts'
  BY <1>2, Zenon DEF Session!Open, Session!End, Session!Save, Session!Write, Session!Die,
                     SessionCounts
<1>3. CASE Session!Delete \/ UNCHANGED session
  BY <1>3 DEF Session!Delete, session, SessionCounts
<1>. QED BY <1>1, <1>2, <1>3 DEF Next, parts, Session!Next

\* What a command remembers beside the directory.
Remembers ==
    /\ parentInit \in BOOLEAN /\ bandit \in BOOLEAN /\ listed \subseteq Names
    /\ attempt \in [Names -> 1 .. 2] /\ created \in [Names -> BOOLEAN]
    /\ lines \in [Names -> SUBSET Names] /\ commands \in 0 .. MaxCommands

LEMMA RemembersInit == Init => Remembers
BY PartsAssumption DEF Init, Generator!Init, Remembers

LEMMA RemembersStep ==
    GeneratorInv /\ Remembers /\ [Next]_parts => Remembers'
<1>. SUFFICES ASSUME GeneratorInv, Remembers, [Next]_parts PROVE Remembers'
  OBVIOUS
<1>0. MaxCommands \in Nat
  BY PartsAssumption
<1>1. ASSUME NEW n \in Names, Generator!Generate(n) \/ Generator!Describe(n)
      PROVE  Remembers'
  <2>1. commands' \in 0 .. MaxCommands /\ attempt' \in [Names -> 1 .. 2]
    BY <1>0, <1>1 DEF Generator!Generate, Generator!Describe, Generator!Count, Remembers
  <2>2. created' \in [Names -> BOOLEAN] /\ parentInit' \in BOOLEAN
    BY <1>1, Zenon DEF Generator!Generate, Generator!Describe, Remembers
  <2>3. UNCHANGED <<bandit, listed, lines>>
    BY <1>1 DEF Generator!Generate, Generator!Describe
  <2>. QED BY <2>1, <2>2, <2>3 DEF Remembers
<1>2. ASSUME NEW n \in Names, Generator!Plan(n) \/ Generator!Write(n) \/ Generator!Gate(n)
      PROVE  Remembers'
  <2>1. attempt' \in [Names -> 1 .. 2]
    BY <1>2 DEF Generator!Plan, Generator!Write, Generator!Gate, Generator!Gated,
                Remembers
  <2>2. parentInit' \in BOOLEAN
    BY <1>2, Zenon DEF Generator!Plan, Generator!Write, Generator!Gate,
                       Generator!Gated, Remembers
  <2>3. UNCHANGED <<bandit, listed, lines, created, commands>>
    BY <1>2 DEF Generator!Plan, Generator!Write, Generator!Gate, Generator!Gated
  <2>. QED BY <2>1, <2>2, <2>3 DEF Remembers
<1>3. ASSUME NEW n \in Names, Generator!Register(n) \/ Generator!Relist(n)
      PROVE  Remembers'
  BY <1>3 DEF Generator!Register, Generator!Relist, Remembers
<1>4. ASSUME NEW n \in Names, Generator!Remove(n) \/ Generator!CutShort(n)
      PROVE  Remembers'
  BY <1>4 DEF Generator!Remove, Generator!CutShort, Remembers
<1>5. CASE Generator!Sync \/ UNCHANGED generator
  BY <1>5 DEF Generator!Sync, generator, Remembers
<1>6. CASE Generator!Next
  BY <1>1, <1>2, <1>3, <1>4, <1>5, <1>6 DEF Generator!Next
<1>. QED BY <1>5, <1>6 DEF Next, parts

LEMMA GeneratorTypes == GeneratorInv /\ Remembers => Generator!TypeOK
BY DEF GeneratorInv, GeneratorShapes, Remembers, Generator!TypeOK

LEMMA SessionTypes == SessionInv /\ SessionCounts => Session!TypeOK
BY DEF SessionInv, SessionShapes, SessionCounts, Session!TypeOK

LEMMA ContextTypes == PromptProofs!ContextInv => Context!TypeOK
BY DEF PromptProofs!ContextInv, PromptProofs!ContextShapes, Context!TypeOK

\* Every part's variables keep their types, whichever part moves: what is stored,
\* queued or sent is what the code reads back, and nothing outruns its bound.
THEOREM PartsTypes == Spec => []TypeOK
<1>1. /\ MemoryShapes /\ SessionInv /\ SessionCounts /\ SkillInv /\ CallInv /\ CallShapes
      /\ LibraryInv /\ LibraryCounts /\ ChunksInv /\ PromptProofs!ContextInv
      /\ SearchInv /\ GeneratorInv /\ Remembers
      => TypeOK
  BY MemoryTypes, SessionTypes, SkillTypes, ModelTypes, LibraryTypes, ChunksTypes,
     ContextTypes, SearchTypes, GeneratorTypes DEF TypeOK
<1>2. Spec => []MemoryShapes
  BY MemoryShapesInit, MemoryShapesStep, PTL DEF Spec
<1>3. Spec => [](SessionInv /\ SessionCounts)
  BY SessionInit, SessionStep, SessionCountsInit, SessionCountsStep, PTL DEF Spec
<1>4. Spec => [](SkillInv /\ CallInv /\ CallShapes)
  BY SkillInit, SkillStep, ModelInit, ModelStep, PTL DEF Spec
<1>5. Spec => [](LibraryInv /\ LibraryCounts)
  BY LibraryInit, LibraryStep, LibraryCountsInit, LibraryCountsStep, PTL DEF Spec
<1>6. Spec => [](ChunksInv /\ SearchInv)
  BY ChunksInit, ChunksStep, SearchInit, SearchStep, PTL DEF Spec
<1>7. Spec => []PromptProofs!ContextInv
  BY PromptInit, PromptInvStep, PTL DEF Spec
<1>8. Spec => [](GeneratorInv /\ Remembers)
  BY GeneratorInit, GeneratorStep, RemembersInit, RemembersStep, PTL DEF Spec
<1>. QED BY <1>1, <1>2, <1>3, <1>4, <1>5, <1>6, <1>7, <1>8, PTL
=============================================================================
