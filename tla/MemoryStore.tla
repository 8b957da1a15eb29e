---------------------------- MODULE MemoryStore -----------------------------
(***************************************************************************)
(* Runtime memory: the MemoryAgent gateway (memory/agent.py, apply) in     *)
(* front of one SQLite file (memory/store.py).  Reflection, the            *)
(* trajectory module and `lottie reflect` each make a gateway of their own *)
(* and several processes share the file.  The gateway screens a delta,     *)
(* folds an added note onto an equal one, writes, and then audits.  An     *)
(* update is a SELECT and, later, an UPDATE of the whole row.              *)
(***************************************************************************)
EXTENDS Integers, Sequences, FiniteSets, SequencesExt

CONSTANTS
    Writers,       \* gateways, each in a thread or process of its own
    Notes,         \* contents
    RejectedNotes,       \* those that the content gate rejects
    Tags,
    Window,        \* how many records the search for an equal note reads
    Unset,          \* a patch's field that is None
    MaxApplies,    \* bound: deltas applied
    MaxFaults      \* bound: faults of each gateway

Ids   == 1 .. MaxApplies
NoId  == 0
Rows  == [note : Notes, tier : {"semantic", "episodic"}, tags : SUBSET Tags,
          status : {"active", "deprecated"}]
Patches == [note : Notes \cup {Unset}, tags : (SUBSET Tags) \cup {Unset},
            status : {"deprecated", Unset}]
Adds == [op : {"add"}, note : Notes, tags : SUBSET Tags, target : Ids \cup {NoId},
         tier : {"semantic", "episodic"}]     \* from reflection, from trajectories
Deltas ==
    Adds \cup [op : {"update"}, note : Notes, tags : SUBSET Tags, target : Ids \cup {NoId}]
         \cup [op : {"deprecate"}, target : Ids \cup {NoId}]

VARIABLES
    records,     \* the table, in the order of the rowids
    recency,     \* its rows' ids, the last one updated first
    mpc,         \* each gateway: "idle", or the statement it comes to
    delta,       \* what it applies
    patch,       \* of an update
    row,         \* what the update's SELECT read
    writes, audits,    \* of each gateway
    faults,      \* its processes that died, and audit rows that were not written
    applies

memoryVars == <<records, recency, mpc, delta, patch, row, writes, audits, faults,
                applies>>

NoRow   == [note |-> Unset]
NoDelta == [op |-> Unset]
NoPatch == [status |-> Unset]

TypeOK ==
    /\ records \in Seq(Rows) /\ Len(records) <= MaxApplies
    /\ {recency[i] : i \in DOMAIN recency} = DOMAIN records
    /\ Len(recency) = Len(records)
    /\ mpc \in [Writers -> {"idle", "search", "select", "update", "insert", "audit"}]
    /\ \A w \in Writers :
          /\ delta[w] \in Deltas \/ delta[w] = NoDelta
          /\ patch[w] \in Patches \/ patch[w] = NoPatch
          /\ mpc[w] = "update" => row[w] \in Rows
    /\ applies \in 0 .. MaxApplies

Init ==
    /\ records = <<>> /\ recency = <<>> /\ applies = 0
    /\ mpc = [w \in Writers |-> "idle"]
    /\ delta = [w \in Writers |-> NoDelta]
    /\ patch = [w \in Writers |-> NoPatch]
    /\ row = [w \in Writers |-> NoRow]
    /\ writes = [w \in Writers |-> 0] /\ audits = [w \in Writers |-> 0]
    /\ faults = [w \in Writers |-> 0]

Goto(w, label) == mpc' = [mpc EXCEPT ![w] = label]
\* A gateway forgets a delta that it is done with.
Rest(w) == /\ Goto(w, "idle")
           /\ delta' = [delta EXCEPT ![w] = NoDelta]
           /\ patch' = [patch EXCEPT ![w] = NoPatch]
           /\ row' = [row EXCEPT ![w] = NoRow]

\* MemoryAgent.apply, one delta: the screen, then the operation.  A rejected
\* delta is skipped (its own audit row is not counted here); so is an update or
\* a deprecation without a target.
Screened(d) == d.op \in {"add", "update"} => d.note \notin RejectedNotes
Apply(w) ==
    /\ mpc[w] = "idle" /\ applies < MaxApplies /\ applies' = applies + 1
    /\ \E d \in Deltas :
       \/ /\ d.op = "add" /\ d.target = NoId /\ Screened(d)
          /\ Goto(w, IF d.tier = "semantic" THEN "search" ELSE "insert")
          /\ delta' = [delta EXCEPT ![w] = d] /\ UNCHANGED patch
       \/ /\ d.op # "add" /\ d.target # NoId /\ Screened(d)
          /\ Goto(w, "select")
          /\ delta' = [delta EXCEPT ![w] = d]
          /\ patch' = [patch EXCEPT ![w] =
                IF d.op = "update"
                THEN [note |-> d.note, tags |-> IF d.tags = {} THEN Unset ELSE d.tags,
                      status |-> Unset]
                ELSE [note |-> Unset, tags |-> Unset, status |-> "deprecated"]]
       \/ /\ ~Screened(d) \/ (d.op # "add" /\ d.target = NoId)
          /\ UNCHANGED <<mpc, delta, patch>>
    /\ UNCHANGED <<records, recency, row, writes, audits, faults>>

\* _find_by_content: the most recently updated active records, up to the limit,
\* of any tier.  An equal note gets the new tags, by an update.
Active      == {i \in DOMAIN recency : records[recency[i]].status = "active"}
Visible     == {i \in Active : Cardinality({j \in Active : j < i}) < Window}
Equal(note) == {i \in Visible : records[recency[i]].note = note}
Search(w) ==
    LET d == delta[w] IN
    /\ mpc[w] = "search"
    /\ IF Equal(d.note) = {}
       THEN Goto(w, "insert") /\ UNCHANGED <<delta, patch>>
       ELSE LET i == recency[Min(Equal(d.note))] IN
            /\ Goto(w, "select")
            /\ delta' = [delta EXCEPT ![w].target = i]
            /\ patch' = [patch EXCEPT ![w] =
                  [note |-> Unset, tags |-> records[i].tags \cup d.tags, status |-> Unset]]
    /\ UNCHANGED <<records, recency, row, writes, audits, faults, applies>>

\* SqliteMemoryClient.update reads the row; a target that is not there raises,
\* out of apply.
Select(w) ==
    /\ mpc[w] = "select"
    /\ IF delta[w].target \in DOMAIN records
       THEN /\ row' = [row EXCEPT ![w] = records[delta[w].target]]
            /\ Goto(w, "update") /\ UNCHANGED <<delta, patch>>
       ELSE Rest(w)
    /\ UNCHANGED <<records, recency, writes, audits, faults, applies>>

Patched(r, p) ==
    [r EXCEPT !.note = IF p.note = Unset THEN @ ELSE p.note,
              !.tags = IF p.tags = Unset THEN @ ELSE p.tags,
              !.status = IF p.status = Unset THEN @ ELSE p.status]
Place(id) == CHOOSE i \in DOMAIN recency : recency[i] = id
\* ... and writes all of it back, committed.
Stored(w, label) ==
    /\ mpc[w] = "update" /\ Goto(w, label)
    /\ records' = [records EXCEPT ![delta[w].target] = Patched(row[w], patch[w])]
    /\ recency' = <<delta[w].target>> \o RemoveAt(recency, Place(delta[w].target))
    /\ writes' = [writes EXCEPT ![w] = @ + 1]
    /\ UNCHANGED <<delta, patch, row, audits, faults, applies>>
UpdateUnaudited(w) == Stored(w, "idle")
Update(w) == Stored(w, "audit")

\* SqliteMemoryClient.remember
Inserted(w, newest) ==
    /\ mpc[w] = "insert" /\ Goto(w, "audit")
    /\ records' = Append(records, [note |-> delta[w].note, tier |-> delta[w].tier,
                                   tags |-> delta[w].tags, status |-> "active"])
    /\ recency' = newest \o recency
    /\ writes' = [writes EXCEPT ![w] = @ + 1]
    /\ UNCHANGED <<delta, patch, row, audits, faults, applies>>
InsertUndated(w) == Inserted(w, <<>>)
Insert(w) == Inserted(w, <<Len(records) + 1>>)

\* _write_apply_audit, after the write.
Audit(w) ==
    /\ mpc[w] = "audit" /\ Rest(w)
    /\ audits' = [audits EXCEPT ![w] = @ + 1]
    /\ UNCHANGED <<records, recency, writes, faults, applies>>

\* SqliteAuditLogger.log warns of a failure and goes on.
AuditFails(w) ==
    /\ mpc[w] = "audit" /\ faults[w] < MaxFaults /\ Rest(w)
    /\ faults' = [faults EXCEPT ![w] = @ + 1]
    /\ UNCHANGED <<records, recency, writes, audits, applies>>

\* A statement of the store fails ("database is locked"), which ends the apply.
Fails(w) ==
    /\ mpc[w] \in {"search", "select", "update", "insert"} /\ Rest(w)
    /\ UNCHANGED <<records, recency, writes, audits, faults, applies>>

\* The process dies; another takes its place.
Die(w) ==
    /\ mpc[w] # "idle" /\ faults[w] < MaxFaults /\ Rest(w)
    /\ faults' = [faults EXCEPT ![w] = @ + 1]
    /\ UNCHANGED <<records, recency, writes, audits, applies>>

Next == \E w \in Writers :
    \/ Apply(w) \/ Search(w) \/ Select(w) \/ Update(w) \/ Insert(w)
    \/ Audit(w) \/ AuditFails(w) \/ Fails(w) \/ Die(w)

Spec == Init /\ [][Next]_memoryVars

-----------------------------------------------------------------------------
(* Properties *)

\* Every change of the store leaves its audit row, whatever statements fail and
\* however notes fold and updates interleave: only a process that died, or an audit
\* log that failed, right after a write owes one (memory/agent.py, apply).
AuditedWrites == \A w \in Writers :
    /\ audits[w] <= writes[w]
    /\ writes[w] <= audits[w] + faults[w] + (IF mpc[w] = "audit" THEN 1 ELSE 0)

\* "A patch NEVER replaces a whole record - only the supplied fields change"
\* (memory/schema.py): no delta makes a note active, so that one that was
\* deprecated stays so.
StaysDeprecated == \A i \in DOMAIN records :
    records[i].status = "deprecated" => records'[i].status = "deprecated"
OnlySuppliedFieldsChange == [][StaysDeprecated]_memoryVars
=============================================================================
