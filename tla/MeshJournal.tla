---------------------------- MODULE MeshJournal ----------------------------
(***************************************************************************)
(* What a mesh thread promises to the human who steers it and to the one   *)
(* who reads its result: the record of its steps only grows, one step at a *)
(* time; while the thread waits for a decision nothing happens on it; a    *)
(* result is the record, its steps in another order at most; and only a    *)
(* restart without a durable checkpointer loses anything.  Mesh is shown   *)
(* to implement this.                                                      *)
(***************************************************************************)
EXTENDS Integers, Sequences, FiniteSets, SequencesExt

CONSTANTS
    Threads,   \* thread ids
    Steps,     \* what one step may record
    NoAnswer

VARIABLES
    durable,   \* the checkpointer survives a restart
    record,    \* the steps of each thread
    asked,     \* threads that wait for a decision
    answer     \* the last result that was returned for each thread

journalVars == <<durable, record, asked, answer>>

JournalInit ==
    /\ durable \in BOOLEAN
    /\ record = [t \in Threads |-> <<>>]
    /\ asked = {}
    /\ answer = [t \in Threads |-> NoAnswer]

\* The same steps, each as often.
SameSteps(p, q) ==
    /\ Len(p) = Len(q)
    /\ \A s \in Range(p) \cup Range(q) :
        Cardinality({i \in DOMAIN p : p[i] = s})
        = Cardinality({i \in DOMAIN q : q[i] = s})

\* One more step, any of Steps.
Grows(t) ==
    /\ record'[t] # <<>> /\ Last(record'[t]) \in Steps
    /\ record' = [record EXCEPT ![t] = Append(@, Last(record'[t]))]

Extend(t) ==
    /\ t \notin asked
    /\ Grows(t)
    /\ UNCHANGED answer

Answer(t) ==
    /\ answer'[t] # NoAnswer
    /\ SameSteps(answer'[t], record[t])
    /\ answer' = [answer EXCEPT ![t] = answer'[t]]
    /\ UNCHANGED record

Ask(t) == t \notin asked /\ asked' = asked \cup {t}

\* An approval; a rejection puts itself on the record.
Decide(t) ==
    /\ t \in asked
    /\ asked' = asked \ {t}
    /\ UNCHANGED record \/ Grows(t)
    /\ UNCHANGED <<durable, answer>>

Restart ==
    /\ \/ durable /\ asked' \subseteq Threads /\ UNCHANGED record
       \/ ~durable /\ asked' = {} /\ record' = [t \in Threads |-> <<>>]
    /\ UNCHANGED <<durable, answer>>

JournalNext ==
    \/ \E t \in Threads :
        \/ /\ UNCHANGED durable
           /\ UNCHANGED asked \/ Ask(t)
           /\ \/ UNCHANGED <<record, answer>>
              \/ Extend(t)
              \/ Answer(t)
        \/ Decide(t)
    \/ Restart

JournalSpec == JournalInit /\ [][JournalNext]_journalVars
=============================================================================
