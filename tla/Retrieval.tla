----------------------------- MODULE Retrieval ------------------------------
(***************************************************************************)
(* RetrievalSkill (skills/retrieval): the best chunks for a query, and one *)
(* chunk, at half its score, of every document the hits depend on.  The    *)
(* store is asked twice, and an ingest or a build beside the query adds to *)
(* it in between.                                                          *)
(***************************************************************************)
EXTENDS Naturals, Sequences, FiniteSets, SequencesExt

CONSTANTS
    Scores,              \* similarities to the query, positive (see README)
    MaxDocs, MaxChunks   \* bounds: documents, and chunks in the store

\* A document has two chunks, and sorts by its number.
Docs       == 1 .. MaxDocs
Chunks     == 1 .. 2 * MaxDocs
Doc(chunk) == (chunk + 1) \div 2

VARIABLES
    store,       \* its chunks: their score for the query, and whether they pass
                 \* the layers and tags the query asks for
    dependsOn,   \* the graph, as it was when the skill was built
    k, expand,   \* of the query
    qpc, base, counted, hits

retrievalVars == <<store, dependsOn, k, expand, qpc, base, counted, hits>>

Stored == DOMAIN store
Entries == [score : Scores, passes : BOOLEAN]

Init ==
    /\ \E n \in 0 .. MaxChunks : \E c \in kSubset(n, Chunks) : store \in [c -> Entries]
    /\ dependsOn \in {f \in [Docs -> SUBSET Docs] : \A d \in Docs : \A e \in f[d] : d < e}
    /\ k \in 1 .. 2 /\ expand \in BOOLEAN
    /\ ~expand => dependsOn = [d \in Docs |-> {}]     \* it is not looked at
    /\ qpc = "asked" /\ base = <<>> /\ counted = {} /\ hits = <<>>

\* A hit's score is counted in halves.  By score, then by id.
Hit(chunk, halves) == [chunk |-> chunk, score |-> halves * store[chunk].score]
Ranked(a, b)  == a.score > b.score \/ (a.score = b.score /\ a.chunk < b.chunk)
Above(hit, from)  == {other \in from : Ranked(other, hit)}
BestFirst(from)   == [i \in 1 .. Cardinality(from) |->
                         CHOOSE hit \in from : Cardinality(Above(hit, from)) = i - 1]
Best(n, from) == LET sorted == BestFirst({Hit(c, 2) : c \in from}) IN
                 SubSeq(sorted, 1, IF n < Len(sorted) THEN n ELSE Len(sorted))

\* VectorStore.query with the filters of the caller, and the end of a query that
\* does not expand.
Passing == {c \in Stored : store[c].passes}
Query ==
    /\ qpc = "asked"
    /\ base' = Best(k, Passing)
    /\ qpc' = (IF expand THEN "expanding" ELSE "done")
    /\ hits' = (IF expand THEN hits ELSE base')
    /\ UNCHANGED <<store, dependsOn, k, expand, counted>>

\* The documents behind the base hits, and what they depend on beyond that.
Seen       == {Doc(base[i].chunk) : i \in DOMAIN base}
Neighbours == (UNION {dependsOn[d] : d \in Seen}) \ Seen

\* The wide query: without filters, for as many chunks as the store then counted.
\* The first of a document is its best.
FirstOf(d, wide) == SelectInSeq(wide, LAMBDA hit : Doc(hit.chunk) = d)
ExpandWith(wide) ==
    LET found == {d \in Neighbours : FirstOf(d, wide) > 0}
        added == {Hit(wide[FirstOf(d, wide)].chunk, 1) : d \in found}
    IN  /\ qpc = "counted" /\ qpc' = "done"
        /\ hits' = BestFirst(Range(base) \cup added)
        /\ UNCHANGED <<store, dependsOn, k, expand, base, counted>>
ExpandNarrow == ExpandWith(Best(k + 1, Stored))
Expand       == ExpandWith(Best(Cardinality(counted), Stored))

Count ==
    /\ qpc = "expanding" /\ qpc' = "counted" /\ counted' = Stored
    /\ UNCHANGED <<store, dependsOn, k, expand, base, hits>>

\* Another process stores a chunk (before the query it is there from the start, and
\* the filters have done their work).
Add == \E c \in Chunks \ Stored : \E entry \in {e \in Entries : e.passes} :
    /\ Cardinality(Stored) < MaxChunks /\ qpc \in {"expanding", "counted"}
    /\ store' = [d \in Stored \cup {c} |-> IF d = c THEN entry ELSE store[d]]
    /\ UNCHANGED <<dependsOn, k, expand, qpc, base, counted, hits>>

Next == Query \/ Count \/ Expand \/ Add

Spec == Init /\ [][Next]_retrievalVars

TypeOK ==
    /\ Stored \subseteq Chunks /\ store \in [Stored -> Entries]
    /\ counted \subseteq Chunks
    /\ qpc \in {"asked", "expanding", "counted", "done"}
    /\ \A hit \in Range(base) \cup Range(hits) : hit.chunk \in Chunks /\ hit.score \in Nat

-----------------------------------------------------------------------------
(* Properties *)

\* What a query gives the agent: no chunk twice and best first; every base hit, in
\* front of any expansion of the same similarity; and beyond these only documents
\* that a base hit depends on and none stands for, one chunk each, and all of
\* them, whatever the filters, unless the store grew between its count and the wide
\* query (skills/retrieval/skill.py, _execute and _expand_graph_hits).
HitsRight == qpc = "done" =>
    LET expanded == Range(hits) \ Range(base) IN
    /\ \A i, j \in DOMAIN hits : i < j =>
          /\ hits[i].score >= hits[j].score
          /\ hits[i].chunk # hits[j].chunk
    /\ Range(base) \subseteq Range(hits)
    /\ \A i, j \in DOMAIN hits :
          /\ hits[i] \in Range(base) /\ hits[j] \in expanded
          /\ store[hits[i].chunk].score = store[hits[j].chunk].score
          => i < j
    /\ \A x, y \in expanded : x # y => Doc(x.chunk) # Doc(y.chunk)
    /\ {Doc(x.chunk) : x \in expanded} \subseteq Neighbours
    /\ expand /\ counted = Stored =>
          {d \in Neighbours : \E c \in Stored : Doc(c) = d} \subseteq
          {Doc(x.chunk) : x \in expanded}
=============================================================================
