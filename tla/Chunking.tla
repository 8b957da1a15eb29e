------------------------------ MODULE Chunking ------------------------------
(***************************************************************************)
(* chunk_document (knowledge/chunking.py): a window over a text, whose end *)
(* snaps back to a separator.  A text is its length and the places right   *)
(* after its separators; one Emit is one turn of the loop.                 *)
(***************************************************************************)
EXTENDS Naturals, Sequences, FiniteSets, FiniteSetsExt

CONSTANTS
    Lengths, Sizes,     \* of the text, of the window
    MaxBreaks           \* bound: separators of a text

VARIABLES
    length,
    paragraphs, words,  \* the places after separators two and one characters long
    size, overlap,      \* ChunkConfig
    start, chunks,      \* of the loop; a chunk is where it starts and ends
    over

chunkingVars == <<length, paragraphs, words, size, overlap, start, chunks, over>>

Init ==
    /\ length \in Lengths /\ size \in Sizes
    /\ overlap \in 0 .. size - 1
    /\ \E k \in 0 .. MaxBreaks : \E breaks \in kSubset(k, 1 .. length) :
          /\ paragraphs \in SUBSET (breaks \ {1})
          /\ words = breaks \ paragraphs
    /\ start = 0 /\ chunks = <<>> /\ over = (length = 0)

\* _find_boundary: the last place behind a separator that lies in the window
\* whole, the first kind of separator that has one; 0 if none has.
Behind(places, width, end) == {p \in places : start + width <= p /\ p <= end}
Boundary(end) ==
    IF Behind(paragraphs, 2, end) # {} THEN Max(Behind(paragraphs, 2, end))
    ELSE IF Behind(words, 1, end) # {} THEN Max(Behind(words, 1, end)) ELSE 0

\* Only a substantial chunk is snapped, and not the last one.
SnapFloor == Max({1, size \div 4})
WindowEnd ==
    LET full == Min({start + size, length}) IN
    IF full < length /\ Boundary(full) >= start + SnapFloor THEN Boundary(full) ELSE full

Emitted(next) ==
    /\ ~over
    /\ chunks' = Append(chunks, [start |-> start, end |-> WindowEnd])
    /\ over' = (WindowEnd = length)
    /\ start' = IF WindowEnd = length THEN start ELSE next
    /\ UNCHANGED <<length, paragraphs, words, size, overlap>>
Back == IF WindowEnd > overlap THEN WindowEnd - overlap ELSE 0
EmitUnforced == Emitted(Back)
Emit == Emitted(Max({Back, start + 1}))

Next == Emit

Spec == Init /\ [][Next]_chunkingVars

TypeOK ==
    /\ start \in 0 .. length /\ over \in BOOLEAN
    /\ \A i \in DOMAIN chunks : {chunks[i].start, chunks[i].end} \subseteq 0 .. length

-----------------------------------------------------------------------------
(* Properties *)

\* Every character of the text is in a chunk, of at most the window's size; each
\* chunk begins after the one before it did, and with an overlap below the
\* floor of the snap (the default configuration's) also ends after it: none is
\* part of its predecessor (knowledge/chunking.py, chunk_document).
ChunksCover ==
    LET n == Len(chunks) IN
    /\ n > 0 => chunks[1].start = 0 /\ (over => chunks[n].end = length)
    /\ over /\ length > 0 => n > 0
    /\ \A i \in 1 .. n : chunks[i].end - chunks[i].start \in 1 .. size
    /\ \A i \in 1 .. n - 1 :
          /\ chunks[i].start < chunks[i + 1].start /\ chunks[i + 1].start <= chunks[i].end
          /\ overlap < SnapFloor => chunks[i].end < chunks[i + 1].end
=============================================================================
