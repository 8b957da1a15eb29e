------------------------------- MODULE MCParts ------------------------------
(***************************************************************************)
(* The parts of the system that share no state with the others, for TLC:   *)
(* Init picks the one that moves.                                          *)
(***************************************************************************)
EXTENDS Integers, Sequences

CONSTANTS
    Writers, Notes, RejectedNotes, Tags, Window, Unset, MaxApplies, MaxFaults,
    Runs, MaxKeys, MaxSaves, NoFile, Torn,
    Capabilities, None, MaxDistills, MaxReviews, MaxEdits, MaxDeaths,
    Chain, MaxRuns, MaxCalls, MaxDeltas,
    Stems, Nothing, MaxSources, MaxIngests, MaxBuilds, MaxClears,
    Lengths, Sizes, MaxBreaks,
    Orders, Ceilings, NoCeiling, MaxTurns, MaxKeep, Summaries,
    Names, MaxCommands,
    Scores, MaxDocs, MaxChunks

\* The constants that the modules assume something of.
ASSUME PartsAssumption ==
    /\ RejectedNotes \subseteq Notes /\ None \notin Capabilities
    /\ Chain \in Nat \ {0}
    /\ Orders \subseteq Int
    /\ Lengths \cup Sizes \cup Scores \subseteq Nat /\ 0 \notin Sizes \cup Scores
    /\ {Window, MaxApplies, MaxFaults, MaxKeys, MaxSaves, MaxDistills, MaxReviews,
        MaxEdits, MaxDeaths, MaxRuns, MaxCalls, MaxDeltas, MaxCommands,
        MaxSources, MaxDocs} \subseteq Nat

VARIABLES
    part,
    records, recency, mpc, delta, patch, row, writes, audits, faults, applies,
    file, spc, copy, back, saves, disturbed,
    draft, draftProv, promoted, promotedProv, record, dpc, authored, rpc, loaded,
    loadedProv, granted, distills, reviews, edits, deaths,
    active, named, served, rowOf, lpc, streamed, tried, outcome, voices, deltas, calls,
    runs,
    tree, index, given, at, ipc, documents, flagged, errors, unindexed, doomed, ingests,
    touches, builds, clears,
    length, paragraphs, words, size, overlap, start, chunks, over,
    sources, ceiling, summarises, keep, emitted, place, dropped, cpc, prompt, before,
    unit, parentInit, listed, npc, described, attempt, created, bandit, lines, answer,
    commands, cuts,
    store, dependsOn, k, expand, qpc, base, counted, hits

Memory    == INSTANCE MemoryStore
Session   == INSTANCE SessionStore
Skill     == INSTANCE DistilledSkill
Model     == INSTANCE Completion WITH index <- tried
Library   == INSTANCE Knowledge WITH edits <- touches
Chunks    == INSTANCE Chunking
Context   == INSTANCE ContextCompiler WITH given <- sources, at <- place
Generator == INSTANCE Scaffold WITH copy <- lines, faults <- cuts
Search    == INSTANCE Retrieval

\* What stands for an absent file of a skill is not the contents of one.
ASSUME NoneAssumption == None \notin
    [text : Skill!Texts, version : Int, capability : Capabilities \cup {None}]
    \cup [version : Int \cup {None}]
    \cup [capability : Capabilities \cup {None}, version : Int]

\* Nor is what stands for an absent or a torn file, or for no document, the
\* contents of one.
ASSUME FileAssumption ==
    NoFile # Torn /\ {NoFile, Torn} \cap Session!States = {} /\ Nothing \notin Library!Texts

memory  == <<records, recency, mpc, delta, patch, row, writes, audits, faults, applies>>
session == <<file, spc, copy, back, saves, disturbed>>
skill   == <<draft, draftProv, promoted, promotedProv, record, dpc, authored, rpc,
             loaded, loadedProv, granted, distills, reviews, edits, deaths>>
model   == <<active, named, served, rowOf, lpc, streamed, tried, outcome, voices, deltas,
             calls, runs>>
library == <<tree, index, given, at, ipc, documents, flagged, errors, unindexed, doomed,
             ingests, touches, builds, clears>>
text    == <<length, paragraphs, words, size, overlap, start, chunks, over>>
context == <<sources, ceiling, summarises, keep, emitted, place, dropped, cpc, prompt,
             before>>
generator == <<unit, parentInit, listed, npc, described, attempt, created, bandit, lines,
               answer, commands, cuts>>
search  == <<store, dependsOn, k, expand, qpc, base, counted, hits>>

\* A part that does not move rests in one state.
Init ==
    /\ part \in {"memory", "session", "skill", "model", "library", "text", "context",
                 "generator", "search"}
    /\ Memory!Init /\ Session!Init /\ Skill!Init /\ Model!Init /\ Library!Init
    /\ IF part = "text" THEN Chunks!Init
       ELSE /\ length = 0 /\ paragraphs = {} /\ words = {} /\ size = 1 /\ overlap = 0
            /\ start = 0 /\ chunks = <<>> /\ over = TRUE
    /\ IF part = "context" THEN Context!Init
       ELSE /\ sources = <<>> /\ ceiling = NoCeiling /\ summarises = FALSE /\ keep = 1
            /\ emitted = <<>> /\ place = 1 /\ dropped = {} /\ cpc = "check"
            /\ prompt = <<>> /\ before = 0
    /\ IF part = "search" THEN Search!Init
       ELSE /\ store = <<>> /\ dependsOn = <<>> /\ k = 0 /\ expand = FALSE
            /\ qpc = "done" /\ base = <<>> /\ counted = {} /\ hits = <<>>
    /\ Generator!Init /\ (part # "generator" => parentInit /\ bandit)

Next ==
    /\ UNCHANGED part
    /\ \/ /\ part = "memory" /\ Memory!Next
          /\ UNCHANGED <<session, skill, model, library, text, context, generator, search>>
       \/ /\ part = "session" /\ Session!Next
          /\ UNCHANGED <<memory, skill, model, library, text, context, generator, search>>
       \/ /\ part = "skill" /\ Skill!Next
          /\ UNCHANGED <<memory, session, model, library, text, context, generator, search>>
       \/ /\ part = "model" /\ Model!Next
          /\ UNCHANGED <<memory, session, skill, library, text, context, generator, search>>
       \/ /\ part = "library" /\ Library!Next
          /\ UNCHANGED <<memory, session, skill, model, text, context, generator, search>>
       \/ /\ part = "text" /\ Chunks!Next
          /\ UNCHANGED <<memory, session, skill, model, library, context, generator, search>>
       \/ /\ part = "context" /\ Context!Next
          /\ UNCHANGED <<memory, session, skill, model, library, text, generator, search>>
       \/ /\ part = "generator" /\ Generator!Next
          /\ UNCHANGED <<memory, session, skill, model, library, text, context, search>>
       \/ /\ part = "search" /\ Search!Next
          /\ UNCHANGED <<memory, session, skill, model, library, text, context, generator>>

parts == <<part, memory, session, skill, model, library, text, context, generator, search>>

Spec == Init /\ [][Next]_parts

\* The types of the parts' variables.
TypeOK ==
    /\ Memory!TypeOK /\ Session!TypeOK /\ Skill!TypeOK /\ Model!TypeOK
    /\ Library!TypeOK /\ Chunks!TypeOK /\ Context!TypeOK /\ Generator!TypeOK
    /\ Search!TypeOK

\* Every change of the memory leaves its audit row (MemoryStore).
AuditedWrites == Memory!AuditedWrites
\* What a run saves is screened, and runs that do not disturb each other are all
\* listed (SessionStore).
RunsKept == Session!RunsKept
\* A promoted skill is screened and carries a reviewer's capability
\* (DistilledSkill).
PromotedIsReviewed == Skill!PromotedIsReviewed
\* A draft is removed by a rejection or a whole promotion (DistilledSkill).
ApprovedNotLost == [][Skill!DraftKept]_parts
\* A patch changes the fields it supplies and no others (MemoryStore).
OnlySuppliedFieldsChange == [][Memory!StaysDeprecated]_parts
\* One provider's voice in an answer, and none behind a refusal (Completion).
OneVoice == Model!OneVoice
\* The report of an ingest says what is on disk and in the store (Knowledge).
ReportIsTrue == Library!ReportIsTrue
\* The chunks cover the text, and none is part of the one before it (Chunking).
ChunksCover == Chunks!ChunksCover
\* Best hits first, and one chunk of every document they depend on (Retrieval).
HitsRight == Search!HitsRight
\* What a prompt over its ceiling gives up, and what never (ContextCompiler).
PromptKeeps == Context!PromptKeeps
\* What a model wrote stays only if it passed the gate (Scaffold).
OnlyGatedStays == Generator!OnlyGatedStays
=============================================================================
