----------------------------- MODULE Knowledge ------------------------------
(***************************************************************************)
(* The draft layer of the knowledge tree and the persistent vector store   *)
(* behind it: `lottie knowledge ingest` (knowledge/ingest.py) screens,     *)
(* writes, embeds and stores one source after the other and reports on     *)
(* each; an agent that is built indexes the whole tree (knowledge/index.py)*)
(* and `lottie knowledge clear` unlinks it, each in a process of its own;  *)
(* humans edit the files.  A document is one chunk here (see Chunking).    *)
(***************************************************************************)
EXTENDS Naturals, Sequences, FiniteSets

CONSTANTS
    Stems, Nothing,
    MaxSources, MaxIngests, MaxEdits, MaxBuilds, MaxClears   \* bounds

\* What can be read at a source: nothing ("missing": no file, or a URL), blank
\* text, one that a gate flags, or text that goes in.
Contents == {"fine", "missing", "blank", "injection", "secret"}
Texts    == {"fine", "edited", "injection"}      \* of a draft and its chunk
Sources  == [stem : Stems, content : Contents]

\* make_draft_id is a function of the file's stem and the content's hash.
Ids == Sources
DraftId(source) == source

Injected(content) == content = "injection"
HasSecret(content) == content = "secret"

VARIABLES
    tree,       \* knowledge/draft: the body of <id>.md
    index,      \* the chunk stored under an id
    given, at, ipc,            \* ingest: its sources, the one it is at, its step
    documents, flagged, errors,    \* ... and its report, positions of sources
    unindexed,  \* of an agent's construction: what the manifest still holds
    doomed,     \* of a clear: the files still to unlink
    ingests, edits, builds, clears

ingestVars    == <<given, at, ipc, documents, flagged, errors, ingests>>
knowledgeVars == <<tree, index, ingestVars, unindexed, doomed, edits, builds, clears>>

TypeOK ==
    /\ tree \in [Ids -> Texts \cup {Nothing}] /\ index \in [Ids -> Texts \cup {Nothing}]
    /\ given \in Seq(Sources) /\ at \in 1 .. MaxSources + 1
    /\ ipc \in {"idle", "load", "gate", "draft", "store"}
    /\ {documents, flagged, errors} \subseteq Seq(DOMAIN given)
    /\ \A d \in unindexed : d.id \in Ids /\ d.text \in Texts
    /\ doomed \subseteq Ids

Init ==
    /\ tree = [id \in Ids |-> Nothing] /\ index = [id \in Ids |-> Nothing]
    /\ given = <<>> /\ at = 1 /\ ipc = "idle"
    /\ documents = <<>> /\ flagged = <<>> /\ errors = <<>>
    /\ unindexed = {} /\ doomed = {}
    /\ ingests = 0 /\ edits = 0 /\ builds = 0 /\ clears = 0

-----------------------------------------------------------------------------
(* lottie knowledge ingest *)

Ingest ==
    /\ ipc = "idle" /\ ingests < MaxIngests /\ ingests' = ingests + 1
    /\ given' \in UNION {[1 .. n -> Sources] : n \in 1 .. MaxSources}
    /\ at' = 1 /\ ipc' = "load" /\ documents' = <<>> /\ flagged' = <<>> /\ errors' = <<>>
    /\ UNCHANGED <<tree, index, unindexed, doomed, edits, builds, clears>>

Source   == given[at]
NextSource == at' = at + 1 /\ ipc' = IF at = Len(given) THEN "idle" ELSE "load"
Elsewhere  == UNCHANGED <<given, ingests, unindexed, doomed, edits, builds, clears>>

\* load_source, and the skip of an empty text.
Load ==
    /\ ipc = "load"
    /\ IF Source.content \in {"missing", "blank"}
       THEN errors' = Append(errors, at) /\ NextSource
       ELSE ipc' = "gate" /\ UNCHANGED <<at, errors>>
    /\ UNCHANGED <<tree, index, documents, flagged>> /\ Elsewhere

\* Both gates, before anything is written.
Gate ==
    /\ ipc = "gate"
    /\ IF Injected(Source.content) \/ HasSecret(Source.content)
       THEN flagged' = Append(flagged, at) /\ NextSource
       ELSE ipc' = "draft" /\ UNCHANGED <<at, flagged>>
    /\ UNCHANGED <<tree, index, documents, errors>> /\ Elsewhere

\* _write_draft; the file of an earlier ingest is written over.
WriteDraft ==
    /\ ipc = "draft" /\ ipc' = "store"
    /\ tree' = [tree EXCEPT ![DraftId(Source)] = Source.content]
    /\ UNCHANGED <<index, at, documents, flagged, errors>> /\ Elsewhere

\* ChromaVectorStore.add keeps the first chunk of an id.
Stored(id, text) == [index EXCEPT ![id] = IF @ = Nothing THEN text ELSE @]

\* Chunk, embed, store.  The document is in the report after that.
StoreReportedFirst ==
    /\ ipc = "store"
    /\ IF Len(documents) = 0 \/ documents[Len(documents)] # at
       THEN documents' = Append(documents, at) /\ UNCHANGED <<index, at, ipc>>
       ELSE /\ index' = Stored(DraftId(Source), Source.content)
            /\ NextSource /\ UNCHANGED documents
    /\ UNCHANGED <<tree, flagged, errors>> /\ Elsewhere
Store ==
    /\ ipc = "store"
    /\ index' = Stored(DraftId(Source), Source.content)
    /\ documents' = Append(documents, at) /\ NextSource
    /\ UNCHANGED <<tree, flagged, errors>> /\ Elsewhere

\* Anything raises on the way (a gate's scanner, the disk, the embedder, the
\* store): an error of this source, and the next one's turn.
Fail ==
    /\ ipc \in {"gate", "draft", "store"}
    /\ errors' = Append(errors, at) /\ NextSource
    /\ UNCHANGED <<tree, index, documents, flagged>> /\ Elsewhere

-----------------------------------------------------------------------------
(* The others *)

\* An agent is built: KnowledgeManifest.from_root reads the tree ...
Build ==
    /\ unindexed = {} /\ builds < MaxBuilds /\ builds' = builds + 1
    /\ unindexed' = {[id |-> id, text |-> tree[id]] : id \in {i \in Ids : tree[i] # Nothing}}
    /\ UNCHANGED <<tree, index, ingestVars, doomed, edits, clears>>
\* ... and index_manifest stores each document, without a gate;
IndexOne == \E d \in unindexed :
    /\ index' = Stored(d.id, d.text) /\ unindexed' = unindexed \ {d}
    /\ UNCHANGED <<tree, ingestVars, doomed, edits, builds, clears>>
\* an embedder that fails ends the construction.
IndexFails ==
    /\ unindexed # {} /\ unindexed' = {}
    /\ UNCHANGED <<tree, index, ingestVars, doomed, edits, builds, clears>>

\* lottie knowledge clear: the listing, then file by file.  One that is gone by
\* then ends the command.  The store keeps its chunks.
Clear ==
    /\ doomed = {} /\ clears < MaxClears /\ clears' = clears + 1
    /\ doomed' = {id \in Ids : tree[id] # Nothing}
    /\ UNCHANGED <<tree, index, ingestVars, unindexed, edits, builds>>
Unlink == \E id \in doomed :
    /\ doomed' = IF tree[id] = Nothing THEN {} ELSE doomed \ {id}
    /\ tree' = [tree EXCEPT ![id] = Nothing]
    /\ UNCHANGED <<index, ingestVars, unindexed, edits, builds, clears>>

\* Somebody edits a draft, or moves it out of the layer.
Edit == \E id \in Ids :
    /\ tree[id] # Nothing /\ edits < MaxEdits /\ edits' = edits + 1
    /\ \E text \in {"edited", "injection", Nothing} : tree' = [tree EXCEPT ![id] = text]
    /\ UNCHANGED <<index, ingestVars, unindexed, doomed, builds, clears>>

Next ==
    \/ Ingest \/ Load \/ Gate \/ WriteDraft \/ Store \/ Fail
    \/ Build \/ IndexOne \/ IndexFails \/ Clear \/ Unlink \/ Edit

Spec == Init /\ [][Next]_knowledgeVars

-----------------------------------------------------------------------------
(* Properties *)

\* What the ingest prints is so, whatever fails and whoever moves beside it: every
\* source it is done with is in one list of the report, once; an ingested one can be
\* found in the store; of a flagged or unreadable one nothing is on disk or in the
\* store, where a later build would serve it to a prompt (knowledge/ingest.py,
\* _execute and the fields of DocumentIngestOutput).
ReportIsTrue ==
    LET entries == documents \o flagged \o errors IN
    /\ \A i \in 1 .. at - 1 : Cardinality({k \in DOMAIN entries : entries[k] = i}) = 1
    /\ \A i \in DOMAIN documents : index[DraftId(given[documents[i]])] # Nothing
    /\ \A i \in 1 .. at - 1 : given[i].content # "fine" =>
          tree[DraftId(given[i])] = Nothing /\ index[DraftId(given[i])] = Nothing
=============================================================================
