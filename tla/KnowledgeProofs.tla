--------------------------- MODULE KnowledgeProofs ---------------------------
(***************************************************************************)
(* The theorems of the knowledge base for the composition that TLC checks: *)
(* the report of an ingest (Library), the chunks of a text (Chunks) and    *)
(* the hits of a query (Search).  A step of MCParts is a step of one part  *)
(* and leaves the others alone, so that an invariant of a part is one of   *)
(* the whole.                                                              *)
(***************************************************************************)
EXTENDS MCParts, ListLemmas

\* A part has an instance of FiniteSets of its own.
LEMMA SameCardinality == \A S : /\ Session!Cardinality(S) = Cardinality(S)
                                /\ Library!Cardinality(S) = Cardinality(S)
                                /\ Search!Cardinality(S) = Cardinality(S)
BY DEF Session!Cardinality, Library!Cardinality, Search!Cardinality, Cardinality

-----------------------------------------------------------------------------
(* lottie knowledge ingest *)

\* The places of an entry in a list of the report.
Places(list, i) == {j \in DOMAIN list : list[j] = i}
Sole(list, i) == \E j : Places(list, i) = {j}
Only(list, one, other, i) == Sole(list, i) /\ Places(one, i) = {} /\ Places(other, i) = {}

\* A report on n sources: each is in one of the three lists, once.
Tally(docs, flags, errs, n) ==
    /\ {docs, flags, errs} \subseteq Seq(1 .. n)
    /\ \A i \in 1 .. n : \/ Only(docs, flags, errs, i)
                         \/ Only(flags, docs, errs, i)
                         \/ Only(errs, docs, flags, i)

LEMMA TallySymmetric ==
    ASSUME NEW docs, NEW flags, NEW errs, NEW n, Tally(docs, flags, errs, n)
    PROVE  Tally(flags, docs, errs, n) /\ Tally(errs, docs, flags, n)
BY DEF Tally, Only

LEMMA TallyOneMore ==
    ASSUME NEW n \in Nat, NEW docs, NEW flags, NEW errs, Tally(docs, flags, errs, n)
    PROVE  Tally(Append(docs, n + 1), flags, errs, n + 1)
<1> DEFINE more == Append(docs, n + 1)
<1>1. docs \in Seq(1 .. n) /\ flags \in Seq(1 .. n) /\ errs \in Seq(1 .. n)
  BY DEF Tally
<1>2. docs \in Seq(1 .. n + 1) /\ flags \in Seq(1 .. n + 1) /\ errs \in Seq(1 .. n + 1)
  <2>1. 1 .. n \subseteq 1 .. n + 1
    OBVIOUS
  <2>. QED BY <1>1, <2>1, SeqMonotonic
<1>3. /\ more \in Seq(1 .. n + 1) /\ Len(more) = Len(docs) + 1
      /\ \A j \in 1 .. Len(docs) : more[j] = docs[j]
      /\ more[Len(docs) + 1] = n + 1
  BY <1>2, AppendProperties
<1>4. DOMAIN more = 1 .. Len(docs) + 1 /\ DOMAIN docs = 1 .. Len(docs) /\ Len(docs) \in Nat
  BY <1>1, <1>3, LenProperties
<1>. HIDE DEF more
<1>5. \A list : list \in Seq(1 .. n) => \A j \in DOMAIN list : list[j] \in 1 .. n
  OBVIOUS
<1>6. \A list : list \in Seq(1 .. n) => Places(list, n + 1) = {}
  BY <1>5 DEF Places
<1>7. Places(more, n + 1) = {Len(docs) + 1}
  <2>1. ASSUME NEW j \in 1 .. Len(docs) PROVE more[j] # n + 1
    BY <1>1, <1>3, <1>4, <1>5
  <2>2. \A j \in 1 .. Len(docs) + 1 : j \in 1 .. Len(docs) \/ j = Len(docs) + 1
    BY <1>4
  <2>3. Len(docs) + 1 \in 1 .. Len(docs) + 1
    BY <1>4
  <2>. QED BY <1>3, <1>4, <2>1, <2>2, <2>3 DEF Places
<1>8. ASSUME NEW i \in 1 .. n PROVE Places(more, i) = Places(docs, i)
  BY <1>3, <1>4 DEF Places
<1>9. ASSUME NEW i \in 1 .. n + 1
      PROVE  \/ Only(more, flags, errs, i) \/ Only(flags, more, errs, i)
             \/ Only(errs, more, flags, i)
  <2>1. CASE i = n + 1
    BY <1>1, <1>6, <1>7, <2>1 DEF Only, Sole
  <2>2. CASE i \in 1 .. n
    BY <1>8, <2>2 DEF Tally, Only, Sole
  <2>. QED BY <2>1, <2>2
<1>. QED BY <1>2, <1>3, <1>9 DEF Tally, more

LEMMA PlacesConcat ==
    ASSUME NEW S, NEW one \in Seq(S), NEW two \in Seq(S), NEW i
    PROVE  Places(one \o two, i) = Places(one, i) \cup {Len(one) + j : j \in Places(two, i)}
<1> DEFINE both == one \o two
           m == Len(one)
           n == Len(two)
<1>1. m \in Nat /\ n \in Nat /\ DOMAIN one = 1 .. m /\ DOMAIN two = 1 .. n
  BY LenProperties
<1>2. /\ both \in Seq(S) /\ Len(both) = m + n
      /\ \A j \in 1 .. m + n : both[j] = IF j <= m THEN one[j] ELSE two[j - m]
  BY ConcatProperties
<1>3. DOMAIN both = 1 .. m + n
  BY <1>2, LenProperties
<1>. HIDE DEF both, m, n
<1>4. \A j \in 1 .. m : j \in 1 .. m + n /\ both[j] = one[j]
  BY <1>1, <1>2
<1>5. ASSUME NEW j \in 1 .. n PROVE m + j \in 1 .. m + n /\ both[m + j] = two[j]
  <2>1. m + j \in 1 .. m + n /\ ~(m + j <= m) /\ (m + j) - m = j
    BY <1>1
  <2>. QED BY <1>2, <2>1
<1>6. \A j \in 1 .. m + n : j \in 1 .. m \/ \E w \in 1 .. n : j = m + w
  <2>. SUFFICES ASSUME NEW j \in 1 .. m + n, j \notin 1 .. m
                PROVE  j - m \in 1 .. n /\ j = m + (j - m)
    OBVIOUS
  <2>. QED BY <1>1
<1>7. Places(both, i) \subseteq Places(one, i) \cup {m + j : j \in Places(two, i)}
  <2>. SUFFICES ASSUME NEW j \in 1 .. m + n, both[j] = i
                PROVE  j \in Places(one, i) \/ \E w \in Places(two, i) : j = m + w
    BY <1>3 DEF Places
  <2>1. CASE j \in 1 .. m
    BY <1>1, <1>4, <2>1 DEF Places
  <2>2. ASSUME NEW w \in 1 .. n, j = m + w PROVE w \in Places(two, i)
    BY <1>1, <1>5, <2>2 DEF Places
  <2>. QED BY <1>6, <2>1, <2>2
<1>8. Places(one, i) \cup {m + j : j \in Places(two, i)} \subseteq Places(both, i)
  BY <1>1, <1>3, <1>4, <1>5 DEF Places
<1>. QED BY <1>7, <1>8 DEF both, m

LEMMA TallyOnce ==
    ASSUME NEW n \in Nat, NEW docs, NEW flags, NEW errs, Tally(docs, flags, errs, n),
           NEW i \in 1 .. n
    PROVE  Cardinality(Places(docs \o flags \o errs, i)) = 1
<1> DEFINE d == Len(docs)
           f == Len(docs \o flags)
<1>1. docs \in Seq(1 .. n) /\ flags \in Seq(1 .. n) /\ errs \in Seq(1 .. n)
  BY DEF Tally
<1>2. docs \o flags \in Seq(1 .. n)
  BY <1>1, ConcatProperties
<1>3. Places(docs \o flags, i) = Places(docs, i) \cup {d + j : j \in Places(flags, i)}
  BY <1>1, PlacesConcat
<1>4. Places(docs \o flags \o errs, i) =
          Places(docs \o flags, i) \cup {f + j : j \in Places(errs, i)}
  <2> DEFINE both == docs \o flags
  <2>1. both \in Seq(1 .. n)
    BY <1>2
  <2>. HIDE DEF both
  <2>2. Places(both \o errs, i) = Places(both, i) \cup {Len(both) + j : j \in Places(errs, i)}
    BY <1>1, <2>1, PlacesConcat
  <2>. QED BY <2>2 DEF both
<1>. HIDE DEF d, f
<1>5. ASSUME Only(docs, flags, errs, i)
      PROVE  \E j : Places(docs \o flags \o errs, i) = {j}
  BY <1>3, <1>4, <1>5 DEF Only, Sole
<1>6. ASSUME Only(flags, docs, errs, i)
      PROVE  \E j : Places(docs \o flags \o errs, i) = {j}
  <2>1. PICK j : Places(flags, i) = {j}
    BY <1>6 DEF Only, Sole
  <2>2. Places(docs \o flags \o errs, i) = {d + j}
    BY <1>3, <1>4, <1>6, <2>1 DEF Only
  <2>. QED BY <2>2
<1>7. ASSUME Only(errs, docs, flags, i)
      PROVE  \E j : Places(docs \o flags \o errs, i) = {j}
  <2>1. PICK j : Places(errs, i) = {j}
    BY <1>7 DEF Only, Sole
  <2>2. Places(docs \o flags \o errs, i) = {f + j}
    BY <1>3, <1>4, <1>7, <2>1 DEF Only
  <2>. QED BY <2>2
<1>. QED BY <1>5, <1>6, <1>7, FS_Singleton DEF Tally

LibraryShapes ==
    /\ tree \in [Library!Ids -> Library!Texts \cup {Nothing}]
    /\ index \in [Library!Ids -> Library!Texts \cup {Nothing}]
    /\ given \in Seq(Library!Sources)
    /\ at \in 1 .. Len(given) + 1
    /\ ipc # "idle" => at \in 1 .. Len(given)

\* What did not pass the gates is nowhere, and no build will find it.
OnlyFine ==
    /\ \A id \in Library!Ids : id.content # "fine" => tree[id] = Nothing /\ index[id] = Nothing
    /\ \A d \in unindexed : /\ d.id \in Library!Ids /\ d.id.content = "fine"
                            /\ d.text \in Library!Texts
    /\ ipc = "gate" => given[at].content \notin {"missing", "blank"}
    /\ ipc \in {"draft", "store"} => given[at].content = "fine"
Found == \A i \in DOMAIN documents : index[given[documents[i]]] # Nothing

LibraryInv == LibraryShapes /\ OnlyFine /\ Found /\ Tally(documents, flagged, errors, at - 1)

\* A stored chunk stays.
LEMMA ChunksStay ==
    ASSUME LibraryShapes, NEW id \in Library!Ids, NEW t \in Library!Texts,
           index' = Library!Stored(id, t)
    PROVE  /\ index' \in [Library!Ids -> Library!Texts \cup {Nothing}]
           /\ index'[id] # Nothing
           /\ \A j \in Library!Ids : index[j] # Nothing => index'[j] # Nothing
           /\ \A j \in Library!Ids \ {id} : index'[j] = index[j]
BY FileAssumption DEF LibraryShapes, Library!Stored

\* The next source's turn.
LEMMA NextTurn ==
    ASSUME LibraryShapes, ipc # "idle", Library!NextSource, given' = given
    PROVE  /\ at' = at + 1 /\ at' - 1 = at /\ at - 1 \in Nat /\ ipc' \in {"idle", "load"}
           /\ at' \in 1 .. Len(given') + 1
           /\ ipc' # "idle" => at' \in 1 .. Len(given')
BY DEF LibraryShapes, Library!NextSource

LEMMA LibraryInit == Init => LibraryInv
<1>. SUFFICES ASSUME Init PROVE LibraryInv
  OBVIOUS
<1>1. Library!Init
  BY DEF Init
<1>2. Tally(<<>>, <<>>, <<>>, 0)
  BY EmptySeq DEF Tally
<1>3. <<>> \in Seq(Library!Sources) /\ Len(<<>>) = 0 /\ DOMAIN <<>> = {}
  BY EmptySeq
<1>. QED BY <1>1, <1>2, <1>3
         DEF Library!Init, LibraryInv, LibraryShapes, OnlyFine, Found

LEMMA IngestStep == ASSUME LibraryInv, Library!Ingest PROVE LibraryInv'
<1>1. /\ tree' = tree /\ index' = index /\ unindexed' = unindexed
      /\ at' = 1 /\ ipc' = "load" /\ documents' = <<>> /\ flagged' = <<>> /\ errors' = <<>>
  BY DEF Library!Ingest
<1>2. PICK n \in 1 .. MaxSources : given' \in [1 .. n -> Library!Sources]
  BY DEF Library!Ingest
<1>3. given' \in Seq(Library!Sources) /\ Len(given') \in Nat /\ Len(given') >= 1
  <2>1. n \in Nat /\ n >= 1
    BY <1>2
  <2>2. given' \in Seq(Library!Sources)
    BY <1>2, <2>1, SeqDef
  <2>3. DOMAIN given' = 1 .. n /\ DOMAIN given' = 1 .. Len(given') /\ Len(given') \in Nat
    BY <1>2, <2>2, LenProperties
  <2>. QED BY <2>1, <2>2, <2>3
<1>4. Tally(<<>>, <<>>, <<>>, 0)
  BY EmptySeq DEF Tally
<1>5. DOMAIN <<>> = {}
  BY EmptySeq
<1>6. LibraryShapes'
  BY <1>1, <1>3 DEF LibraryInv, LibraryShapes
<1>7. OnlyFine' /\ Found'
  BY <1>1, <1>5 DEF LibraryInv, OnlyFine, Found
<1>8. at' - 1 = 0
  BY <1>1
<1>9. Tally(documents', flagged', errors', at' - 1)
  BY <1>1, <1>4, <1>8
<1>. QED BY <1>6, <1>7, <1>9 DEF LibraryInv, Tally, Only, Sole, Places

\* A source that is not ingested is reported in one of the other two lists.
LEMMA ReportStep ==
    ASSUME LibraryInv, ipc # "idle", Library!NextSource,
           UNCHANGED <<tree, index, given, documents, unindexed>>,
           \/ errors' = Append(errors, at) /\ flagged' = flagged
           \/ flagged' = Append(flagged, at) /\ errors' = errors
    PROVE  LibraryInv'
<1>1. /\ at' = at + 1 /\ at' - 1 = at /\ at - 1 \in Nat /\ ipc' \in {"idle", "load"}
      /\ at' \in 1 .. Len(given') + 1
      /\ ipc' # "idle" => at' \in 1 .. Len(given')
  BY NextTurn DEF LibraryInv
<1>2. LibraryShapes' /\ OnlyFine' /\ Found'
  BY <1>1 DEF LibraryInv, LibraryShapes, OnlyFine, Found
<1>3. Tally(documents, flagged, errors, at - 1) /\ (at - 1) + 1 = at
  BY <1>1 DEF LibraryInv
<1>4. Tally(documents, Append(flagged, at), errors, at)
  BY <1>1, <1>3, TallySymmetric, TallyOneMore
<1>5. Tally(documents, flagged, Append(errors, at), at)
  <2>1. Tally(errors, documents, flagged, at - 1)
    BY <1>3, TallySymmetric
  <2>2. Tally(Append(errors, at), documents, flagged, at)
    BY <1>1, <1>3, <2>1, TallyOneMore
  <2>. QED BY <2>2 DEF Tally, Only
<1>6. Tally(documents', flagged', errors', at' - 1)
  BY <1>1, <1>4, <1>5
<1>. QED BY <1>2, <1>6 DEF LibraryInv, Tally, Only, Sole, Places

LEMMA StoreStep == ASSUME LibraryInv, Library!Store PROVE LibraryInv'
<1>1. /\ ipc = "store" /\ Library!NextSource
      /\ documents' = Append(documents, at) /\ flagged' = flagged /\ errors' = errors
      /\ tree' = tree /\ given' = given /\ unindexed' = unindexed
      /\ index' = Library!Stored(given[at], given[at].content)
  BY DEF Library!Store, Library!Elsewhere, Library!DraftId, Library!Source
<1>2. /\ at' = at + 1 /\ at' - 1 = at /\ at - 1 \in Nat /\ ipc' \in {"idle", "load"}
      /\ at' \in 1 .. Len(given') + 1
      /\ ipc' # "idle" => at' \in 1 .. Len(given')
  BY <1>1, NextTurn DEF LibraryInv
<1>3. /\ given[at] \in Library!Ids /\ given[at].content = "fine"
      /\ given[at].content \in Library!Texts
  BY <1>1 DEF LibraryInv, LibraryShapes, OnlyFine, Library!Ids, Library!Texts
<1>4. /\ index' \in [Library!Ids -> Library!Texts \cup {Nothing}]
      /\ index'[given[at]] # Nothing
      /\ \A j \in Library!Ids : index[j] # Nothing => index'[j] # Nothing
      /\ \A j \in Library!Ids \ {given[at]} : index'[j] = index[j]
  BY <1>1, <1>3, ChunksStay DEF LibraryInv
<1>5. LibraryShapes' /\ OnlyFine'
  BY <1>1, <1>2, <1>3, <1>4 DEF LibraryInv, LibraryShapes, OnlyFine
<1>6. documents \in Seq(1 .. at - 1) /\ Tally(documents, flagged, errors, at - 1)
  BY DEF LibraryInv, Tally
<1>7. Found'
  <2>1. documents \in Seq(1 .. at) /\ DOMAIN documents = 1 .. Len(documents)
    <3>1. 1 .. at - 1 \subseteq 1 .. at
      BY <1>2
    <3>. QED BY <1>6, <3>1, SeqMonotonic, LenProperties
  <2>2. at \in 1 .. at /\ Len(documents) \in Nat
    BY <1>2, <2>1, LenProperties
  <2>3. /\ documents' \in Seq(1 .. at) /\ DOMAIN documents' = 1 .. Len(documents) + 1
        /\ \A i \in 1 .. Len(documents) : documents'[i] = documents[i]
        /\ documents'[Len(documents) + 1] = at
    BY <1>1, <2>1, <2>2, AppendProperties, LenProperties
  <2>4. ASSUME NEW i \in 1 .. Len(documents) PROVE index'[given[documents[i]]] # Nothing
    <3>1. documents[i] \in 1 .. at - 1 /\ documents[i] \in 1 .. Len(given)
      BY <1>1, <1>2, <1>6, <2>1, <2>4 DEF LibraryInv, LibraryShapes
    <3>2. given[documents[i]] \in Library!Ids
      BY <3>1 DEF LibraryInv, LibraryShapes, Library!Ids
    <3>. QED BY <1>4, <2>1, <2>4, <3>2 DEF LibraryInv, Found
  <2>5. \A i \in 1 .. Len(documents) + 1 : i \in 1 .. Len(documents) \/ i = Len(documents) + 1
    BY <2>2
  <2>. QED BY <1>1, <1>4, <2>3, <2>4, <2>5 DEF Found
<1>8. (at - 1) + 1 = at
  BY <1>2
<1>9. Tally(documents', flagged', errors', at' - 1)
  BY <1>1, <1>2, <1>6, <1>8, TallyOneMore
<1>. QED BY <1>5, <1>7, <1>9 DEF LibraryInv, Tally, Only, Sole, Places

\* The steps that leave the report alone.
LEMMA RestStep ==
    ASSUME LibraryInv, UNCHANGED <<given, at, documents, flagged, errors>>,
           LibraryShapes', OnlyFine',
           \A id \in Library!Ids : index[id] # Nothing => index'[id] # Nothing
    PROVE  LibraryInv'
<1>1. Tally(documents', flagged', errors', at' - 1)
  BY DEF LibraryInv
<1>2. Found'
  <2>. SUFFICES ASSUME NEW i \in DOMAIN documents
                PROVE  index'[given[documents[i]]] # Nothing
    BY DEF Found
  <2>1. documents \in Seq(1 .. at - 1) /\ at - 1 <= Len(given) /\ at \in Nat /\ Len(given) \in Nat
    BY DEF LibraryInv, LibraryShapes, Tally
  <2>2. documents[i] \in 1 .. at - 1
    BY <2>1
  <2>3. documents[i] \in 1 .. Len(given)
    BY <2>1, <2>2
  <2>4. given[documents[i]] \in Library!Ids
    BY <2>3 DEF LibraryInv, LibraryShapes, Library!Ids
  <2>. QED BY <2>4 DEF LibraryInv, Found
<1>. QED BY <1>1, <1>2 DEF LibraryInv, Tally, Only, Sole, Places

LEMMA LibraryStep == LibraryInv /\ [Next]_parts => LibraryInv'
<1> SUFFICES ASSUME LibraryInv, [Next]_parts PROVE LibraryInv'
  OBVIOUS
<1>1. CASE Library!Load
  <2>1. /\ ipc = "load" /\ tree' = tree /\ index' = index /\ given' = given
        /\ documents' = documents /\ flagged' = flagged /\ unindexed' = unindexed
    BY <1>1 DEF Library!Load, Library!Elsewhere
  <2>2. CASE Library!Source.content \in {"missing", "blank"}
    <3>1. errors' = Append(errors, at) /\ Library!NextSource
      BY <1>1, <2>2 DEF Library!Load
    <3>. QED BY <2>1, <3>1, ReportStep
  <2>3. CASE Library!Source.content \notin {"missing", "blank"}
    <3>1. ipc' = "gate" /\ at' = at /\ errors' = errors
      BY <1>1, <2>3 DEF Library!Load
    <3>2. LibraryShapes' /\ OnlyFine'
      BY <2>1, <2>3, <3>1 DEF LibraryInv, LibraryShapes, OnlyFine, Library!Source
    <3>. QED BY <2>1, <3>1, <3>2, RestStep
  <2>. QED BY <2>2, <2>3
<1>2. CASE Library!Gate
  <2>1. /\ ipc = "gate" /\ tree' = tree /\ index' = index /\ given' = given
        /\ documents' = documents /\ errors' = errors /\ unindexed' = unindexed
    BY <1>2 DEF Library!Gate, Library!Elsewhere
  <2> DEFINE stopped == Library!Injected(Library!Source.content)
                           \/ Library!HasSecret(Library!Source.content)
  <2>2. CASE stopped
    <3>1. flagged' = Append(flagged, at) /\ Library!NextSource
      BY <1>2, <2>2 DEF Library!Gate
    <3>. QED BY <2>1, <3>1, ReportStep
  <2>3. CASE ~stopped
    <3>1. ipc' = "draft" /\ at' = at /\ flagged' = flagged
      BY <1>2, <2>3 DEF Library!Gate
    <3>2. given[at].content \in {"fine", "missing", "blank", "injection", "secret"}
      <4>1. given[at] \in Library!Sources
        BY <2>1 DEF LibraryInv, LibraryShapes
      <4>. QED BY <4>1 DEF Library!Sources, Library!Contents
    <3>3. given[at].content = "fine"
      BY <2>1, <2>3, <3>2 DEF LibraryInv, OnlyFine, Library!Source, Library!Injected,
                              Library!HasSecret
    <3>4. LibraryShapes' /\ OnlyFine'
      BY <2>1, <3>1, <3>3 DEF LibraryInv, LibraryShapes, OnlyFine
    <3>. QED BY <2>1, <3>1, <3>4, RestStep
  <2>. QED BY <2>2, <2>3
<1>3. CASE Library!WriteDraft
  <2>1. /\ ipc = "draft" /\ ipc' = "store" /\ index' = index /\ given' = given /\ at' = at
        /\ documents' = documents /\ flagged' = flagged /\ errors' = errors
        /\ unindexed' = unindexed
        /\ tree' = [tree EXCEPT ![given[at]] = given[at].content]
    BY <1>3 DEF Library!WriteDraft, Library!Elsewhere, Library!DraftId, Library!Source
  <2>2. /\ given[at] \in Library!Ids /\ given[at].content = "fine"
        /\ given[at].content \in Library!Texts
    BY <2>1 DEF LibraryInv, LibraryShapes, OnlyFine, Library!Ids, Library!Texts
  <2>3. LibraryShapes' /\ OnlyFine'
    BY <2>1, <2>2 DEF LibraryInv, LibraryShapes, OnlyFine
  <2>. QED BY <2>1, <2>3, RestStep
<1>4. CASE Library!Fail
  <2>1. ipc # "idle" /\ Library!NextSource /\ errors' = Append(errors, at)
        /\ UNCHANGED <<tree, index, given, documents, unindexed>> /\ flagged' = flagged
    BY <1>4 DEF Library!Fail, Library!Elsewhere
  <2>. QED BY <2>1, ReportStep
<1>5. CASE Library!Build \/ Library!IndexFails \/ Library!Clear
  <2>1. /\ tree' = tree /\ index' = index /\ given' = given /\ at' = at /\ ipc' = ipc
        /\ documents' = documents /\ flagged' = flagged /\ errors' = errors
    BY <1>5 DEF Library!Build, Library!IndexFails, Library!Clear, Library!ingestVars
  <2>2. \/ unindexed' \in {unindexed, {}}
        \/ unindexed' = {[id |-> id, text |-> tree[id]] :
                            id \in {i \in Library!Ids : tree[i] # Nothing}}
    BY <1>5 DEF Library!Build, Library!IndexFails, Library!Clear
  <2>3. \A d \in unindexed' : /\ d.id \in Library!Ids /\ d.id.content = "fine"
                             /\ d.text \in Library!Texts
    BY <2>2 DEF LibraryInv, LibraryShapes, OnlyFine
  <2>4. LibraryShapes' /\ OnlyFine'
    BY <2>1, <2>3 DEF LibraryInv, LibraryShapes, OnlyFine
  <2>. QED BY <2>1, <2>4, RestStep
<1>6. CASE Library!IndexOne
  <2>1. PICK d \in unindexed :
           index' = Library!Stored(d.id, d.text) /\ unindexed' = unindexed \ {d}
    BY <1>6 DEF Library!IndexOne
  <2>2. /\ tree' = tree /\ given' = given /\ at' = at /\ ipc' = ipc
        /\ documents' = documents /\ flagged' = flagged /\ errors' = errors
    BY <1>6 DEF Library!IndexOne, Library!ingestVars
  <2>3. d.id \in Library!Ids /\ d.id.content = "fine" /\ d.text \in Library!Texts
    BY DEF LibraryInv, OnlyFine
  <2>4. /\ index' \in [Library!Ids -> Library!Texts \cup {Nothing}]
        /\ \A j \in Library!Ids : index[j] # Nothing => index'[j] # Nothing
        /\ \A j \in Library!Ids \ {d.id} : index'[j] = index[j]
    BY <2>1, <2>3, ChunksStay DEF LibraryInv
  <2>5. LibraryShapes' /\ OnlyFine'
    BY <2>1, <2>2, <2>3, <2>4 DEF LibraryInv, LibraryShapes, OnlyFine
  <2>. QED BY <2>2, <2>4, <2>5, RestStep
<1>7. CASE Library!Unlink \/ Library!Edit
  <2>1. \E id : \E t \in Library!Texts \cup {Nothing} :
           tree' = [tree EXCEPT ![id] = t] /\ (tree[id] = Nothing => t = Nothing)
    <3>1. CASE Library!Unlink
      BY <3>1 DEF Library!Unlink
    <3>2. CASE Library!Edit
      BY <3>2 DEF Library!Edit, Library!Texts
    <3>. QED BY <1>7, <3>1, <3>2
  <2>2. PICK id, t : /\ tree' = [tree EXCEPT ![id] = t] /\ (tree[id] = Nothing => t = Nothing)
                     /\ t \in Library!Texts \cup {Nothing}
    BY <2>1
  <2>3. /\ index' = index /\ given' = given /\ at' = at /\ ipc' = ipc /\ unindexed' = unindexed
        /\ documents' = documents /\ flagged' = flagged /\ errors' = errors
    BY <1>7 DEF Library!Unlink, Library!Edit, Library!ingestVars
  <2>4. LibraryShapes' /\ OnlyFine'
    BY <2>2, <2>3 DEF LibraryInv, LibraryShapes, OnlyFine
  <2>. QED BY <2>3, <2>4, RestStep
<1>8. CASE UNCHANGED library
  <2>1. /\ tree' = tree /\ index' = index /\ given' = given /\ at' = at /\ ipc' = ipc
        /\ documents' = documents /\ flagged' = flagged /\ errors' = errors
        /\ unindexed' = unindexed
    BY <1>8 DEF library
  <2>2. LibraryShapes' /\ OnlyFine'
    BY <2>1 DEF LibraryInv, LibraryShapes, OnlyFine
  <2>. QED BY <2>1, <2>2, RestStep
<1>9. CASE Library!Next
  BY <1>1, <1>2, <1>3, <1>4, <1>5, <1>6, <1>7, <1>9, IngestStep, StoreStep DEF Library!Next
<1>. QED BY <1>8, <1>9 DEF Next, parts

\* The report of an ingest names each source once, an ingested one can be found, and
\* of the others nothing is on disk or in the store (knowledge/ingest.py), whatever
\* fails, for any number of sources and any edits, builds and clears beside it.
THEOREM IngestReportsTruth == Spec => []ReportIsTrue
<1>1. LibraryInv => ReportIsTrue
  <2>. SUFFICES ASSUME LibraryInv PROVE ReportIsTrue
    OBVIOUS
  <2>1. at - 1 \in Nat /\ at - 1 <= Len(given) /\ Len(given) \in Nat
    BY DEF LibraryInv, LibraryShapes
  <2>2. \A i \in 1 .. at - 1 : Cardinality(Places(documents \o flagged \o errors, i)) = 1
    BY <2>1, TallyOnce DEF LibraryInv
  <2>3. \A i \in 1 .. at - 1 : given[i] \in Library!Ids
    BY <2>1 DEF LibraryInv, LibraryShapes, Library!Ids
  <2>4. \A i \in 1 .. at - 1 : given[i].content # "fine" =>
           tree[given[i]] = Nothing /\ index[given[i]] = Nothing
    BY <2>3 DEF LibraryInv, OnlyFine
  <2>5. \A i \in DOMAIN documents : index[given[documents[i]]] # Nothing
    BY DEF LibraryInv, Found
  <2>. QED BY <2>2, <2>4, <2>5, SameCardinality
       DEF ReportIsTrue, Library!ReportIsTrue, Library!DraftId, Places
<1>. QED BY <1>1, LibraryInit, LibraryStep, PTL DEF Spec

-----------------------------------------------------------------------------
(* Chunks of a text *)

\* The last place of a window's separators is one of them.
LEMMA LastBehind ==
    ASSUME NEW S, NEW n \in Nat, S \subseteq 0 .. n, S # {}
    PROVE  Chunks!Max(S) \in S
BY Largest DEF Chunks!Max

LEMMA OfTwo ==
    ASSUME NEW a \in Nat, NEW b \in Nat
    PROVE  /\ Chunks!Max({a, b}) = IF a >= b THEN a ELSE b
           /\ Chunks!Min({a, b}) = IF a <= b THEN a ELSE b
<1>1. Chunks!Max({a, b}) \in {a, b} /\ \A y \in {a, b} : Chunks!Max({a, b}) >= y
  <2>1. \E x \in {a, b} : \A y \in {a, b} : x >= y
    OBVIOUS
  <2>. QED BY <2>1 DEF Chunks!Max
<1>2. Chunks!Min({a, b}) \in {a, b} /\ \A y \in {a, b} : Chunks!Min({a, b}) <= y
  <2>1. \E x \in {a, b} : \A y \in {a, b} : x <= y
    OBVIOUS
  <2>. QED BY <2>1 DEF Chunks!Min
<1>. QED BY <1>1, <1>2

\* The text, its separators and the window.
Given ==
    /\ length \in Nat /\ size \in Nat \ {0} /\ overlap \in 0 .. size - 1
    /\ paragraphs \subseteq 1 .. length /\ words \subseteq 1 .. length

\* A window's chunk is not empty, fits the window and the text; an overlap below the
\* floor of the snap never takes the whole of it back.
LEMMA WindowRight ==
    ASSUME Given, start \in Nat, start < length
    PROVE  /\ Chunks!WindowEnd \in Nat /\ Chunks!SnapFloor \in Nat \ {0}
           /\ Chunks!WindowEnd - start \in 1 .. size /\ Chunks!WindowEnd <= length
           /\ \/ Chunks!WindowEnd = length
              \/ Chunks!WindowEnd = start + size
              \/ Chunks!WindowEnd >= start + Chunks!SnapFloor
<1> DEFINE full == Chunks!Min({start + size, length})
           floor == Chunks!SnapFloor
           cut == Chunks!Boundary(full)
<1>1. /\ full \in Nat /\ full <= length /\ full <= start + size /\ start < full
      /\ full = length \/ full = start + size
  <2>1. start + size \in Nat /\ length \in Nat
    BY DEF Given
  <2>2. full = IF start + size <= length THEN start + size ELSE length
    BY <2>1, OfTwo
  <2>. QED BY <2>1, <2>2 DEF Given
<1>2. floor \in Nat \ {0}
  <2>1. size \div 4 \in Nat
    BY DEF Given
  <2>2. floor = IF 1 >= size \div 4 THEN 1 ELSE size \div 4
    BY <2>1, OfTwo DEF Chunks!SnapFloor
  <2>. QED BY <2>1, <2>2
<1> HIDE DEF full
<1>3. cut \in 0 .. full
  <2> DEFINE ps == Chunks!Behind(paragraphs, 2, full)
             ws == Chunks!Behind(words, 1, full)
  <2>1. ps \subseteq 0 .. full /\ ws \subseteq 0 .. full
    <3>1. ASSUME NEW S, S \subseteq 1 .. length, NEW w
          PROVE  Chunks!Behind(S, w, full) \subseteq 0 .. full
      <4>. SUFFICES ASSUME NEW p \in S, p <= full PROVE p \in 0 .. full
        BY DEF Chunks!Behind
      <4>1. p \in Nat
        BY <3>1
      <4>. QED BY <1>1, <4>1
    <3>. QED BY <3>1 DEF Given
  <2>2. cut = IF ps # {} THEN Chunks!Max(ps)
              ELSE IF ws # {} THEN Chunks!Max(ws) ELSE 0
    BY DEF Chunks!Boundary
  <2> HIDE DEF ps, ws
  <2>3. ps # {} => Chunks!Max(ps) \in 0 .. full
    BY <1>1, <2>1, LastBehind
  <2>4. ws # {} => Chunks!Max(ws) \in 0 .. full
    BY <1>1, <2>1, LastBehind
  <2>. QED BY <1>1, <2>2, <2>3, <2>4
<1>4. Chunks!WindowEnd = IF full < length /\ cut >= start + floor THEN cut ELSE full
  BY DEF Chunks!WindowEnd, full
<1> HIDE DEF floor, cut
<1>5. /\ Chunks!WindowEnd \in Nat
      /\ Chunks!WindowEnd - start \in 1 .. size /\ Chunks!WindowEnd <= length
      /\ \/ Chunks!WindowEnd = length
         \/ Chunks!WindowEnd = start + size
         \/ Chunks!WindowEnd >= start + floor
  BY <1>1, <1>2, <1>3, <1>4 DEF Given
<1>. QED BY <1>2, <1>5 DEF floor

\* Where the loop stands behind its last chunk.
Standing(cs, s, done) ==
    LET last == cs[Len(cs)] IN
    /\ cs = <<>> => s = 0 /\ (done <=> length = 0)
    /\ cs # <<>> =>
          /\ done => last.end = length
          /\ ~done => /\ last.start < s /\ s <= last.end
                      /\ last.end - overlap <= s /\ last.end < length
    /\ s \in 0 .. length /\ (~done => s < length)

\* A chunk, and the next one.
Chunk(c) == c.end - c.start \in 1 .. size /\ c.end <= length
Follows(c, d) ==
    /\ c.start < d.start /\ d.start <= c.end
    /\ overlap < Chunks!SnapFloor => c.end < d.end

Cut(cs) ==
    /\ Len(cs) > 0 => cs[1].start = 0
    /\ \A i \in 1 .. Len(cs) : Chunk(cs[i])
    /\ \A i \in 1 .. Len(cs) - 1 : Follows(cs[i], cs[i + 1])

Windows == [start : Nat, end : Nat]

ChunksInv ==
    /\ Given /\ over \in BOOLEAN /\ chunks \in Seq(Windows)
    /\ Standing(chunks, start, over) /\ Cut(chunks)

\* The operators above say nothing but of the text and the window, which stay.
LEMMA TextStays ==
    ASSUME UNCHANGED <<length, paragraphs, words, size, overlap>>
    PROVE  /\ Given' <=> Given
           /\ Standing(chunks, start, over)' <=> Standing(chunks', start', over')
           /\ Cut(chunks)' <=> Cut(chunks')
BY DEF Given, Standing, Cut, Chunk, Follows, Chunks!SnapFloor

LEMMA ChunksInit == Init => ChunksInv
<1> SUFFICES ASSUME Init PROVE ChunksInv
  OBVIOUS
<1>1. Given /\ start = 0 /\ chunks = <<>> /\ (over <=> length = 0) /\ over \in BOOLEAN
  <2>1. CASE part = "text"
    <3>1. Chunks!Init
      BY <2>1 DEF Init
    <3>2. paragraphs \subseteq 1 .. length /\ words \subseteq 1 .. length
      BY <3>1 DEF Chunks!Init, Chunks!kSubset
    <3>. QED BY <3>1, <3>2, PartsAssumption DEF Chunks!Init, Given
  <2>2. CASE part # "text"
    BY <2>2 DEF Init, Given
  <2>. QED BY <2>1, <2>2
<1>2. chunks \in Seq(Windows) /\ Len(chunks) = 0
  BY <1>1, EmptySeq
<1>3. Standing(chunks, start, over)
  BY <1>1 DEF Standing, Given
<1>4. Cut(chunks)
  BY <1>2 DEF Cut
<1>. QED BY <1>1, <1>2, <1>3, <1>4 DEF ChunksInv

\* One turn of the loop.
LEMMA EmitStep == ASSUME ChunksInv, Chunks!Emit PROVE ChunksInv'
<1> DEFINE e == Chunks!WindowEnd
           c == [start |-> start, end |-> e]
           n == Len(chunks)
           next == Chunks!Max({Chunks!Back, start + 1})
<1>1. /\ ~over /\ chunks' = Append(chunks, c) /\ (over' <=> e = length)
      /\ start' = IF e = length THEN start ELSE next
      /\ UNCHANGED <<length, paragraphs, words, size, overlap>>
      /\ over' \in BOOLEAN
  BY DEF Chunks!Emit, Chunks!Emitted
<1>2. Given /\ Given' /\ start \in Nat /\ start < length
  BY <1>1 DEF ChunksInv, Standing, Given
<1>3. /\ e \in Nat /\ Chunks!SnapFloor \in Nat \ {0} /\ e - start \in 1 .. size /\ e <= length
      /\ e = length \/ e = start + size \/ e >= start + Chunks!SnapFloor
  BY <1>2, WindowRight
<1>4. next \in Nat /\ start < next /\ next <= e /\ e - overlap <= next
  <2>1. Chunks!Back = IF e > overlap THEN e - overlap ELSE 0
    BY DEF Chunks!Back
  <2> HIDE DEF e
  <2>2. Chunks!Back \in Nat /\ Chunks!Back <= e /\ e - overlap <= Chunks!Back
    BY <1>2, <1>3, <2>1 DEF Given
  <2>3. next = IF Chunks!Back >= start + 1 THEN Chunks!Back ELSE start + 1
    BY <1>2, <2>2, OfTwo
  <2> HIDE DEF next
  <2>. QED BY <1>2, <1>3, <2>2, <2>3 DEF Given
<1> HIDE DEF e, next
<1>5. chunks \in Seq(Windows) /\ c \in Windows /\ n \in Nat
  BY <1>2, <1>3, LenProperties DEF ChunksInv, Windows
<1>6. /\ Append(chunks, c) \in Seq(Windows) /\ Len(Append(chunks, c)) = n + 1
      /\ Append(chunks, c)[n + 1] = c
      /\ \A i \in 1 .. n : Append(chunks, c)[i] = chunks[i]
  BY <1>5, AppendProperties
<1> DEFINE cs == Append(chunks, c)
<1> HIDE DEF cs
<1>7. /\ cs \in Seq(Windows) /\ Len(cs) = n + 1 /\ cs[n + 1] = c
      /\ \A i \in 1 .. n : cs[i] = chunks[i]
  BY <1>6 DEF cs
<1>8. Standing(cs, start', over')
  <2>1. cs # <<>> /\ cs[Len(cs)] = c
    BY <1>5, <1>7, EmptySeq
  <2>2. c.start = start /\ c.end = e
    OBVIOUS
  <2>3. CASE e = length
    <3>1. start' = start /\ over' /\ start \in 0 .. length
      BY <1>1, <1>2, <2>3 DEF Given
    <3>. QED BY <2>1, <2>2, <2>3, <3>1 DEF Standing
  <2>4. CASE e # length
    <3>1. /\ start' = next /\ ~over' /\ next \in 0 .. length /\ next < length /\ e < length
      BY <1>1, <1>2, <1>3, <1>4, <2>4 DEF Given
    <3>. QED BY <1>4, <2>1, <2>2, <3>1 DEF Standing
  <2>. QED BY <2>3, <2>4
<1>9. cs[1].start = 0
  <2>1. CASE n = 0
    <3>1. chunks = <<>>
      BY <1>5, <2>1, EmptySeq
    <3>2. start = 0
      BY <3>1 DEF ChunksInv, Standing
    <3>. QED BY <1>7, <2>1, <3>2
  <2>2. CASE n > 0
    <3>1. 1 \in 1 .. n /\ chunks[1].start = 0
      BY <1>5, <2>2 DEF ChunksInv, Cut
    <3>. QED BY <1>7, <3>1
  <2>. QED BY <1>5, <2>1, <2>2
<1>10. ASSUME NEW i \in 1 .. n + 1 PROVE Chunk(cs[i])
  <2>1. Chunk(c)
    BY <1>3 DEF Chunk
  <2>2. CASE i # n + 1
    <3>1. i \in 1 .. n
      BY <1>5, <2>2
    <3>. QED BY <1>7, <3>1 DEF ChunksInv, Cut
  <2>. QED BY <1>7, <2>1, <2>2
<1>11. ASSUME NEW i \in 1 .. n PROVE Follows(cs[i], cs[i + 1])
  <2>1. CASE i = n
    <3>1. chunks # <<>> /\ n \in 1 .. n
      BY <1>5, <2>1, EmptySeq
    <3> DEFINE b == chunks[n]
               f == Chunks!SnapFloor
    <3>2. b \in Windows
      BY <1>5, <3>1, ElementOfSeq
    <3>3. b.end \in Nat /\ b.start \in Nat
      BY <3>2 DEF Windows
    <3>4. /\ b.start < start /\ start <= b.end /\ b.end - overlap <= start
          /\ b.end < length
      BY <1>1, <3>1 DEF ChunksInv, Standing
    <3>5. f \in Nat /\ (e = length \/ e = start + size \/ e >= start + f)
      BY <1>3
    <3> HIDE DEF f
    <3>6. overlap < f => b.end < e
      <4> DEFINE x == b.end
      <4>1. x \in Nat /\ x - overlap <= start /\ x < length
        BY <3>3, <3>4
      <4> HIDE DEF x
      <4>2. overlap < f => x < e
        BY <1>2, <1>3, <3>5, <4>1 DEF Given
      <4>. QED BY <4>2 DEF x
    <3>7. Follows(b, c)
      BY <3>4, <3>6 DEF Follows, f
    <3>. QED BY <1>7, <2>1, <3>1, <3>7
  <2>2. CASE i # n
    <3>1. i \in 1 .. n - 1 /\ i + 1 \in 1 .. n
      BY <1>5, <2>2
    <3>. QED BY <1>7, <3>1 DEF ChunksInv, Cut
  <2>. QED BY <2>1, <2>2
<1>12. Cut(cs)
  <2>1. (n + 1) - 1 = n
    BY <1>5
  <2>. QED BY <1>7, <1>9, <1>10, <1>11, <2>1 DEF Cut
<1>13. chunks' = cs
  BY <1>1 DEF cs
<1>. QED BY <1>1, <1>2, <1>7, <1>8, <1>12, <1>13, TextStays DEF ChunksInv

LEMMA ChunksStep == ChunksInv /\ [Next]_parts => ChunksInv'
<1> SUFFICES ASSUME ChunksInv, [Next]_parts PROVE ChunksInv'
  OBVIOUS
<1>1. CASE Chunks!Next
  BY <1>1, EmitStep DEF Chunks!Next
<1>2. CASE UNCHANGED text
  BY <1>2, TextStays DEF text, ChunksInv
<1>. QED BY <1>1, <1>2 DEF Next, parts

\* Every character of a text of any length is in a chunk, of at most the window's
\* size, and no chunk is part of its predecessor, wherever the separators are
\* (knowledge/chunking.py, chunk_document).
THEOREM ChunksAlwaysCover == Spec => []ChunksCover
<1>1. ChunksInv => ChunksCover
  <2>. SUFFICES ASSUME ChunksInv PROVE Chunks!ChunksCover
    BY DEF ChunksCover
  <2> DEFINE n == Len(chunks)
  <2>1. n \in Nat /\ (n = 0 <=> chunks = <<>>)
    BY EmptySeq, LenProperties DEF ChunksInv
  <2>2. n > 0 => chunks[1].start = 0 /\ (over => chunks[n].end = length)
    BY <2>1 DEF ChunksInv, Cut, Standing
  <2>3. over /\ length > 0 => n > 0
    BY <2>1 DEF ChunksInv, Standing
  <2>4. \A i \in 1 .. n : chunks[i].end - chunks[i].start \in 1 .. size
    BY DEF ChunksInv, Cut, Chunk
  <2>5. \A i \in 1 .. n - 1 :
          /\ chunks[i].start < chunks[i + 1].start /\ chunks[i + 1].start <= chunks[i].end
          /\ overlap < Chunks!SnapFloor => chunks[i].end < chunks[i + 1].end
    BY DEF ChunksInv, Cut, Follows
  <2>. QED BY <2>2, <2>3, <2>4, <2>5 DEF Chunks!ChunksCover
<1>. QED BY <1>1, ChunksInit, ChunksStep, PTL DEF Spec

-----------------------------------------------------------------------------
(* Retrieval: the hits of a query. *)

\* By score and then by chunk is a strict order of hits, and a total one.
AllHits == [chunk : Nat, score : Nat]

LEMMA RankedOrders ==
    /\ \A a \in AllHits : ~Search!Ranked(a, a)
    /\ \A a, b \in AllHits : a # b => Search!Ranked(a, b) \/ Search!Ranked(b, a)
    /\ \A a, b, c \in AllHits :
          Search!Ranked(a, b) /\ Search!Ranked(b, c) => Search!Ranked(a, c)
    /\ \A a, b \in AllHits : Search!Ranked(a, b) => ~Search!Ranked(b, a)
BY DEF AllHits, Search!Ranked

\* A list has every hit of a set once, best first.
Enumerates(list, set) ==
    /\ list \in Seq(set)
    /\ \A hit \in set : \E i \in 1 .. Len(list) : list[i] = hit
    /\ \A i, j \in 1 .. Len(list) : i < j => Search!Ranked(list[i], list[j])

\* The hits above one are one less with every rank.
LEMMA AboveProperties ==
    ASSUME NEW S \in SUBSET AllHits, IsFiniteSet(S)
    PROVE  /\ \A a \in S : Cardinality(Search!Above(a, S)) \in 0 .. Cardinality(S) - 1
           /\ \A a, b \in S : Search!Ranked(a, b) =>
                 Cardinality(Search!Above(a, S)) < Cardinality(Search!Above(b, S))
<1> DEFINE U(a) == Search!Above(a, S)
<1>1. ASSUME NEW a \in S
      PROVE  /\ U(a) \in SUBSET S /\ IsFiniteSet(U(a)) /\ Cardinality(U(a)) \in Nat
             /\ a \notin U(a)
  <2>1. U(a) \in SUBSET S /\ a \notin U(a)
    BY RankedOrders DEF Search!Above
  <2>. QED BY <2>1, FS_Subset, FS_CardinalityType
<1>2. ASSUME NEW a \in S PROVE Cardinality(U(a)) \in 0 .. Cardinality(S) - 1
  <2>1. U(a) \in SUBSET (S \ {a})
    BY <1>1
  <2>2. IsFiniteSet(S \ {a}) /\ Cardinality(S \ {a}) = Cardinality(S) - 1
    BY FS_RemoveElement
  <2>3. Cardinality(U(a)) <= Cardinality(S) - 1
    BY <2>1, <2>2, FS_Subset
  <2>. QED BY <1>1, <2>3, FS_CardinalityType
<1>3. ASSUME NEW a \in S, NEW b \in S, Search!Ranked(a, b)
      PROVE  Cardinality(U(a)) < Cardinality(U(b))
  <2>1. U(a) \in SUBSET U(b)
    BY <1>3, RankedOrders DEF Search!Above
  <2>2. a \in U(b)
    BY <1>3 DEF Search!Above
  <2>3. Cardinality(U(a)) <= Cardinality(U(b)) /\ Cardinality(U(a)) # Cardinality(U(b))
    BY <1>1, <2>1, <2>2, FS_Subset
  <2>. QED BY <1>1, <2>3
<1>. QED BY <1>2, <1>3

\* Every rank is taken, and by one hit.
LEMMA EveryRank ==
    ASSUME NEW S \in SUBSET AllHits, IsFiniteSet(S)
    PROVE  /\ \A a, b \in S :
                 Cardinality(Search!Above(a, S)) = Cardinality(Search!Above(b, S)) => a = b
           /\ \A i \in 1 .. Cardinality(S) :
                 \E a \in S : Cardinality(Search!Above(a, S)) = i - 1
<1> DEFINE n == Cardinality(S)
           R == [a \in S |-> Cardinality(Search!Above(a, S))]
<1>1. n \in Nat
  BY FS_CardinalityType
<1>2. R \in [S -> 0 .. n - 1]
  BY AboveProperties
<1>3. ASSUME NEW a \in S, NEW b \in S,
             Cardinality(Search!Above(a, S)) = Cardinality(Search!Above(b, S))
      PROVE  a = b
  <2>1. Cardinality(Search!Above(a, S)) \in Int
    BY <1>1, AboveProperties
  <2>2. ~Search!Ranked(a, b) /\ ~Search!Ranked(b, a)
    BY <1>3, <2>1, AboveProperties
  <2>. QED BY <2>2, RankedOrders
<1>4. R \in Injection(S, 0 .. n - 1)
  <2>1. \A a, b \in S : R[a] = R[b] => a = b
    BY <1>3
  <2>2. DOMAIN R = S
    OBVIOUS
  <2> HIDE DEF R
  <2>. QED BY <1>2, <2>1, <2>2 DEF Injection, IsInjective
<1>5. R \in Surjection(S, 0 .. n - 1)
  <2>1. 0 \in Int /\ n - 1 \in Int /\ (IF 0 > n - 1 THEN 0 ELSE (n - 1) - 0 + 1) = n
    BY <1>1
  <2> HIDE DEF R, n
  <2>2. IsFiniteSet(0 .. n - 1) /\ Cardinality(0 .. n - 1) = n
    BY <2>1, FS_Interval
  <2>. QED BY <1>4, <2>2, FS_Injection DEF n
<1>6. ASSUME NEW i \in 1 .. n PROVE \E a \in S : Cardinality(Search!Above(a, S)) = i - 1
  <2>1. i - 1 \in 0 .. n - 1
    BY <1>1
  <2>2. \E a \in S : R[a] = i - 1
    <3> HIDE DEF R, n
    <3>. QED BY <1>5, <2>1 DEF Surjection
  <2>. QED BY <2>2
<1>. QED BY <1>3, <1>6

LEMMA BestFirstLists ==
    ASSUME NEW S \in SUBSET AllHits, IsFiniteSet(S)
    PROVE  Enumerates(Search!BestFirst(S), S) /\ Len(Search!BestFirst(S)) = Cardinality(S)
<1> DEFINE n == Cardinality(S)
           s == Search!BestFirst(S)
           Up(a) == Cardinality(Search!Above(a, S))
<1>1. n \in Nat
  BY FS_CardinalityType
<1>2. s = [i \in 1 .. n |-> CHOOSE a \in S : Up(a) = i - 1]
  <2>1. \A T : Search!Cardinality(T) = Cardinality(T)
    BY SameCardinality
  <2>2. Search!Cardinality(S) = Cardinality(S)
    BY <2>1
  <2> DEFINE A(i) == CHOOSE a \in S : Search!Cardinality(Search!Above(a, S)) = i - 1
             B(i) == CHOOSE a \in S : Up(a) = i - 1
  <2>3. \A i : A(i) = B(i)
    BY <2>1
  <2>4. s = [i \in 1 .. n |-> A(i)]
    BY <2>2 DEF Search!BestFirst
  <2> HIDE DEF A, B, s, n
  <2>5. s = [i \in 1 .. n |-> B(i)]
    BY <2>3, <2>4
  <2>. QED BY <2>5 DEF B
<1>3. ASSUME NEW i \in 1 .. n PROVE s[i] \in S /\ Up(s[i]) = i - 1
  <2>1. \E a \in S : Up(a) = i - 1
    BY EveryRank
  <2>2. s[i] = CHOOSE a \in S : Up(a) = i - 1
    BY <1>2
  <2> HIDE DEF s, Up
  <2>. QED BY <2>1, <2>2
<1>4. s \in Seq(S) /\ Len(s) = n
  <2>1. s \in [1 .. n -> S]
    BY <1>2, <1>3
  <2>2. DOMAIN s = 1 .. n
    BY <1>2
  <2> HIDE DEF s
  <2>. QED BY <1>1, <2>1, <2>2, SeqDef, LenProperties
<1>5. ASSUME NEW a \in S PROVE \E i \in 1 .. n : s[i] = a
  <2>1. Up(a) \in 0 .. n - 1
    BY AboveProperties
  <2>2. Up(a) + 1 \in 1 .. n /\ (Up(a) + 1) - 1 = Up(a)
    BY <1>1, <2>1
  <2>3. Up(s[Up(a) + 1]) = Up(a) /\ s[Up(a) + 1] \in S
    BY <1>3, <2>2
  <2>. QED BY <2>2, <2>3, EveryRank
<1>6. ASSUME NEW i \in 1 .. n, NEW j \in 1 .. n, i < j PROVE Search!Ranked(s[i], s[j])
  <2>1. s[i] \in S /\ s[j] \in S /\ Up(s[i]) = i - 1 /\ Up(s[j]) = j - 1
    BY <1>3
  <2>2. ~(Up(s[j]) < Up(s[i])) /\ Up(s[j]) # Up(s[i])
    BY <1>1, <1>6, <2>1
  <2>3. ~Search!Ranked(s[j], s[i]) /\ s[i] # s[j]
    BY <2>1, <2>2, AboveProperties
  <2>. QED BY <2>1, <2>3, RankedOrders
<1>. QED BY <1>4, <1>5, <1>6 DEF Enumerates

SearchShapes ==
    /\ Search!Stored \in SUBSET Search!Chunks /\ IsFiniteSet(Search!Stored)
    /\ store \in [Search!Stored -> Search!Entries]
    /\ counted \in SUBSET Search!Chunks /\ k \in Nat /\ expand \in BOOLEAN
    /\ qpc \in {"asked", "expanding", "counted", "done"}

\* The base hits: chunks of the store, at their whole score.
Whole(list) ==
    /\ \A i \in 1 .. Len(list) :
          list[i].chunk \in Search!Stored /\ list[i] = Search!Hit(list[i].chunk, 2)
    /\ \A i, j \in 1 .. Len(list) : i < j => Search!Ranked(list[i], list[j])

HitsTyped == \A hit \in Search!Range(hits) : hit \in AllHits /\ hit.chunk \in Search!Chunks

SearchInv ==
    /\ SearchShapes /\ base \in Seq(AllHits) /\ Whole(base)
    /\ HitsTyped /\ Search!HitsRight

LEMMA FiniteChunks ==
    ASSUME NEW S \in SUBSET Search!Chunks
    PROVE  IsFiniteSet(S) /\ \A c \in S : c \in Nat
<1>1. IsFiniteSet(Search!Chunks)
  BY PartsAssumption, FS_Interval DEF Search!Chunks
<1>2. \A c \in Search!Chunks : c \in Nat
  BY PartsAssumption DEF Search!Chunks
<1>. QED BY <1>1, <1>2, FS_Subset

\* The hits of some chunks of the store.
LEMMA HitTypes ==
    ASSUME SearchShapes, NEW S \in SUBSET Search!Stored, NEW halves \in Nat
    PROVE  /\ \A c \in S : /\ Search!Hit(c, halves) \in AllHits
                            /\ Search!Hit(c, halves).chunk = c
                            /\ Search!Hit(c, halves).score = halves * store[c].score
                            /\ store[c].score \in Nat \ {0}
           /\ IsFiniteSet({Search!Hit(c, halves) : c \in S})
           /\ Cardinality({Search!Hit(c, halves) : c \in S}) = Cardinality(S)
<1>1. IsFiniteSet(S) /\ \A c \in S : c \in Nat
  BY FiniteChunks DEF SearchShapes
<1>2. \A c \in S : store[c].score \in Nat \ {0}
  BY PartsAssumption DEF SearchShapes, Search!Entries
<1>3. \A c \in S : halves * store[c].score \in Nat
  BY <1>2
<1>4. \A c \in S : /\ Search!Hit(c, halves) \in AllHits
                   /\ Search!Hit(c, halves).chunk = c
                   /\ Search!Hit(c, halves).score = halves * store[c].score
  BY <1>1, <1>3 DEF Search!Hit, AllHits
<1> DEFINE T == {Search!Hit(c, halves) : c \in S}
           f == [c \in S |-> Search!Hit(c, halves)]
<1>5. f \in Bijection(S, T)
  <2>1. f \in [S -> T] /\ DOMAIN f = S
    OBVIOUS
  <2>2. \A a, b \in S : f[a] = f[b] => a = b
    BY <1>4
  <2>3. \A t \in T : \E c \in S : f[c] = t
    OBVIOUS
  <2> HIDE DEF f, T
  <2>. QED BY <2>1, <2>2, <2>3 DEF Bijection, Injection, Surjection, IsInjective
<1>6. IsFiniteSet(T) /\ Cardinality(T) = Cardinality(S)
  <2> HIDE DEF f, T
  <2>. QED BY <1>1, <1>5, FS_Bijection DEF ExistsBijection
<1>. QED BY <1>2, <1>4, <1>6

\* A query for the best of some chunks: whole hits of them, and for as many as there
\* are, all.
LEMMA BestLists ==
    ASSUME SearchShapes, NEW S \in SUBSET Search!Stored, NEW n \in Nat
    PROVE  /\ Search!Best(n, S) \in Seq(AllHits)
           /\ Whole(Search!Best(n, S))
           /\ n = Cardinality(S) => \A c \in S :
                 \E i \in 1 .. Len(Search!Best(n, S)) : Search!Best(n, S)[i] = Search!Hit(c, 2)
<1> DEFINE T == {Search!Hit(c, 2) : c \in S}
           s == Search!BestFirst(T)
           m == IF n < Len(s) THEN n ELSE Len(s)
           b == SubSeq(s, 1, m)
<1>1. /\ T \in SUBSET AllHits /\ IsFiniteSet(T) /\ Cardinality(T) = Cardinality(S)
      /\ \A c \in S : Search!Hit(c, 2).chunk = c
  <2>0. 2 \in Nat
    OBVIOUS
  <2>1. \A c \in S : Search!Hit(c, 2) \in AllHits /\ Search!Hit(c, 2).chunk = c
    <3> SUFFICES ASSUME NEW c \in S
                 PROVE  Search!Hit(c, 2) \in AllHits /\ Search!Hit(c, 2).chunk = c
      OBVIOUS
    <3>1. c \in Nat /\ store[c].score \in Nat
      BY PartsAssumption, FiniteChunks DEF SearchShapes, Search!Entries
    <3>. QED BY <3>1 DEF Search!Hit, AllHits
  <2>2. IsFiniteSet(T) /\ Cardinality(T) = Cardinality(S)
    BY <2>0, HitTypes, Zenon
  <2>. QED BY <2>1, <2>2
<1>2. Enumerates(s, T) /\ Len(s) = Cardinality(S)
  BY <1>1, BestFirstLists
<1>3. b = Search!Best(n, S)
  BY DEF Search!Best
<1>4. /\ s \in Seq(T) /\ Len(s) \in Nat /\ m \in Nat /\ m <= Len(s)
  BY <1>2, LenProperties DEF Enumerates
<1> HIDE DEF s, m
<1>5. b \in Seq(T) /\ Len(b) = m /\ \A i \in 1 .. m : b[i] = s[i]
  BY <1>4, SubSeqProperties
<1> HIDE DEF b
<1>6. ASSUME NEW i \in 1 .. m PROVE b[i].chunk \in Search!Stored /\ b[i] = Search!Hit(b[i].chunk, 2)
  <2>1. b[i] \in T
    BY <1>5, ElementOfSeq
  <2>2. PICK c \in S : b[i] = Search!Hit(c, 2)
    BY <2>1
  <2>. QED BY <1>1, <2>2
<1>7. ASSUME NEW i \in 1 .. m, NEW j \in 1 .. m, i < j PROVE Search!Ranked(b[i], b[j])
  <2>1. i \in 1 .. Len(s) /\ j \in 1 .. Len(s)
    BY <1>4
  <2>. QED BY <1>2, <1>5, <1>7, <2>1 DEF Enumerates
<1>8. ASSUME n = Cardinality(S), NEW c \in S
      PROVE  \E i \in 1 .. m : b[i] = Search!Hit(c, 2)
  <2>1. m = Len(s)
    BY <1>2, <1>4, <1>8 DEF m
  <2>2. Search!Hit(c, 2) \in T
    OBVIOUS
  <2>3. PICK i \in 1 .. Len(s) : s[i] = Search!Hit(c, 2)
    BY <1>2, <2>2 DEF Enumerates
  <2>. QED BY <1>5, <2>1, <2>3
<1>9. b \in Seq(AllHits)
  <2> HIDE DEF T
  <2>. QED BY <1>1, <1>5, SeqMonotonic
<1>10. Whole(b)
  BY <1>5, <1>6, <1>7 DEF Whole
<1>. QED BY <1>3, <1>5, <1>8, <1>9, <1>10

\* Two whole hits of one chunk are one hit: a list of them repeats none.
LEMMA WholeOnce ==
    ASSUME SearchShapes, NEW list \in Seq(AllHits), Whole(list)
    PROVE  \A i, j \in 1 .. Len(list) : i < j =>
              /\ list[i].score >= list[j].score /\ list[i].chunk # list[j].chunk
<1> SUFFICES ASSUME NEW i \in 1 .. Len(list), NEW j \in 1 .. Len(list), i < j
             PROVE  list[i].score >= list[j].score /\ list[i].chunk # list[j].chunk
  OBVIOUS
<1>1. list[i] \in AllHits /\ list[j] \in AllHits
  BY ElementOfSeq
<1>2. Search!Ranked(list[i], list[j])
  BY DEF Whole
<1>3. list[i] # list[j]
  BY <1>1, <1>2, RankedOrders
<1>4. list[i] = Search!Hit(list[i].chunk, 2) /\ list[j] = Search!Hit(list[j].chunk, 2)
  BY DEF Whole
<1>5. list[i].score >= list[j].score
  BY <1>1, <1>2 DEF Search!Ranked, AllHits
<1>. QED BY <1>3, <1>4, <1>5

LEMMA SearchInit == Init => SearchInv
<1> SUFFICES ASSUME Init PROVE SearchInv
  OBVIOUS
<1>1. base = <<>> /\ hits = <<>> /\ (qpc = "asked" \/ ~expand)
  BY DEF Init, Search!Init
<1>2. SearchShapes
  <2>1. CASE part = "search"
    <3>1. Search!Init
      BY <2>1 DEF Init
    <3>2. PICK n \in 0 .. MaxChunks : \E c \in Search!kSubset(n, Search!Chunks) :
                                          store \in [c -> Search!Entries]
      BY <3>1 DEF Search!Init
    <3>3. PICK c \in Search!kSubset(n, Search!Chunks) : store \in [c -> Search!Entries]
      BY <3>2
    <3>4. c \in SUBSET Search!Chunks
      BY DEF Search!kSubset
    <3>5. Search!Stored = c
      BY <3>3 DEF Search!Stored
    <3>6. IsFiniteSet(c)
      BY <3>4, FiniteChunks
    <3>. QED BY <3>1, <3>3, <3>4, <3>5, <3>6 DEF Search!Init, SearchShapes
  <2>2. CASE part # "search"
    <3>1. store = <<>> /\ k = 0 /\ expand = FALSE /\ qpc = "done" /\ counted = {}
      BY <2>2 DEF Init
    <3>2. Search!Stored = {} /\ store \in [{} -> Search!Entries]
      BY <3>1 DEF Search!Stored
    <3>3. IsFiniteSet({})
      BY FS_EmptySet
    <3>. QED BY <3>1, <3>2, <3>3 DEF SearchShapes
  <2>. QED BY <2>1, <2>2
<1>3. base \in Seq(AllHits) /\ Len(base) = 0 /\ DOMAIN hits = {}
  BY <1>1, EmptySeq
<1>4. Whole(base)
  BY <1>3 DEF Whole
<1>5. Search!HitsRight
  <2>1. Search!Range(hits) = {} /\ Search!Range(base) = {}
    BY <1>1, <1>3 DEF Search!Range
  <2>. QED BY <1>1, <1>3, <2>1 DEF Search!HitsRight
<1>6. HitsTyped
  BY <1>3 DEF HitsTyped, Search!Range
<1>. QED BY <1>2, <1>3, <1>4, <1>5, <1>6 DEF SearchInv

LEMMA QueryStep == ASSUME SearchInv, Search!Query PROVE SearchInv'
<1>0. counted' = counted /\ Search!Chunks' = Search!Chunks /\ Search!Entries' = Search!Entries
  BY DEF Search!Query, Search!Chunks, Search!Entries
<1>1. /\ base' = Search!Best(k, Search!Passing) /\ UNCHANGED <<store, k, expand>>
      /\ qpc' = (IF expand THEN "expanding" ELSE "done")
      /\ hits' = (IF expand THEN hits ELSE base')
  BY DEF Search!Query
<1>2. SearchShapes /\ SearchShapes'
  BY <1>1, <1>0 DEF SearchInv, SearchShapes, Search!Stored
<1>3. base' \in Seq(AllHits) /\ Whole(base')
  <2>1. Search!Passing \in SUBSET Search!Stored
    BY DEF Search!Passing
  <2>. QED BY <1>1, <1>2, <2>1, BestLists DEF SearchShapes
<1>4. Whole(base)'
  BY <1>1, <1>3 DEF Whole, Search!Stored, Search!Hit
<1>5. Search!HitsRight'
  <2>1. CASE expand
    BY <1>1, <2>1 DEF Search!HitsRight
  <2>2. CASE ~expand
    <3> DEFINE b == base'
    <3>1. hits' = base' /\ ~expand'
      BY <1>1, <2>2
    <3>2. Search!Range(hits)' \ Search!Range(base)' = {}
      BY <3>1 DEF Search!Range
    <3>3. \A i, j \in 1 .. Len(base') : i < j =>
             base'[i].score >= base'[j].score /\ base'[i].chunk # base'[j].chunk
      BY <1>2, <1>3, WholeOnce
    <3>4. DOMAIN hits' = 1 .. Len(base')
      BY <1>3, <3>1, LenProperties
    <3>. QED BY <3>1, <3>2, <3>3, <3>4 DEF Search!HitsRight
  <2>. QED BY <2>1, <2>2 DEF SearchInv, SearchShapes
<1>6. HitsTyped'
  <2>1. CASE expand
    BY <1>0, <1>1, <2>1 DEF SearchInv, HitsTyped, Search!Range
  <2>2. CASE ~expand
    <3>1. \A i \in DOMAIN base' : base'[i] \in AllHits /\ base'[i].chunk \in Search!Chunks
      <4>1. \A i \in 1 .. Len(base') : base'[i] \in AllHits
        BY <1>3, ElementOfSeq
      <4>2. DOMAIN base' = 1 .. Len(base')
        BY <1>3, LenProperties
      <4>. QED BY <1>2, <1>3, <4>1, <4>2 DEF Whole, SearchShapes
    <3>2. hits' = base'
      BY <1>1, <2>2
    <3>. QED BY <1>0, <3>1, <3>2 DEF HitsTyped, Search!Range
  <2>. QED BY <2>1, <2>2 DEF SearchInv, SearchShapes
<1>. QED BY <1>2, <1>3, <1>4, <1>5, <1>6 DEF SearchInv

\* A count, and a chunk that is stored beside the query.
LEMMA BesideStep == ASSUME SearchInv, Search!Count \/ Search!Add PROVE SearchInv'
<1>1. /\ base' = base /\ k' = k /\ expand' = expand
      /\ qpc' \in {"expanding", "counted"}
  BY DEF Search!Count, Search!Add
<1>2. /\ Search!Stored \subseteq Search!Stored'
      /\ \A c \in Search!Stored : store'[c] = store[c]
      /\ Search!Stored' \in SUBSET Search!Chunks
      /\ store' \in [Search!Stored' -> Search!Entries]
  <2>1. CASE Search!Count
    <3>1. store' = store
      BY <2>1 DEF Search!Count
    <3>. QED BY <3>1 DEF SearchInv, SearchShapes, Search!Stored
  <2>2. CASE Search!Add
    <3>1. PICK c \in Search!Chunks \ Search!Stored : \E e \in Search!Entries :
             store' = [d \in Search!Stored \cup {c} |-> IF d = c THEN e ELSE store[d]]
      BY <2>2 DEF Search!Add
    <3>2. PICK e \in Search!Entries :
             store' = [d \in Search!Stored \cup {c} |-> IF d = c THEN e ELSE store[d]]
      BY <3>1
    <3>3. Search!Stored' = Search!Stored \cup {c}
      BY <3>2 DEF Search!Stored
    <3>. QED BY <3>2, <3>3 DEF SearchInv, SearchShapes
  <2>. QED BY <2>1, <2>2
<1>3. SearchShapes'
  <2>1. IsFiniteSet(Search!Stored')
    BY <1>2, FiniteChunks
  <2>2. Search!Chunks' = Search!Chunks /\ Search!Entries' = Search!Entries
    BY DEF Search!Chunks, Search!Entries
  <2>3. counted' \in SUBSET Search!Chunks
    BY DEF Search!Count, Search!Add, SearchInv, SearchShapes
  <2>. QED BY <1>1, <1>2, <2>1, <2>2, <2>3 DEF SearchInv, SearchShapes
<1>4. Whole(base)'
  <2>1. \A c \in Search!Stored : Search!Hit(c, 2)' = Search!Hit(c, 2)
    BY <1>2 DEF Search!Hit
  <2>2. \A i \in 1 .. Len(base) :
           base[i].chunk \in Search!Stored /\ base[i] = Search!Hit(base[i].chunk, 2)
    BY DEF SearchInv, Whole
  <2>3. \A i \in 1 .. Len(base) :
           base[i].chunk \in Search!Stored' /\ base[i] = Search!Hit(base[i].chunk, 2)'
    <3> SUFFICES ASSUME NEW i \in 1 .. Len(base)
                 PROVE  /\ base[i].chunk \in Search!Stored'
                        /\ base[i] = Search!Hit(base[i].chunk, 2)'
      OBVIOUS
    <3> DEFINE c == base[i].chunk
    <3>1. c \in Search!Stored /\ base[i] = Search!Hit(c, 2) /\ c' = c
      BY <1>1, <2>2
    <3> HIDE DEF c
    <3>2. c \in Search!Stored' /\ base[i] = Search!Hit(c, 2)'
      BY <1>2, <2>1, <3>1
    <3>. QED BY <3>1, <3>2 DEF c
  <2>4. \A i, j \in 1 .. Len(base) : i < j => Search!Ranked(base[i], base[j])
    BY DEF SearchInv, Whole
  <2>. QED BY <1>1, <2>3, <2>4 DEF Whole, Search!Ranked
<1>5. Search!HitsRight' /\ HitsTyped'
  <2>1. hits' = hits /\ Search!Chunks' = Search!Chunks
    BY DEF Search!Count, Search!Add, Search!Chunks
  <2>. QED BY <1>1, <2>1 DEF Search!HitsRight, SearchInv, HitsTyped, Search!Range
<1>. QED BY <1>1, <1>3, <1>4, <1>5 DEF SearchInv

\* The wide query: where a document's first hit is, it is one of the document's.
LEMMA FirstOfDoc ==
    ASSUME NEW d, NEW wide
    PROVE  /\ Search!FirstOf(d, wide) > 0 =>
                 /\ Search!FirstOf(d, wide) \in 1 .. Len(wide)
                 /\ Search!Doc(wide[Search!FirstOf(d, wide)].chunk) = d
           /\ (\E i \in 1 .. Len(wide) : Search!Doc(wide[i].chunk) = d) =>
                 Search!FirstOf(d, wide) > 0
<1> DEFINE I == {i \in 1 .. Len(wide) : Search!Doc(wide[i].chunk) = d}
<1>1. Search!FirstOf(d, wide) = IF I # {} THEN Search!Min(I) ELSE 0
  BY DEF Search!FirstOf, Search!SelectInSeq
<1>2. I # {} => Search!Min(I) \in I
  <2> SUFFICES ASSUME I # {} PROVE Search!Min(I) \in I
    OBVIOUS
  <2> DEFINE J == {i \in Nat : i \in I}
  <2>1. I \subseteq Nat /\ J # {} /\ J \subseteq Nat
    OBVIOUS
  <2>2. PICK x \in J : \A y \in J : <<y, x>> \notin OpToRel(<, Nat)
    <3> HIDE DEF J
    <3>. QED BY <2>1, NatLessThanWellFounded, WFMin
  <2>3. x \in I /\ \A y \in I : x <= y
    <3>1. x \in I /\ x \in Nat
      BY <2>2
    <3>2. ASSUME NEW y \in I PROVE x <= y
      <4>1. y \in J /\ y \in Nat
        BY <2>1
      <4>2. ~(y < x)
        BY <2>2, <3>1, <4>1 DEF OpToRel
      <4>. QED BY <3>1, <4>1, <4>2
    <3>. QED BY <3>1, <3>2
  <2> HIDE DEF I
  <2>. QED BY <2>3 DEF Search!Min
<1>3. \A i \in I : i > 0 /\ i \in 1 .. Len(wide) /\ Search!Doc(wide[i].chunk) = d
  OBVIOUS
<1>4. (\E i \in 1 .. Len(wide) : Search!Doc(wide[i].chunk) = d) <=> I # {}
  OBVIOUS
<1> HIDE DEF I
<1>. QED BY <1>1, <1>2, <1>3, <1>4

\* What an expansion adds to the base hits: of the chunks of a neighbour that the wide
\* query found, the first.
InReach(wide) == {d \in Search!Neighbours : Search!FirstOf(d, wide) > 0}
First(d, wide) == Search!Hit(wide[Search!FirstOf(d, wide)].chunk, 1)

LEMMA AddedRight ==
    ASSUME SearchShapes, NEW wide \in Seq(AllHits), Whole(wide)
    PROVE  \A d \in InReach(wide) :
              /\ First(d, wide) \in AllHits
              /\ Search!Doc(First(d, wide).chunk) = d
              /\ First(d, wide).chunk \in Search!Stored
              /\ First(d, wide).score = store[First(d, wide).chunk].score
              /\ store[First(d, wide).chunk].score \in Nat \ {0}
<1> SUFFICES ASSUME NEW d \in InReach(wide)
             PROVE  /\ First(d, wide) \in AllHits
                    /\ Search!Doc(First(d, wide).chunk) = d
                    /\ First(d, wide).chunk \in Search!Stored
                    /\ First(d, wide).score = store[First(d, wide).chunk].score
                    /\ store[First(d, wide).chunk].score \in Nat \ {0}
  OBVIOUS
<1> DEFINE i == Search!FirstOf(d, wide)
           c == wide[i].chunk
<1>1. i \in 1 .. Len(wide) /\ Search!Doc(c) = d
  BY FirstOfDoc DEF InReach
<1>2. c \in Search!Stored
  BY <1>1 DEF Whole
<1>3. First(d, wide) = Search!Hit(c, 1)
  BY DEF First
<1> HIDE DEF c
<1>4. c \in Nat /\ store[c].score \in Nat \ {0}
  BY <1>2, PartsAssumption, FiniteChunks DEF SearchShapes, Search!Entries
<1>5. Search!Hit(c, 1) = [chunk |-> c, score |-> store[c].score]
  BY <1>4 DEF Search!Hit
<1>. QED BY <1>1, <1>2, <1>3, <1>4, <1>5 DEF AllHits

LEMMA ExpandStep == ASSUME SearchInv, Search!Expand PROVE SearchInv'
<1> DEFINE wide == Search!Best(Search!Cardinality(counted), Search!Stored)
           R == Search!Range(base)
           A == {First(d, wide) : d \in InReach(wide)}
           list == Search!BestFirst(R \cup A)
           C(h) == h.chunk
           Raw(h) == store[h.chunk].score
<1>1. /\ UNCHANGED <<store, dependsOn, k, expand, base, counted>>
      /\ qpc' = "done" /\ hits' = list
  BY DEF Search!Expand, Search!ExpandWith, InReach, First
<1>2. /\ SearchShapes /\ base \in Seq(AllHits) /\ Whole(base)
      /\ R = {base[i] : i \in 1 .. Len(base)} /\ Len(base) \in Nat
  BY LenProperties DEF SearchInv, Search!Range
<1>3. /\ wide \in Seq(AllHits) /\ Whole(wide)
      /\ counted = Search!Stored => \A c \in Search!Stored :
            \E i \in 1 .. Len(wide) : wide[i] = Search!Hit(c, 2)
  <2>1. Search!Cardinality(counted) = Cardinality(counted)
    BY SameCardinality
  <2>2. Cardinality(counted) \in Nat
    BY <1>2, FiniteChunks, FS_CardinalityType DEF SearchShapes
  <2> DEFINE n == Search!Cardinality(counted)
  <2>3. n \in Nat /\ (counted = Search!Stored => n = Cardinality(Search!Stored))
    BY <2>1, <2>2
  <2> HIDE DEF n
  <2>4. Search!Stored \in SUBSET Search!Stored
    OBVIOUS
  <2>5. /\ Search!Best(n, Search!Stored) \in Seq(AllHits)
        /\ Whole(Search!Best(n, Search!Stored))
        /\ n = Cardinality(Search!Stored) => \A c \in Search!Stored :
              \E i \in 1 .. Len(Search!Best(n, Search!Stored)) :
                 Search!Best(n, Search!Stored)[i] = Search!Hit(c, 2)
    BY <1>2, <2>3, <2>4, BestLists
  <2>. QED BY <2>3, <2>5 DEF n
<1> HIDE DEF wide
\* The base hits, and what the expansion adds.
<1>4. ASSUME NEW h \in R
      PROVE  /\ h \in AllHits /\ C(h) \in Search!Stored /\ h = Search!Hit(C(h), 2)
             /\ Search!Doc(C(h)) \in Search!Seen
             /\ Raw(h) \in Nat \ {0} /\ h.score = 2 * Raw(h)
  <2>1. PICK i \in 1 .. Len(base) : h = base[i]
    BY <1>2
  <2>2. h \in AllHits /\ C(h) \in Search!Stored /\ h = Search!Hit(C(h), 2)
    BY <1>2, <2>1, ElementOfSeq DEF Whole
  <2>3. Search!Doc(C(h)) \in Search!Seen
    <3>1. i \in DOMAIN base
      BY <1>2, LenProperties
    <3>. QED BY <2>1, <3>1 DEF Search!Seen
  <2>4. Raw(h) \in Nat \ {0}
    BY <1>2, <2>2, PartsAssumption DEF SearchShapes, Search!Entries
  <2>5. h.score = 2 * Raw(h)
    BY <2>2 DEF Search!Hit
  <2>. QED BY <2>2, <2>3, <2>4, <2>5
<1>5. ASSUME NEW h \in A
      PROVE  /\ h \in AllHits /\ C(h) \in Search!Stored
             /\ Search!Doc(C(h)) \in Search!Neighbours
             /\ h = First(Search!Doc(C(h)), wide)
             /\ Raw(h) \in Nat \ {0} /\ h.score = Raw(h)
  <2>1. PICK d \in InReach(wide) : h = First(d, wide)
    OBVIOUS
  <2>2. d \in Search!Neighbours
    BY DEF InReach
  <2>. QED BY <1>2, <1>3, <2>1, <2>2, AddedRight
<1>6. ASSUME NEW h \in R, NEW g \in A PROVE h # g /\ C(h) # C(g)
  <2>1. Search!Doc(C(h)) \in Search!Seen /\ Search!Doc(C(g)) \in Search!Neighbours
    BY <1>4, <1>5
  <2>2. Search!Doc(C(h)) # Search!Doc(C(g))
    BY <2>1 DEF Search!Neighbours
  <2>. QED BY <2>2
<1>7. R \cup A \in SUBSET AllHits /\ IsFiniteSet(R \cup A)
  <2> DEFINE T == {Search!Hit(c, 2) : c \in Search!Stored}
             U == {Search!Hit(c, 1) : c \in Search!Stored}
  <2>1. 1 \in Nat /\ 2 \in Nat /\ Search!Stored \in SUBSET Search!Stored
    OBVIOUS
  <2>2. IsFiniteSet(T) /\ IsFiniteSet(U)
    BY <1>2, <2>1, HitTypes, Zenon
  <2>3. R \subseteq T
    BY <1>4
  <2>4. A \subseteq U
    <3> SUFFICES ASSUME NEW h \in A PROVE h \in U
      OBVIOUS
    <3>1. h \in AllHits /\ C(h) \in Search!Stored /\ h.score = Raw(h) /\ Raw(h) \in Nat
      BY <1>5
    <3>2. h = Search!Hit(C(h), 1)
      BY <3>1 DEF AllHits, Search!Hit
    <3>. QED BY <3>1, <3>2
  <2> HIDE DEF T, U, R, A
  <2>5. IsFiniteSet(R) /\ IsFiniteSet(A)
    BY <2>2, <2>3, <2>4, FS_Subset
  <2>6. R \cup A \in SUBSET AllHits
    BY <1>4, <1>5
  <2>. QED BY <2>5, <2>6, FS_Union
<1>8. /\ list \in Seq(R \cup A) /\ Len(list) \in Nat /\ DOMAIN list = 1 .. Len(list)
      /\ \A h \in R \cup A : \E i \in 1 .. Len(list) : list[i] = h
      /\ \A i, j \in 1 .. Len(list) : i < j => Search!Ranked(list[i], list[j])
      /\ \A i \in 1 .. Len(list) : list[i] \in R \cup A
  <2>1. Enumerates(list, R \cup A)
    BY <1>7, BestFirstLists
  <2> HIDE DEF R, A, list
  <2>. QED BY <2>1, LenProperties, ElementOfSeq DEF Enumerates
<1>9. Search!Range(list) = R \cup A /\ Search!Range(list) \ R = A
  <2>1. Search!Range(list) = {list[i] : i \in 1 .. Len(list)}
    BY <1>8 DEF Search!Range
  <2> HIDE DEF list, R, A
  <2>. QED BY <1>6, <1>8, <2>1
<1> HIDE DEF R, A, list
\* The parts of the property.
<1>10. ASSUME NEW i \in 1 .. Len(list), NEW j \in 1 .. Len(list), i < j
       PROVE  list[i].score >= list[j].score /\ list[i].chunk # list[j].chunk
  <2>1. /\ list[i] \in R \cup A /\ list[j] \in R \cup A
        /\ Search!Ranked(list[i], list[j])
    BY <1>8, <1>10
  <2>2. list[i] \in AllHits /\ list[j] \in AllHits
    BY <1>4, <1>5, <2>1
  <2>3. list[i].score >= list[j].score
    BY <2>1, <2>2 DEF Search!Ranked, AllHits
  <2>4. list[i] # list[j]
    BY <2>1, <2>2, RankedOrders
  <2>5. C(list[i]) # C(list[j])
    <3>1. CASE list[i] \in R /\ list[j] \in R
      BY <1>4, <2>4, <3>1
    <3>2. CASE list[i] \in A /\ list[j] \in A
      BY <1>5, <2>4, <3>2
    <3>. QED BY <1>6, <2>1, <3>1, <3>2
  <2>. QED BY <2>3, <2>5
<1>11. ASSUME NEW i \in 1 .. Len(list), NEW j \in 1 .. Len(list),
              list[i] \in R, list[j] \in A, Raw(list[i]) = Raw(list[j])
       PROVE  i < j
  <2>1. list[i].score > list[j].score
    <3> DEFINE x == Raw(list[i])
    <3>1. x \in Nat \ {0} /\ list[i].score = 2 * x /\ list[j].score = x
      BY <1>4, <1>5, <1>11
    <3> HIDE DEF x
    <3>. QED BY <3>1
  <2>2. list[i] \in AllHits /\ list[j] \in AllHits
    BY <1>4, <1>5, <1>11
  <2>3. ~(j < i)
    <3> SUFFICES ASSUME j < i PROVE FALSE
      OBVIOUS
    <3>1. Search!Ranked(list[j], list[i])
      BY <1>8
    <3>. QED BY <2>1, <2>2, <3>1 DEF Search!Ranked, AllHits
  <2>4. i # j
    BY <1>6, <1>11
  <2>. QED BY <2>3, <2>4
<1>12. \A x, y \in A : x # y => Search!Doc(x.chunk) # Search!Doc(y.chunk)
  BY <1>5
<1>13. {Search!Doc(x.chunk) : x \in A} \subseteq Search!Neighbours
  BY <1>5
<1>14. ASSUME counted = Search!Stored
       PROVE  {d \in Search!Neighbours : \E c \in Search!Stored : Search!Doc(c) = d}
              \subseteq {Search!Doc(x.chunk) : x \in A}
  <2> SUFFICES ASSUME NEW d \in Search!Neighbours, NEW c \in Search!Stored,
                      Search!Doc(c) = d
               PROVE  \E x \in A : Search!Doc(x.chunk) = d
    OBVIOUS
  <2>1. PICK i \in 1 .. Len(wide) : wide[i] = Search!Hit(c, 2)
    BY <1>3, <1>14
  <2>2. wide[i].chunk = c
    BY <2>1 DEF Search!Hit
  <2>3. d \in InReach(wide)
    BY <2>2, FirstOfDoc DEF InReach
  <2>4. First(d, wide) \in A
    BY <2>3 DEF A
  <2>. QED BY <1>2, <1>3, <2>3, <2>4, AddedRight
<1>15. SearchShapes' /\ base' \in Seq(AllHits) /\ Whole(base)'
  BY <1>1, <1>2 DEF SearchShapes, Whole, Search!Stored, Search!Hit, Search!Chunks,
                    Search!Entries
<1>16. Search!HitsRight'
  <2>1. /\ Search!Range(base)' = R /\ Search!Range(hits)' = Search!Range(list)
        /\ DOMAIN hits' = 1 .. Len(list)
    BY <1>1, <1>8 DEF R, Search!Range
  <2>2. Search!Neighbours' = Search!Neighbours /\ Search!Stored' = Search!Stored
    BY <1>1 DEF Search!Neighbours, Search!Seen, Search!Stored
  <2>3. /\ \A i, j \in DOMAIN hits' : i < j =>
              hits'[i].score >= hits'[j].score /\ hits'[i].chunk # hits'[j].chunk
        /\ R \subseteq Search!Range(hits)'
        /\ Search!Range(hits)' \ R = A
    BY <1>1, <1>9, <1>10, <2>1
  <2>4. \A i, j \in DOMAIN hits' :
           /\ hits'[i] \in R /\ hits'[j] \in A
           /\ store'[hits'[i].chunk].score = store'[hits'[j].chunk].score
           => i < j
    BY <1>1, <1>11, <2>1
  <2>. QED BY <1>1, <1>12, <1>13, <1>14, <2>1, <2>2, <2>3, <2>4 DEF Search!HitsRight
<1>17. HitsTyped'
  <2>1. Search!Range(hits)' = R \cup A /\ Search!Chunks' = Search!Chunks
    BY <1>1, <1>8, <1>9 DEF Search!Range, Search!Chunks
  <2>. QED BY <1>2, <1>4, <1>5, <2>1 DEF HitsTyped, SearchShapes
<1>. QED BY <1>15, <1>16, <1>17 DEF SearchInv

LEMMA SearchStep == SearchInv /\ [Next]_parts => SearchInv'
<1> SUFFICES ASSUME SearchInv, [Next]_parts PROVE SearchInv'
  OBVIOUS
<1>1. CASE Search!Next
  BY <1>1, QueryStep, BesideStep, ExpandStep DEF Search!Next
<1>2. CASE UNCHANGED search
  <2>1. UNCHANGED <<store, dependsOn, k, expand, qpc, base, counted, hits>>
    BY <1>2 DEF search
  <2>2. SearchShapes' /\ base' \in Seq(AllHits) /\ Whole(base)'
    BY <2>1 DEF SearchInv, SearchShapes, Whole, Search!Stored, Search!Hit, Search!Chunks,
                Search!Entries
  <2>3. Search!HitsRight' <=> Search!HitsRight
    <3>1. /\ Search!Stored' = Search!Stored /\ Search!Neighbours' = Search!Neighbours
          /\ Search!Range(base)' = Search!Range(base)
          /\ Search!Range(hits)' = Search!Range(hits)
      BY <2>1 DEF Search!Stored, Search!Range, Search!Neighbours, Search!Seen
    <3>. QED BY <2>1, <3>1 DEF Search!HitsRight
  <2>4. HitsTyped'
    BY <2>1 DEF SearchInv, HitsTyped, Search!Range, Search!Chunks
  <2>. QED BY <2>2, <2>3, <2>4 DEF SearchInv
<1>. QED BY <1>1, <1>2 DEF Next, parts

\* A query gives its hits best first and no chunk twice, all base hits among them and
\* in front of an expansion as similar, and of the documents these depend on exactly
\* one chunk each, unless the store grew after its count (skills/retrieval/skill.py),
\* for any store, any graph and any additions beside it.
THEOREM RetrievalHitsRight == Spec => []HitsRight
<1>1. SearchInv => HitsRight
  BY DEF SearchInv, HitsRight
<1>. QED BY <1>1, SearchInit, SearchStep, PTL DEF Spec
-----------------------------------------------------------------------------
(* Types *)

\* What an ingest was given, and what a clear has listed.
LibraryCounts ==
    /\ Len(given) <= MaxSources /\ ipc \in {"idle", "load", "gate", "draft", "store"}
    /\ doomed \subseteq Library!Ids

LEMMA LibraryCountsInit == Init => LibraryCounts
<1>1. MaxSources \in Nat /\ Len(<<>>) = 0
  BY PartsAssumption
<1>. QED BY <1>1 DEF Init, Library!Init, LibraryCounts

LEMMA LibraryCountsStep == LibraryCounts /\ [Next]_parts => LibraryCounts'
<1>. SUFFICES ASSUME LibraryCounts, [Next]_parts PROVE LibraryCounts'
  OBVIOUS
<1>1. Library!Ids' = Library!Ids
  BY DEF Library!Ids, Library!Sources, Library!Contents
<1>2. CASE Library!Ingest
  <2>1. PICK n \in 1 .. MaxSources : given' \in [1 .. n -> Library!Sources]
    BY <1>2 DEF Library!Ingest
  <2>2. given' \in Seq(Library!Sources) /\ Len(given') = n
    BY <2>1
  <2>3. n <= MaxSources
    BY PartsAssumption
  <2>. QED BY <1>1, <1>2, <2>2, <2>3 DEF Library!Ingest, LibraryCounts
<1>3. CASE Library!Load \/ Library!Gate \/ Library!WriteDraft \/ Library!Store \/ Library!Fail
  <2>1. given' = given /\ doomed' = doomed
    BY <1>3 DEF Library!Load, Library!Gate, Library!WriteDraft, Library!Store, Library!Fail,
                Library!Elsewhere
  <2>2. ipc' \in {"idle", "load", "gate", "draft", "store"}
    BY <1>3 DEF Library!Load, Library!Gate, Library!WriteDraft, Library!Store, Library!Fail,
                Library!NextSource, LibraryCounts
  <2>. QED BY <1>1, <2>1, <2>2 DEF LibraryCounts
<1>4. CASE Library!Build \/ Library!IndexOne \/ Library!IndexFails \/ Library!Edit
  BY <1>1, <1>4 DEF Library!Build, Library!IndexOne, Library!IndexFails, Library!Edit,
                    Library!ingestVars, LibraryCounts
<1>5. CASE Library!Clear \/ Library!Unlink
  BY <1>1, <1>5 DEF Library!Clear, Library!Unlink, Library!ingestVars, LibraryCounts
<1>6. CASE UNCHANGED library
  BY <1>1, <1>6 DEF library, LibraryCounts
<1>. QED BY <1>2, <1>3, <1>4, <1>5, <1>6 DEF Next, parts, Library!Next

LEMMA LibraryTypes == LibraryInv /\ LibraryCounts => Library!TypeOK
<1>. SUFFICES ASSUME LibraryInv, LibraryCounts PROVE Library!TypeOK
  OBVIOUS
<1>. DEFINE n == Len(given)
<1>1. /\ n \in Nat /\ n <= MaxSources /\ MaxSources \in Nat /\ DOMAIN given = 1 .. n
      /\ at \in 1 .. n + 1 /\ {documents, flagged, errors} \subseteq Seq(1 .. at - 1)
  BY PartsAssumption, LenProperties
     DEF LibraryInv, LibraryShapes, LibraryCounts, Tally
<1>. HIDE DEF n
<1>2. at \in 1 .. MaxSources + 1 /\ 1 .. at - 1 \subseteq 1 .. n
  BY <1>1
<1>3. Seq(1 .. at - 1) \subseteq Seq(1 .. n)
  <2>. SUFFICES ASSUME NEW list \in Seq(1 .. at - 1) PROVE list \in Seq(1 .. n)
    OBVIOUS
  <2>1. \A i \in 1 .. Len(list) : list[i] \in 1 .. n
    BY <1>2, ElementOfSeq
  <2>2. list = [i \in 1 .. Len(list) |-> list[i]] /\ Len(list) \in Nat
    BY LenProperties
  <2>3. [i \in 1 .. Len(list) |-> list[i]] \in Seq(1 .. n)
    BY <2>1, <2>2, IsASeq
  <2>. QED BY <2>2, <2>3, Zenon
<1>. QED BY <1>1, <1>2, <1>3
         DEF LibraryInv, LibraryShapes, OnlyFine, LibraryCounts, Library!TypeOK

LEMMA ChunksTypes == ChunksInv => Chunks!TypeOK
<1>. SUFFICES ASSUME ChunksInv PROVE Chunks!TypeOK
  OBVIOUS
<1>1. start \in 0 .. length /\ over \in BOOLEAN
  BY DEF ChunksInv, Standing
<1>2. ASSUME NEW i \in DOMAIN chunks
      PROVE  {chunks[i].start, chunks[i].end} \subseteq 0 .. length
  <2>1. i \in 1 .. Len(chunks) /\ chunks[i] \in Windows
    BY LenProperties, ElementOfSeq DEF ChunksInv
  <2>2. Chunk(chunks[i])
    BY <2>1 DEF ChunksInv, Cut
  <2>. QED BY <2>1, <2>2 DEF Windows, Chunk, ChunksInv, Given
<1>. QED BY <1>1, <1>2 DEF Chunks!TypeOK

LEMMA SearchTypes == SearchInv => Search!TypeOK
<1>. SUFFICES ASSUME SearchInv PROVE Search!TypeOK
  OBVIOUS
<1>1. ASSUME NEW hit \in Search!Range(base)
      PROVE  hit.chunk \in Search!Chunks /\ hit.score \in Nat
  <2>1. PICK i \in 1 .. Len(base) : hit = base[i]
    BY LenProperties DEF SearchInv, Search!Range
  <2>2. hit \in AllHits /\ hit.chunk \in Search!Stored
    BY <2>1, ElementOfSeq DEF SearchInv, Whole
  <2>. QED BY <2>2 DEF AllHits, SearchInv, SearchShapes
<1>2. ASSUME NEW hit \in Search!Range(hits)
      PROVE  hit.chunk \in Search!Chunks /\ hit.score \in Nat
  BY DEF SearchInv, HitsTyped, AllHits
<1>. QED BY <1>1, <1>2 DEF SearchInv, SearchShapes, Search!TypeOK
=============================================================================
