-------------------------- MODULE ContextCompiler ---------------------------
(***************************************************************************)
(* The prompt of one model call: compile_context (context/compiler.py)     *)
(* over the sources that core/base_agent.py gathers, and compact           *)
(* (context/compaction.py) over what is left.  The sources, the ceiling    *)
(* and the agent's own messages are chosen at the start; the summaries are *)
(* model calls, which may fail or reach the run's cap.                     *)
(***************************************************************************)
EXTENDS Integers, Sequences, FiniteSets, SequencesExt

CONSTANTS
    Orders,        \* at which an agent's extra source may ask to be put
    Ceilings,      \* in tokens
    NoCeiling,
    MaxTurns,      \* bound: messages of the agent's own
    MaxKeep,       \* bound: of keep_recent
    Summaries      \* how long a summary may come out

\* A message: the source it is from, its place there, its role and its tokens.
Said(source, place, role, size) ==
    [source |-> source, place |-> place, role |-> role, size |-> size]
Summary(source, size) == Said(source, 0, "system", size)    \* place 0

Tokens(messages) ==
    LET sum[n \in 0 .. Len(messages)] == IF n = 0 THEN 0 ELSE sum[n - 1] + messages[n].size
    IN  sum[Len(messages)]

\* _context_sources: the extra ones, recalled memory, and the agent's messages.
Extra(name, order, size) ==
    [name |-> name, order |-> order, pinned |-> FALSE,
     messages |-> IF size = 0 THEN <<>> ELSE <<Said(name, 1, "system", size)>>]
Recall == [name |-> "recall", order |-> 20, pinned |-> TRUE,
           messages |-> <<Said("recall", 1, "system", 1)>>]
Agent(turns) ==
    [name |-> "agent", order |-> 90, pinned |-> TRUE,
     messages |-> <<Said("agent", 1, "system", 1)>>
                  \o [i \in 1 .. turns |-> Said("agent", i + 1, "turn", 2)]]
Extras ==
    {<<>>} \cup {<<Extra("first", o, s)>> : o \in Orders, s \in {0, 2}}
           \cup {<<Extra("first", o, 2), Extra("second", p, 3)>> :
                    o \in Orders, p \in Orders}
Gathered ==
    {extras \o recall \o <<Agent(turns)>> :
        extras \in Extras, recall \in {<<>>, <<Recall>>}, turns \in 0 .. MaxTurns}

VARIABLES
    given,          \* the sources, in the order of assembly
    ceiling, summarises, keep,
    emitted,        \* the sources as the loop has left them
    at,             \* the source that the loop is at
    dropped,        \* names
    cpc,            \* "check", "loop", "compact", "sent", "asis", "stopped"
    prompt,
    before          \* tokens when the last source was given up

contextVars == <<given, ceiling, summarises, keep, emitted, at, dropped, cpc, prompt,
                 before>>

\* By their order; sources of one order stay as they were gathered.
Sooner(sources, i, j) ==
    \/ sources[i].order < sources[j].order
    \/ sources[i].order = sources[j].order /\ i < j
ByOrder(sources) ==
    LET Rank(i) == Cardinality({j \in DOMAIN sources : Sooner(sources, j, i)}) IN
    [n \in DOMAIN sources |-> sources[CHOOSE i \in DOMAIN sources : Rank(i) = n - 1]]

Init ==
    /\ \E sources \in Gathered : given = ByOrder(sources)
    /\ ceiling \in Ceilings \cup {NoCeiling} /\ summarises \in BOOLEAN
    /\ keep \in 1 .. MaxKeep
    /\ emitted = given /\ at = 1 /\ dropped = {} /\ cpc = "check" /\ prompt = <<>>
    /\ before = 0

Assemble(sources, without) ==
    FlattenSeq([i \in DOMAIN sources |->
                   IF sources[i].name \in without THEN <<>> ELSE sources[i].messages])

Inputs  == <<given, ceiling, summarises, keep>>
Over(tokens)   == ceiling # NoCeiling /\ tokens > ceiling
Fits(messages) == ~Over(Tokens(messages))

\* Without a ceiling, or under it, everything goes in and no model is asked.
Check ==
    /\ cpc = "check"
    /\ LET all == Assemble(given, {}) IN
       IF Fits(all)
       THEN cpc' = "sent" /\ prompt' = all
       ELSE cpc' = "loop" /\ UNCHANGED prompt
    /\ UNCHANGED <<Inputs, emitted, at, dropped, before>>

\* The loop's turn: a pinned or empty source stays, ...
Untouchable(source) == source.pinned \/ source.messages = <<>>
Keep ==
    /\ cpc = "loop" /\ at <= Len(emitted) /\ Untouchable(emitted[at])
    /\ at' = at + 1
    /\ UNCHANGED <<Inputs, emitted, dropped, cpc, prompt, before>>

\* ... another is summarised, or dropped by its name if there is no summariser;
\* and the loop ends once the rest fits.
GivenUp(touchable) == \E size \in Summaries :
    /\ cpc = "loop" /\ at <= Len(emitted) /\ touchable
    /\ IF summarises
       THEN /\ emitted' = [emitted EXCEPT ![at].messages = <<Summary(@[1].source, size)>>]
            /\ UNCHANGED dropped
       ELSE dropped' = dropped \cup {emitted[at].name} /\ UNCHANGED emitted
    /\ at' = at + 1 /\ before' = Tokens(Assemble(emitted, dropped))
    /\ cpc' = IF Fits(Assemble(emitted', dropped')) THEN "compact" ELSE "loop"
    /\ UNCHANGED <<Inputs, prompt>>
GiveUpAny == GivenUp(emitted[at].messages # <<>>)
GiveUp    == GivenUp(~Untouchable(emitted[at]))

LoopEnds ==
    /\ cpc = "loop" /\ at > Len(emitted) /\ cpc' = "compact"
    /\ UNCHANGED <<Inputs, emitted, at, dropped, prompt, before>>

\* compact: what is neither a system message nor among the last ones becomes one
\* summary, where the first of them stood.
Droppable(messages) ==
    {i \in 1 .. Len(messages) - keep : messages[i].role # "system"}
Compacted(messages, size) ==
    LET old   == Droppable(messages)
        first == CHOOSE i \in old : \A j \in old : i <= j
        piece == [i \in DOMAIN messages |->
                     IF i = first THEN <<Summary("history", size)>>
                     ELSE IF i \in old THEN <<>> ELSE <<messages[i]>>]
    IN  IF old = {} THEN messages ELSE FlattenSeq(piece)
Compact ==
    /\ cpc = "compact" /\ cpc' = "sent"
    /\ LET left == Assemble(emitted, dropped) IN
       IF summarises /\ ~Fits(left)
       THEN \E size \in Summaries : prompt' = Compacted(left, size)
       ELSE prompt' = left
    /\ UNCHANGED <<Inputs, emitted, at, dropped, before>>

\* A summary is a model call.  It fails: _compile_context sends the agent's own
\* messages.  It reaches the run's cap: that ends the run.
AsksModel ==
    LET left == Assemble(emitted, dropped) IN
    \/ cpc = "loop" /\ at <= Len(emitted) /\ ~Untouchable(emitted[at])
    \/ cpc = "compact" /\ ~Fits(left) /\ Droppable(left) # {}
SummaryFails ==
    /\ summarises /\ AsksModel
    /\ \/ cpc' = "asis" /\ prompt' = Assemble(given, {"first", "second", "recall"})
       \/ cpc' = "stopped" /\ UNCHANGED prompt
    /\ UNCHANGED <<Inputs, emitted, at, dropped, before>>

Next == Check \/ Keep \/ GiveUp \/ LoopEnds \/ Compact \/ SummaryFails

Spec == Init /\ [][Next]_contextVars

TypeOK ==
    /\ cpc \in {"check", "loop", "compact", "sent", "asis", "stopped"}
    /\ at \in 1 .. Len(given) + 1 /\ Len(emitted) = Len(given)
    /\ dropped \subseteq {given[i].name : i \in DOMAIN given}

-----------------------------------------------------------------------------
(* Properties *)

\* What a prompt over its ceiling gives up, and what never: the order of messages
\* stays; recalled memory, system messages and the last turns are in it; extra
\* sources go in their order, each only while the prompt was still over, and
\* turns of the conversation only when every extra source has gone
\* (context/compiler.py, compile_context; context/compaction.py, compact).
PromptKeeps ==
    LET whole   == Assemble(given, {})
        Gone    == {i \in DOMAIN whole : whole[i] \notin ToSet(prompt)}
        Added   == {i \in DOMAIN whole : whole[i].source \notin {"recall", "agent"}}
        Recent  == {j \in DOMAIN prompt :
                      \A k \in DOMAIN prompt : prompt[k].source = "history" => k < j}
    IN  cpc = "sent" =>
        /\ \A i \in DOMAIN prompt : prompt[i].place # 0 =>
              \E a \in DOMAIN whole : /\ prompt[i] = whole[a]
                                      /\ \A j \in 1 .. i - 1, b \in DOMAIN whole :
                                            prompt[j] = whole[b] => b < a
        /\ Gone # {} => ~Fits(whole)
        /\ Gone \cap Added # {} => Over(before)
        /\ \A i \in Gone \cap Added : \A j \in Added : j < i => j \in Gone
        /\ \A i \in Gone \ Added :
              /\ whole[i].role = "turn" /\ summarises /\ Added \subseteq Gone
              /\ Cardinality(Recent) >= keep
=============================================================================
