---------------------------- MODULE SessionStore ----------------------------
(***************************************************************************)
(* A session of `lottie run --session`: the progress an agent saves in a   *)
(* run and finds again in the next, and the list of its runs, in one JSON  *)
(* file (session/store.py, session/middleware.py, and save_progress in     *)
(* core/base_agent.py).  Each run is a process: it loads the file when it  *)
(* begins, keeps its own copy, and writes the whole copy at every save, by *)
(* truncating the file and writing it, with no lock.                       *)
(***************************************************************************)
EXTENDS Integers, Sequences, FiniteSets, SequencesExt

CONSTANTS
    Runs,           \* processes, each one run of the session's agent
    MaxKeys,        \* bound: keys of the progress
    MaxSaves,       \* bound: save_progress calls of a run
    NoFile, Torn    \* no state.json, and one that does not parse

\* What an agent may save.  Each half passes the screen alone, and is flagged
\* when the second follows the first.
Values == {"half1", "half2", "flagged"}
States == [progress : UNION {[1 .. n -> Values] : n \in 0 .. MaxKeys}, runs : Seq(Runs)]

VARIABLES
    file,         \* state.json
    spc,          \* each run: "new", "open", "write", "over", "died"
    copy,         \* BaseAgent._session
    back,         \* where the save being made returns to
    saves,        \* save_progress calls made
    disturbed     \* a run overlapped another, died, or had progress rejected,
                  \* or the session was deleted

sessionVars == <<file, spc, copy, back, saves, disturbed>>

Empty == [progress |-> <<>>, runs |-> <<>>]

TypeOK ==
    /\ file \in States \cup {NoFile, Torn}
    /\ spc \in [Runs -> {"new", "open", "write", "over", "died"}]
    /\ copy \in [Runs -> States]
    /\ back \in [Runs -> {"open", "over"}]
    /\ saves \in [Runs -> 0 .. MaxSaves] /\ disturbed \in BOOLEAN

Init ==
    /\ file = NoFile /\ spc = [r \in Runs |-> "new"]
    /\ copy = [r \in Runs |-> Empty] /\ back = [r \in Runs |-> "open"]
    /\ saves = [r \in Runs |-> 0] /\ disturbed = FALSE

InFlight == {r \in Runs : spc[r] \in {"open", "write"}}

\* set_session: the file is loaded, or a fresh state made; one that does not
\* parse fails the command.
Open(r) ==
    /\ spc[r] = "new"
    /\ spc' = [spc EXCEPT ![r] = IF file = Torn THEN "over" ELSE "open"]
    /\ copy' = [copy EXCEPT ![r] = IF file \in {NoFile, Torn} THEN Empty ELSE file]
    /\ disturbed' = (disturbed \/ file = Torn \/ InFlight # {})
    /\ UNCHANGED <<file, back, saves>>

\* SessionStore.save screens the serialised state, then the values joined.
Serialised(progress) == \E i \in DOMAIN progress : progress[i] = "flagged"
Joined(progress) ==
    \/ Serialised(progress)
    \/ \E i \in 1 .. Len(progress) - 1 :
          progress[i] = "half1" /\ progress[i + 1] = "half2"
Rejected(progress) == Serialised(progress) \/ Joined(progress)

\* A save: rejected, it raises to the caller; else the file is truncated.
Save(r, state, ret) ==
    /\ copy' = [copy EXCEPT ![r] = state]
    /\ IF Rejected(state.progress)
       THEN /\ spc' = [spc EXCEPT ![r] = ret]
            /\ disturbed' = TRUE /\ UNCHANGED <<file, back>>
       ELSE /\ spc' = [spc EXCEPT ![r] = "write"] /\ file' = Torn
            /\ back' = [back EXCEPT ![r] = ret] /\ UNCHANGED disturbed

\* save_progress: the copy has the new value before the screen has seen it, and
\* keeps it.
Merged(progress) ==
    {[progress EXCEPT ![i] = v] : i \in DOMAIN progress, v \in Values}
        \cup (IF Len(progress) < MaxKeys
              THEN {Append(progress, v) : v \in Values} ELSE {})
SaveProgress(r) ==
    /\ spc[r] = "open" /\ saves[r] < MaxSaves
    /\ saves' = [saves EXCEPT ![r] = @ + 1]
    /\ \E p \in Merged(copy[r].progress) :
          Save(r, [copy[r] EXCEPT !.progress = p], "open")

\* SessionMiddleware: the run ends, well or not, and is recorded; a rejected
\* save is only warned of.
EndForgetful(r) ==
    /\ spc[r] = "open"
    /\ Save(r, [copy[r] EXCEPT !.runs = <<r>>], "over")
    /\ UNCHANGED saves
End(r) ==
    /\ spc[r] = "open"
    /\ Save(r, [copy[r] EXCEPT !.runs = Append(@, r)], "over")
    /\ UNCHANGED saves

\* The truncated file gets its contents.  If another run wrote it in between,
\* this one's bytes go over the other's and the tail of a longer text stays; if
\* the session was deleted, they go nowhere.
Write(r) ==
    /\ spc[r] = "write"
    /\ file' \in (IF file = NoFile THEN {NoFile}
                  ELSE IF file = Torn THEN {copy[r]} ELSE {copy[r], Torn})
    /\ spc' = [spc EXCEPT ![r] = back[r]]
    /\ UNCHANGED <<copy, back, saves, disturbed>>

\* The run's process dies.
Die(r) ==
    /\ r \in InFlight
    /\ spc' = [spc EXCEPT ![r] = "died"] /\ disturbed' = TRUE
    /\ UNCHANGED <<file, copy, back, saves>>

\* lottie session delete
Delete ==
    /\ file # NoFile /\ file' = NoFile /\ disturbed' = TRUE
    /\ UNCHANGED <<spc, copy, back, saves>>

Next ==
    \/ \E r \in Runs : Open(r) \/ SaveProgress(r) \/ End(r) \/ Write(r) \/ Die(r)
    \/ Delete

Spec == Init /\ [][Next]_sessionVars

-----------------------------------------------------------------------------
(* Properties *)

\* However several runs merge their progress, no file carries a text that the
\* screen flags, whole or in two values that a reader would join.  And unless runs
\* overlap, die, delete the session or save what is rejected, every run that
\* ended is listed (the list is read, copied, saved with every progress, and read
\* again by the next run; session/store.py, start and the two passes of save).
RunsKept ==
    LET ended == {r \in Runs : spc[r] = "over"}
        kept  == IF file = NoFile THEN <<>> ELSE file.runs
    IN  /\ file \notin {NoFile, Torn} => ~Joined(file.progress)
        /\ ~disturbed /\ InFlight = {} =>
              /\ file # Torn
              /\ Len(kept) = Cardinality(ended)
              /\ {kept[i] : i \in DOMAIN kept} = ended
=============================================================================
