------------------------------ MODULE Scaffold ------------------------------
(***************************************************************************)
(* `lottie new` (scaffold/generator.py) for several units of one kind at   *)
(* once, each command a process: from templates, or from a description by  *)
(* a model and then behind the write gate (security/write_gate.py).  They  *)
(* share the parent package's __init__.py and LOTTIE.md, which `lottie     *)
(* status` rebuilds from what is on disk (project/lottie_md.py).  One      *)
(* command at a time works on a unit's directory.                          *)
(***************************************************************************)
EXTENDS Naturals, Sequences, FiniteSets

CONSTANTS
    Names,                       \* of units
    MaxCommands, MaxFaults       \* bounds: commands, commands cut short

\* What a model may write, and the step of the gate that finds it.
Qualities == {"good", "secret", "unsafe", "illtyped"}
Absent    == [quality |-> "none", written |-> "none"]
Whole     == [quality : Qualities, written : {"all"}]
Part      == [quality : Qualities, written : {"part"}]

VARIABLES
    unit,        \* each unit's directory
    parentInit,  \* agents/__init__.py
    listed,      \* the units of LOTTIE.md
    npc,         \* each unit's command: "idle", "plan", "write", "gate",
                 \* "register", "relist"
    described,   \* whether it is an AI scaffold
    attempt, created,      \* of generate_from_desc
    bandit,      \* whether the code scanner gives a report that can be read
    copy,        \* LOTTIE.md as the command read it
    answer,      \* what the last command said: "none", "ok", "refused", "failed"
    commands, faults

scaffoldVars == <<unit, parentInit, listed, npc, described, attempt, created, bandit, copy,
                  answer, commands, faults>>

TypeOK ==
    /\ unit \in [Names -> Whole \cup Part \cup {Absent}]
    /\ parentInit \in BOOLEAN /\ listed \subseteq Names
    /\ npc \in [Names -> {"idle", "plan", "write", "gate", "register", "relist"}]
    /\ attempt \in [Names -> 1 .. 2] /\ \A n \in Names : copy[n] \subseteq Names
    /\ answer \in [Names -> {"none", "ok", "refused", "failed"}]
    /\ commands \in 0 .. MaxCommands

Init ==
    /\ unit = [n \in Names |-> Absent] /\ listed = {}
    /\ parentInit \in BOOLEAN /\ bandit \in BOOLEAN
    /\ npc = [n \in Names |-> "idle"] /\ described = [n \in Names |-> FALSE]
    /\ attempt = [n \in Names |-> 1] /\ created = [n \in Names |-> FALSE]
    /\ copy = [n \in Names |-> {}] /\ answer = [n \in Names |-> "none"]
    /\ commands = 0 /\ faults = 0

Goto(n, label) == npc' = [npc EXCEPT ![n] = label]
Say(n, word)   == answer' = [answer EXCEPT ![n] = word]
Count          == commands < MaxCommands /\ commands' = commands + 1

\* generate: the names and the directory are checked, everything is rendered
\* before the first write, and there is no gate.
Generate(n) ==
    /\ npc[n] = "idle" /\ Count
    /\ \/ unit[n] = Absent /\ Goto(n, "write")
          /\ described' = [described EXCEPT ![n] = FALSE] /\ Say(n, "none")
       \/ Say(n, "failed") /\ UNCHANGED <<npc, described>>
    /\ UNCHANGED <<unit, parentInit, listed, attempt, created, bandit, copy, faults>>

\* generate_from_desc makes sure of the parent package, and remembers whether it
\* made it.
Describe(n) ==
    /\ npc[n] = "idle" /\ Count
    /\ IF unit[n] = Absent
       THEN /\ Goto(n, "plan") /\ Say(n, "none") /\ parentInit' = TRUE
            /\ described' = [described EXCEPT ![n] = TRUE]
            /\ created' = [created EXCEPT ![n] = ~parentInit]
            /\ attempt' = [attempt EXCEPT ![n] = 1]
       ELSE /\ Say(n, "failed") /\ UNCHANGED <<npc, parentInit, described, created, attempt>>
    /\ UNCHANGED <<unit, listed, bandit, copy, faults>>

\* The model's plan is rendered; a failing call, an unusable plan or a template
\* error ends the command, which leaves the parent package as it is.
Plan(n) ==
    /\ npc[n] = "plan"
    /\ \/ Goto(n, "write") /\ UNCHANGED answer
       \/ Goto(n, "idle") /\ Say(n, "failed")
    /\ UNCHANGED <<unit, parentInit, listed, described, attempt, created, bandit, copy, commands,
                   faults>>

\* The files, one after the other.
Write(n) ==
    /\ npc[n] = "write"
    /\ IF unit[n] = Absent
       THEN /\ \E q \in IF described[n] THEN Qualities ELSE {"good"} :
                  unit' = [unit EXCEPT ![n] = [quality |-> q, written |-> "part"]]
            /\ UNCHANGED npc
       ELSE /\ unit' = [unit EXCEPT ![n].written = "all"]
            /\ Goto(n, IF described[n] THEN "gate" ELSE "register")
    /\ UNCHANGED <<parentInit, listed, described, attempt, created, bandit, copy, answer,
                   commands, faults>>

\* Secrets, unsafe code (if bandit can tell), types and lint: one finding removes
\* the directory.  Once the findings go back to the model; then the parent package
\* is taken back.
Findings(quality)  == quality = "secret" \/ (quality = "unsafe" /\ bandit)
Diagnostics(quality) == quality = "illtyped"
Gated(n, lints) ==
    /\ npc[n] = "gate"
    /\ IF ~Findings(unit[n].quality) /\ (lints => ~Diagnostics(unit[n].quality))
       THEN Goto(n, "register") /\ UNCHANGED <<unit, attempt, parentInit, answer>>
       ELSE /\ unit' = [unit EXCEPT ![n] = Absent]
            /\ IF attempt[n] = 1
               THEN /\ attempt' = [attempt EXCEPT ![n] = 2] /\ Goto(n, "plan")
                    /\ UNCHANGED <<parentInit, answer>>
               ELSE /\ Goto(n, "idle") /\ Say(n, "refused") /\ UNCHANGED attempt
                    /\ parentInit' = (parentInit /\ ~created[n])
    /\ UNCHANGED <<listed, described, created, bandit, copy, commands, faults>>
GateFindingsOnly(n) == Gated(n, FALSE)
Gate(n) == Gated(n, TRUE)

\* _update_lottie_md reads the file and writes it back with the unit's line.
Register(n) ==
    /\ npc[n] = "register" /\ Goto(n, "relist")
    /\ copy' = [copy EXCEPT ![n] = listed]
    /\ UNCHANGED <<unit, parentInit, listed, described, attempt, created, bandit, answer,
                   commands, faults>>
Relist(n) ==
    /\ npc[n] = "relist" /\ Goto(n, "idle") /\ Say(n, "ok")
    /\ listed' = copy[n] \cup {n} /\ copy' = [copy EXCEPT ![n] = {}]
    /\ UNCHANGED <<unit, parentInit, described, attempt, created, bandit, commands, faults>>

\* lottie status: the units that have their entry file (which the files written
\* first include, or not).
Sync ==
    /\ \E parts \in SUBSET {n \in Names : unit[n] \in Part} :
          listed' = {n \in Names : unit[n] \in Whole} \cup parts
    /\ UNCHANGED <<unit, parentInit, npc, described, attempt, created, bandit, copy, answer,
                   commands, faults>>

\* The user removes a unit, or a directory that a dead command left.
Remove(n) ==
    /\ npc[n] = "idle" /\ unit[n] # Absent /\ Say(n, "none")
    /\ unit' = [unit EXCEPT ![n] = Absent]
    /\ UNCHANGED <<parentInit, listed, npc, described, attempt, created, bandit, copy, commands,
                   faults>>

\* The process dies, or an error or a Ctrl-C leaves the write or the gate: nothing
\* is rolled back.
CutShort(n) ==
    /\ npc[n] # "idle" /\ faults < MaxFaults /\ faults' = faults + 1
    /\ Goto(n, "idle")
    /\ UNCHANGED <<unit, parentInit, listed, described, attempt, created, bandit, copy, answer,
                   commands>>

Next ==
    \/ \E n \in Names :
          \/ Generate(n) \/ Describe(n) \/ Plan(n) \/ Write(n) \/ Gate(n)
          \/ Register(n) \/ Relist(n) \/ Remove(n) \/ CutShort(n)
    \/ Sync

Spec == Init /\ [][Next]_scaffoldVars

-----------------------------------------------------------------------------
(* Properties *)

\* What a model wrote stays on disk only whole and through every step of the gate
\* that could run: a command that has ended, or is about to list its unit, leaves a
\* unit that passed, or nothing, also behind a second attempt; only one that was cut
\* short leaves less (security/write_gate.py, scaffold/generator.py).
Passed == {u \in Whole : u.quality = "good" \/ (u.quality = "unsafe" /\ ~bandit)}
OnlyGatedStays == \A n \in Names :
    /\ npc[n] \in {"register", "relist"} \/ answer[n] = "ok" => unit[n] \in Passed
    /\ npc[n] = "idle" /\ answer[n] = "refused" => unit[n] = Absent
    /\ npc[n] \in {"idle", "plan"} /\ faults = 0 => unit[n] \in Passed \cup {Absent}
=============================================================================
