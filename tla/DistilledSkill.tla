--------------------------- MODULE DistilledSkill ---------------------------
(***************************************************************************)
(* One distilled skill on its way from draft to promotion                  *)
(* (distill/store.py, cli/distill.py): `lottie distill run` writes a draft *)
(* that an LLM authored, a human may edit it on disk, and `lottie distill  *)
(* review` rejects it or promotes it under a capability.  Each of a        *)
(* directory's files is written by a step of its own, and either process   *)
(* may die between two of them.  SKILL.md, which nothing reads, is left    *)
(* out.                                                                    *)
(***************************************************************************)
EXTENDS Integers, FiniteSets

CONSTANTS
    Capabilities,    \* what a reviewer may grant
    None,
    MaxDistills, MaxReviews, MaxEdits, MaxDeaths    \* bounds

Texts     == {"fine", "flagged"}   \* of a template: the screen flags one
Versions  == 1 .. MaxDistills      \* minor versions
Templates == [text : Texts, version : Versions,
              capability : Capabilities \cup {None}]
Provenances == [version : Versions] \cup {[version |-> None]}

VARIABLES
    draft, draftProv,               \* skills/draft/<name>: template, provenance
    promoted, promotedProv, record, \* skills/distilled/<name>, with promotion.yaml
    dpc, authored,                  \* distill run: its step, the skill it authored
    rpc, loaded, loadedProv,        \* review: its step, what it loaded
    granted,                        \* capabilities that reviewers gave
    distills, reviews, edits, deaths

draftVars    == <<draft, draftProv>>
promotedVars == <<promoted, promotedProv, record>>
distillVars  == <<dpc, authored, distills>>
reviewVars   == <<rpc, loaded, loadedProv, granted, reviews>>
skillVars    == <<draftVars, promotedVars, distillVars, reviewVars, edits, deaths>>

TypeOK ==
    /\ draft \in Templates \cup {None} /\ promoted \in Templates \cup {None}
    /\ {draftProv, promotedProv} \subseteq Provenances \cup {None}
    /\ record \in [capability : Capabilities, version : Versions] \cup {None}
    /\ dpc \in {"idle", "call", "template", "provenance"}
    /\ authored \in Templates \cup {None}
    /\ rpc \in {"idle", "template", "provenance", "record", "remove"}
    /\ loaded \in Templates \cup {None} /\ loadedProv \in Provenances \cup {None}
    /\ granted \subseteq Capabilities
    /\ distills \in 0 .. MaxDistills /\ reviews \in 0 .. MaxReviews
    /\ edits \in 0 .. MaxEdits /\ deaths \in 0 .. MaxDeaths

Init ==
    /\ draft = None /\ draftProv = None
    /\ promoted = None /\ promotedProv = None /\ record = None
    /\ dpc = "idle" /\ authored = None
    /\ rpc = "idle" /\ loaded = None /\ loadedProv = None /\ granted = {}
    /\ distills = 0 /\ reviews = 0 /\ edits = 0 /\ deaths = 0

Flagged(template) == template.text = "flagged"

-----------------------------------------------------------------------------
(* lottie distill run *)

\* The version follows that of the draft on disk; a promoted one is not asked.
Distill ==
    /\ dpc = "idle" /\ distills < MaxDistills /\ distills' = distills + 1
    /\ dpc' = "call"
    /\ authored' = [text |-> "fine", capability |-> None,
                    version |-> IF draft = None THEN 1 ELSE draft.version + 1]
    /\ UNCHANGED <<draftVars, promotedVars, reviewVars, edits, deaths>>

\* The LLM's reply: unusable, rejected by the screen, or a skill, whose fields
\* may include a capability.
Author ==
    /\ dpc = "call"
    /\ \/ /\ dpc' = "template"
          /\ \E c \in Capabilities \cup {None} : authored' = [authored EXCEPT !.capability = c]
       \/ dpc' = "idle" /\ authored' = None
    /\ UNCHANGED <<draftVars, promotedVars, reviewVars, distills, edits, deaths>>

WriteTemplate ==
    /\ dpc = "template" /\ dpc' = "provenance"
    /\ draft' = authored
    /\ UNCHANGED <<draftProv, promotedVars, authored, distills, reviewVars, edits,
                   deaths>>
WriteProvenance ==
    /\ dpc = "provenance" /\ dpc' = "idle" /\ authored' = None
    \* The directory is gone if the draft was promoted or rejected meanwhile.
    /\ draftProv' = IF draft = None THEN draftProv ELSE [version |-> authored.version]
    /\ UNCHANGED <<draft, promotedVars, distills, reviewVars, edits, deaths>>

\* Somebody edits the draft's template.
Edit ==
    /\ draft # None /\ edits < MaxEdits /\ edits' = edits + 1
    /\ \E t \in Texts : draft' = [draft EXCEPT !.text = t]
    /\ UNCHANGED <<draftProv, promotedVars, distillVars, reviewVars, deaths>>

-----------------------------------------------------------------------------
(* lottie distill review *)

Reviewing == rpc = "idle" /\ reviews < MaxReviews /\ reviews' = reviews + 1

\* promote() loads the draft, needs a capability, and screens it again.
Approve(rescreened) == \E c \in Capabilities \cup {None} :
    /\ Reviewing /\ draft # None
    /\ IF c = None \/ (rescreened /\ Flagged(draft))
       THEN UNCHANGED <<rpc, loaded, loadedProv, granted>>
       ELSE /\ rpc' = "template" /\ granted' = granted \cup {c}
            /\ loaded' = [draft EXCEPT !.capability = c]
            /\ loadedProv' = IF draftProv = None THEN [version |-> draft.version]
                             ELSE draftProv
    /\ UNCHANGED <<draftVars, promotedVars, distillVars, edits, deaths>>
PromoteTrusting == Approve(FALSE)
Promote == Approve(TRUE)

\* The files of skills/distilled/<name>, one after the other.
PutTemplate ==
    /\ rpc = "template" /\ rpc' = "provenance" /\ promoted' = loaded
    /\ UNCHANGED <<draftVars, promotedProv, record, distillVars, loaded, loadedProv,
                   granted, reviews, edits, deaths>>
PutProvenance ==
    /\ rpc = "provenance" /\ rpc' = "record" /\ promotedProv' = loadedProv
    /\ UNCHANGED <<draftVars, promoted, record, distillVars, loaded, loadedProv,
                   granted, reviews, edits, deaths>>
RemoveUnrecorded ==
    /\ rpc = "record" /\ rpc' = "remove"
    /\ draft' = None /\ draftProv' = None
    /\ UNCHANGED <<promotedVars, distillVars, loaded, loadedProv, granted, reviews,
                   edits, deaths>>
PutRecord ==
    /\ rpc = "record" /\ rpc' = "remove"
    /\ record' = [capability |-> loaded.capability, version |-> loaded.version]
    /\ UNCHANGED <<draftVars, promoted, promotedProv, distillVars, loaded,
                   loadedProv, granted, reviews, edits, deaths>>
\* shutil.rmtree takes whatever is the draft by now.
RemoveDraft ==
    /\ rpc = "remove" /\ rpc' = "idle" /\ loaded' = None /\ loadedProv' = None
    /\ draft' = None /\ draftProv' = None
    /\ UNCHANGED <<promotedVars, distillVars, granted, reviews, edits, deaths>>

Reject ==
    /\ Reviewing /\ draft # None
    /\ draft' = None /\ draftProv' = None
    /\ UNCHANGED <<promotedVars, distillVars, rpc, loaded, loadedProv, granted, edits,
                   deaths>>

\* One of the two processes dies.
Die ==
    /\ deaths < MaxDeaths /\ deaths' = deaths + 1
    /\ \/ /\ dpc # "idle" /\ dpc' = "idle" /\ authored' = None
          /\ UNCHANGED <<rpc, loaded, loadedProv>>
       \/ /\ rpc # "idle" /\ rpc' = "idle" /\ loaded' = None /\ loadedProv' = None
          /\ UNCHANGED <<dpc, authored>>
    /\ UNCHANGED <<draftVars, promotedVars, distills, granted, reviews, edits>>

Next ==
    \/ Distill \/ Author \/ WriteTemplate \/ WriteProvenance \/ Edit
    \/ Promote \/ PutTemplate \/ PutProvenance \/ PutRecord \/ RemoveDraft
    \/ Reject \/ Die

Spec == Init /\ [][Next]_skillVars

-----------------------------------------------------------------------------
(* Properties *)

\* What agents run has passed the screen in the state it ships in, and carries
\* a capability that a reviewer gave and not one that the model proposed, whatever
\* was edited, distilled again or cut short in between (distill/store.py, promote).
PromotedIsReviewed ==
    promoted # None => ~Flagged(promoted) /\ promoted.capability \in granted

Whole == /\ promoted # None /\ promotedProv # None /\ record # None
         /\ record.capability = promoted.capability
         /\ record.version = promoted.version

\* A draft leaves the disk by a rejection, or when the promotion stands whole:
\* template, provenance, and the record of this decision.  A process that dies
\* in the middle loses neither (distill/store.py, promote's order of writes).
DraftKept == draft # None /\ draft' = None => reviews' > reviews \/ Whole
ApprovedNotLost == [][DraftKept]_skillVars
=============================================================================
