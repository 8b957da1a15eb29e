----------------------------- MODULE StreamGate -----------------------------
(***************************************************************************)
(* The secret gate over a stream of deltas (serve/stream_gate.py).  It     *)
(* holds text back until a newline completes a line, scans the line whole, *)
(* and only then lets it out.  A text is a sequence of the few characters  *)
(* that the gate tells apart; the scanner (detect-secrets) flags a text in *)
(* which SecretHead and SecretTail stand next to each other, and like its  *)
(* plugins it never looks across a newline.                                *)
(***************************************************************************)
EXTENDS Integers, Sequences, SequencesExt

CONSTANTS
    Newline, SecretHead, SecretTail,   \* characters
    MaxLine                            \* _MAX_LINE, in characters

ASSUME GateAssumption ==
    /\ MaxLine \in Nat
    /\ Newline \notin {SecretHead, SecretTail}

HasSecret(text) ==
    \E i \in 1 .. Len(text) - 1 : text[i] = SecretHead /\ text[i + 1] = SecretTail

\* "\n" in buffer
Complete(buffer) == \E i \in DOMAIN buffer : buffer[i] = Newline
\* The first line with its newline, and what follows it.
LineEnd(buffer)  == CHOOSE i \in DOMAIN buffer :
                        /\ buffer[i] = Newline
                        /\ \A j \in 1 .. i - 1 : buffer[j] # Newline
FirstLine(buffer) == SubSeq(buffer, 1, LineEnd(buffer))
AfterLine(buffer) == SubSeq(buffer, LineEnd(buffer) + 1, Len(buffer))
TooLong(buffer)   == ~Complete(buffer) /\ Len(buffer) > MaxLine

-----------------------------------------------------------------------------
(* What a whole-text scan would let out, against which the gate is judged. *)

\* out is made of whole lines of text (its last line may lack the newline).
WholeLines(out, text) ==
    /\ IsPrefix(out, text)
    /\ out = text \/ out = <<>> \/ Last(out) = Newline
\* The line of text that follows out.
NextLine(out, text) ==
    LET rest == SubSeq(text, Len(out) + 1, Len(text))
    IN  IF Complete(rest) THEN FirstLine(rest) ELSE rest
=============================================================================
