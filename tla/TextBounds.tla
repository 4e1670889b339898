----------------------------- MODULE TextBounds -----------------------------
(***************************************************************************)
(* The server's bounds on text, evaluated on every short string: the tail  *)
(* kept of observed output, the fields and close reasons cut at a rune     *)
(* boundary and the line count (internal/server/runs.go,                   *)
(* terminalroute.go).                                                      *)
(*                                                                         *)
(* A byte is "a" (a one-byte rune), "nl" (a newline), "l" (the first byte  *)
(* of a two-byte rune) or "c" (a continuation byte).                       *)
(***************************************************************************)
EXTENDS Integers, Sequences, SequencesExt

CONSTANT MaxBytes   \* bound: length of the strings

BoundsAssumption == MaxBytes \in Nat

VARIABLES text   \* the string under the functions

Bytes == {"a", "nl", "l", "c"}
Limits == 0 .. MaxBytes

RuneStart(b) == b # "c"

Init == text = <<>>

Next ==
    /\ Len(text) < MaxBytes
    /\ \E b \in Bytes : text' = Append(text, b)

Spec == Init /\ [][Next]_text

-----------------------------------------------------------------------------
(* utf8.ValidString: every lead byte has its one continuation. *)
ValidString(s) ==
    \A i \in DOMAIN s :
        /\ s[i] = "l" => i < Len(s) /\ s[i + 1] = "c"
        /\ s[i] = "c" => i > 1 /\ s[i - 1] = "l"

RECURSIVE DropPartialRune(_)
DropPartialRune(s) ==
    IF s = <<>> \/ RuneStart(Head(s)) THEN s ELSE DropPartialRune(Tail(s))

(* Mutant: the tail starts wherever the limit falls. *)
BoundObservedTextRaw(s, max) ==
    IF max <= 0 \/ Len(s) <= max THEN [text |-> s, truncated |-> FALSE]
    ELSE [text |-> SubSeq(s, Len(s) - max + 1, Len(s)), truncated |-> TRUE]

BoundObservedText(s, max) ==
    IF max <= 0 \/ Len(s) <= max THEN [text |-> s, truncated |-> FALSE]
    ELSE [text |-> DropPartialRune(SubSeq(s, Len(s) - max + 1, Len(s))),
          truncated |-> TRUE]

RECURSIVE CutAt(_, _)
CutAt(s, cut) ==
    IF cut > 0 /\ ~RuneStart(s[cut + 1]) THEN CutAt(s, cut - 1) ELSE cut

TruncateUTF8(s, max) ==
    IF Len(s) <= max THEN s ELSE SubSeq(s, 1, CutAt(s, max))

RECURSIVE TrimInvalid(_)
TrimInvalid(s) ==
    IF s = <<>> \/ ValidString(s) THEN s ELSE TrimInvalid(Front(s))

TruncateCloseReason(s, max) ==
    IF Len(s) <= max /\ ValidString(s) THEN s
    ELSE TrimInvalid(SubSeq(s, 1, IF Len(s) > max THEN max ELSE Len(s)))

Newlines(s) == Len(SelectSeq(s, LAMBDA b : b = "nl"))

CountLines(s) ==
    IF s = <<>> THEN 0
    ELSE Newlines(s) + (IF Last(s) = "nl" THEN 0 ELSE 1)

-----------------------------------------------------------------------------
(* Splits off as many runes as fit; the reference for both cuts. *)
ValidPrefixes(s) == {k \in 0 .. Len(s) : ValidString(SubSeq(s, 1, k))}
ValidSuffixes(s) == {k \in 0 .. Len(s) : ValidString(SubSeq(s, Len(s) - k + 1, Len(s)))}
Largest(S, max) == CHOOSE k \in S : k <= max /\ \A j \in S : j <= max => j <= k

(***************************************************************************)
(* The observed output a run carries is the longest valid suffix within    *)
(* the limit, and truncated says exactly whether something is missing.     *)
(***************************************************************************)
TailIsLongest ==
    ValidString(text) =>
        \A max \in Limits \ {0} :
            LET r == BoundObservedText(text, max)
            IN /\ Len(r.text) = Largest(ValidSuffixes(text), max)
               /\ IsSuffix(r.text, text) /\ ValidString(r.text)
               /\ r.truncated <=> r.text # text

(***************************************************************************)
(* A display field is cut to the longest valid prefix within the limit.    *)
(***************************************************************************)
CutIsLongest ==
    ValidString(text) =>
        \A max \in Limits :
            LET r == TruncateUTF8(text, max)
            IN /\ IsPrefix(r, text) /\ ValidString(r)
               /\ Len(r) = Largest(ValidPrefixes(text), max)

(***************************************************************************)
(* A close reason, valid or not, comes out as the longest valid prefix     *)
(* within the limit the library enforces.                                  *)
(***************************************************************************)
ReasonIsLegal ==
    \A max \in Limits :
        LET r == TruncateCloseReason(text, max)
        IN IsPrefix(r, text) /\ Len(r) = Largest(ValidPrefixes(text), max)

(***************************************************************************)
(* The line count is the number of maximal pieces a line ends, or the text *)
(* does.                                                                   *)
(***************************************************************************)
LinesAreEnds ==
    CountLines(text) =
        Len(SelectSeq([i \in DOMAIN text |->
                        text[i] = "nl" \/ i = Len(text)], LAMBDA b : b))
=============================================================================
