----------------------------- MODULE AnsiFilter -----------------------------
(***************************************************************************)
(* The streaming terminal filter (security/ansi.go) that every byte of     *)
(* controller output passes.  Its state is the parser state, the sequence  *)
(* it holds back, a count and the UTF-8 bytes still expected; it survives  *)
(* between calls, so a stream is a sequence of bytes however it is cut.    *)
(* With the two buffer bounds small the state is finite, and TLC covers    *)
(* streams of any length.                                                  *)
(*                                                                         *)
(* The output feeds two observers: a second filter, and a terminal that    *)
(* reads bytes the way the filter's documentation classifies them.  A      *)
(* third reads the input.  Bytes are named members of the classes that the *)
(* code tells apart; a run chooses which of them occur.                    *)
(***************************************************************************)
EXTENDS Naturals, Sequences, FiniteSets, SequencesExt

CONSTANTS
    Bytes,      \* the bytes that occur in the stream
    MaxSeq,     \* maxSeq
    MaxStr      \* maxStr

Digit == {"0", "2", "5", "8"}
Parameter == Digit \cup {"?", ">"}                       \* 0x30-0x3F
Intermediate == {"SP", "$", "*"}                         \* 0x20-0x2F
Final == {"[", "]", "P", "Z", "BSL", "m", "n", "p", "q", "x", "y"}   \* 0x40-0x7E
C0 == {"ESC", "ENQ", "BEL", "CAN"}                       \* below 0x20
C1 == {"CSI", "OSC", "DCS", "ST", "NEL"}                 \* 0x80-0x9F
Continuation == C1 \cup {"A5"}                           \* 0x80-0xBF
Lead == {"C2", "E2"}                                     \* 0xC0 and above

AnsiAssumption ==
    /\ Bytes \subseteq Parameter \cup Intermediate \cup Final \cup C0 \cup Continuation
                       \cup Lead \cup {"DEL"}
    /\ MaxSeq \in Nat /\ MaxStr \in Nat

utf8Continuation(lead) == IF lead = "E2" THEN 2 ELSE 1

-----------------------------------------------------------------------------
(* Which complete sequences are dropped. *)

(* Mutant: the intermediate that makes a query of "p" is ignored. *)
csiShouldStripFinal(seq) == Last(seq) = "n"

csiShouldStrip(seq) ==
    LET mid == Range(SubSeq(seq, 3, Len(seq) - 1))
    IN  CASE Last(seq) = "n" -> TRUE
          [] Last(seq) = "p" -> "$" \in mid
          [] Last(seq) = "q" -> ">" \in mid /\ "SP" \notin mid
          [] Last(seq) = "x" -> "$" \notin mid
          [] Last(seq) = "y" -> "*" \in mid
          [] OTHER -> FALSE

Value(d) == CASE d = "0" -> 0 [] d = "2" -> 2 [] d = "5" -> 5 [] d = "8" -> 8

(* The number a payload starts with, or -1 (as a set: {}). *)
Code(payload) ==
    LET n == CHOOSE k \in 0..Len(payload) :
                /\ \A i \in 1..k : payload[i] \in Digit
                /\ k < Len(payload) => payload[k + 1] \notin Digit
    IN  IF n = 0 THEN {}
        ELSE {FoldLeft(LAMBDA c, d : c * 10 + Value(d), 0, SubSeq(payload, 1, n))}

(* payload: between the introducer and the terminator. *)
oscShouldStrip(payload) ==
    \/ Code(payload) \cap {0, 1, 2, 8, 52} # {}
    \/ "?" \in Range(payload)

-----------------------------------------------------------------------------
(* One byte through the filter: the filter it leaves and the bytes it emits. *)

Ground == [state |-> "ground", seq |-> <<>>, strN |-> 0, utf8 |-> 0]

Keep(f, state, seq) == [f |-> [f EXCEPT !.state = state, !.seq = seq], out |-> <<>>]
Drop == [f |-> Ground, out |-> <<>>]
Emit(out) == [f |-> Ground, out |-> out]

(* stGround, with no continuation byte expected. *)
FromGround(b) ==
    CASE b = "ESC" -> Keep(Ground, "esc", <<"ESC">>)
      [] b = "CSI" -> Keep(Ground, "csi", <<"ESC", "[">>)
      [] b = "OSC" -> Keep(Ground, "osc", <<"ESC", "]">>)
      [] b = "DCS" -> Keep(Ground, "str", <<>>)
      [] b \in {"ENQ", "ST", "NEL"} -> Drop
      [] b \in Lead -> [f |-> [Ground EXCEPT !.utf8 = utf8Continuation(b)], out |-> <<b>>]
      [] OTHER -> Emit(<<b>>)

stGround(f, b) ==
    IF f.utf8 > 0 /\ b \in Continuation
    THEN [f |-> [f EXCEPT !.utf8 = @ - 1], out |-> <<b>>]
    ELSE FromGround(b)

stEsc(f, b) ==
    CASE b = "[" -> Keep(f, "csi", Append(f.seq, b))
      [] b = "]" -> Keep(f, "osc", Append(f.seq, b))
      [] b = "P" -> Keep(Ground, "str", <<>>)
      [] b = "Z" -> Drop
      [] b = "ESC" -> Keep(f, "esc", <<b>>)
      [] b \in Intermediate -> Keep(f, "escint", Append(f.seq, b))
      [] b \in Parameter \cup Final -> Emit(Append(f.seq, b))
      [] OTHER -> FromGround(b)

(* A sequence that outgrows the bound is dropped with its last byte. *)
Grow(f, b) == IF Len(f.seq) < MaxSeq THEN Keep(f, f.state, Append(f.seq, b)) ELSE Drop

stEscInt(f, b) ==
    CASE b \in Intermediate -> Grow(f, b)
      [] b \in Parameter \cup Final -> Emit(Append(f.seq, b))
      [] b = "ESC" -> Keep(f, "esc", <<b>>)
      [] OTHER -> FromGround(b)

stCSI(f, b) ==
    CASE b \in Parameter \cup Intermediate -> Grow(f, b)
      [] b \in Final ->
            LET seq == Append(f.seq, b) IN IF csiShouldStrip(seq) THEN Drop ELSE Emit(seq)
      [] b = "ESC" -> Keep(f, "esc", <<b>>)
      [] OTHER -> FromGround(b)

Payload(f) == SubSeq(f.seq, 3, Len(f.seq))

(* Any other control cancels the string and is read again from ground. *)
stOSC(f, b) ==
    CASE b \in {"BEL", "ST"} ->
            IF oscShouldStrip(Payload(f)) THEN Drop ELSE Emit(Append(f.seq, "BEL"))
      [] b = "ESC" -> Keep(f, "oscesc", f.seq)
      [] b \in C0 \cup C1 \cup {"DEL"} -> FromGround(b)
      [] OTHER -> Grow(f, b)

stOSCEsc(f, b) ==
    IF b = "BSL"
    THEN IF oscShouldStrip(Payload(f)) THEN Drop ELSE Emit(f.seq \o <<"ESC", b>>)
    ELSE FromGround(b)

stStr(f, b) ==
    CASE b \in {"BEL", "ST"} -> Drop
      [] b = "ESC" -> Keep(f, "stresc", <<>>)
      [] f.strN < MaxStr -> [f |-> [f EXCEPT !.strN = @ + 1], out |-> <<>>]
      [] OTHER -> Drop

stStrEsc(f, b) == IF b = "BSL" THEN Drop ELSE FromGround(b)

Filter(f, b) ==
    CASE f.state = "ground" -> stGround(f, b)
      [] f.state = "esc" -> stEsc(f, b)
      [] f.state = "escint" -> stEscInt(f, b)
      [] f.state = "csi" -> stCSI(f, b)
      [] f.state = "osc" -> stOSC(f, b)
      [] f.state = "oscesc" -> stOSCEsc(f, b)
      [] f.state = "str" -> stStr(f, b)
      [] f.state = "stresc" -> stStrEsc(f, b)

(* A run of bytes through a filter. *)
FilterAll(f, bytes) ==
    FoldLeft(LAMBDA r, b : LET s == Filter(r.f, b) IN [f |-> s.f, out |-> r.out \o s.out],
             [f |-> f, out |-> <<>>], bytes)

-----------------------------------------------------------------------------
(* The observer: a terminal that reads bytes as the documentation of        *)
(* ANSIFilter lists them.  said is what the last byte completed: "draws",   *)
(* "bad" (a query, a title, a link, the clipboard, a string control, an     *)
(* answerback, a lone C1 control) or nothing; bad remembers any.            *)

Rest == [mode |-> "ground", item |-> <<>>, utf8 |-> 0, said |-> "", bad |-> FALSE]

Says(t, what) == [Rest EXCEPT !.said = what, !.bad = t.bad \/ what = "bad"]

Goes(t, mode, item) ==
    IF Len(item) > MaxSeq THEN Says(t, "")
    ELSE [t EXCEPT !.mode = mode, !.item = item, !.utf8 = 0, !.said = ""]

(* DSR, DECRQM, XTVERSION, DECREQTPARM, DECRQCRA. *)
Query(item) ==
    LET has(b) == \E i \in 1..Len(item) : item[i] = b
    IN  \/ Last(item) = "n"
        \/ Last(item) = "p" /\ has("$")
        \/ Last(item) = "q" /\ has(">") /\ ~has("SP")
        \/ Last(item) = "x" /\ ~has("$")
        \/ Last(item) = "y" /\ has("*")

(* Titles, hyperlinks, the clipboard, and whatever asks a question. *)
Command(item) ==
    \/ \E i \in 1..Len(item) : item[i] = "?"
    \/ \E k \in 1..Len(item) :
          /\ \A i \in 1..k : item[i] \in Digit
          /\ k < Len(item) => item[k + 1] \notin Digit
          /\ LET z == Cardinality({i \in 1..k : \A j \in 1..i : item[j] = "0"})
             IN  SubSeq(item, z + 1, k) \in {<<>>, <<"2">>, <<"8">>, <<"5", "2">>}

ReadGround(t, b) ==
    CASE b = "ESC" -> Goes(t, "esc", <<b>>)
      [] b = "CSI" -> [Goes(t, "csi", <<"ESC", "[">>) EXCEPT !.bad = TRUE]
      [] b = "OSC" -> [Goes(t, "osc", <<"ESC", "]">>) EXCEPT !.bad = TRUE]
      [] b = "DCS" -> [Goes(t, "str", <<>>) EXCEPT !.bad = TRUE]
      [] b \in {"ENQ", "ST", "NEL"} -> Says(t, "bad")
      [] b \in Lead -> [Says(t, "draws") EXCEPT !.utf8 = utf8Continuation(b)]
      [] OTHER -> Says(t, "draws")

Judge(t, isBad) == Says(t, IF isBad THEN "bad" ELSE "draws")

Terminal(t, b) ==
    LET body == SubSeq(t.item, 3, Len(t.item))
    IN CASE t.mode = "ground" /\ t.utf8 > 0 /\ b \in Continuation ->
                [Says(t, "draws") EXCEPT !.utf8 = t.utf8 - 1]
         [] t.mode = "esc" /\ b \in {"[", "]"} /\ Len(t.item) = 1 ->
                Goes(t, IF b = "[" THEN "csi" ELSE "osc", Append(t.item, b))
         [] t.mode = "esc" /\ b = "P" /\ Len(t.item) = 1 ->
                [Goes(t, "str", <<>>) EXCEPT !.bad = TRUE]
         [] t.mode = "esc" /\ b \in Parameter \cup Final ->
                Judge(t, b = "Z" /\ Len(t.item) = 1)
         [] t.mode = "esc" /\ b \in Intermediate -> Goes(t, "esc", Append(t.item, b))
         [] t.mode = "csi" /\ b \in Final -> Judge(t, Query(Append(body, b)))
         [] t.mode = "csi" /\ b \in Parameter \cup Intermediate ->
                Goes(t, "csi", Append(t.item, b))
         [] t.mode = "osc" /\ b \in {"BEL", "ST"} -> Judge(t, Command(body))
         [] t.mode = "osc" /\ b = "ESC" -> [t EXCEPT !.mode = "oscesc", !.said = ""]
         [] t.mode = "osc" /\ b \notin C0 \cup C1 \cup {"DEL"} ->
                Goes(t, "osc", Append(t.item, b))
         [] t.mode = "oscesc" /\ b = "BSL" -> Judge(t, Command(body))
         [] t.mode = "str" /\ b = "ESC" -> [t EXCEPT !.mode = "stresc"]
         [] t.mode = "str" /\ (b \in {"BEL", "ST"} \/ Len(t.item) >= MaxStr) -> Says(t, "")
         [] t.mode = "str" -> [t EXCEPT !.item = Append(@, "x")]
         [] t.mode = "stresc" /\ b = "BSL" -> Says(t, "")
         [] OTHER -> ReadGround(t, b)

-----------------------------------------------------------------------------
VARIABLES
    filter,     \* the filter
    emitted,    \* what it emitted for the last byte
    again,      \* a second filter that reads its output, and what that emitted
    screen,     \* the terminal that reads its output
    source      \* a terminal that reads its input

vars == <<filter, emitted, again, screen, source>>

Init ==
    /\ filter = Ground /\ emitted = <<>>
    /\ again = [f |-> Ground, out |-> <<>>]
    /\ screen = Rest /\ source = Rest

Feed(b) ==
    LET r == Filter(filter, b)
    IN  /\ filter' = r.f /\ emitted' = r.out
        /\ again' = FilterAll(again.f, r.out)
        /\ screen' = FoldLeft(Terminal, screen, r.out)
        /\ source' = [Terminal(source, b) EXCEPT !.bad = FALSE]

(* Filter.Reset between two streams; the observers start again with it. *)
Reset ==
    /\ filter' = Ground /\ emitted' = <<>>
    /\ again' = [f |-> Ground, out |-> <<>>]
    /\ screen' = Rest /\ source' = Rest

Next == Reset \/ \E b \in Bytes : Feed(b)

Spec == Init /\ [][Next]_vars

-----------------------------------------------------------------------------
(***************************************************************************)
(* Type invariant; the held sequence and the skipped string keep within    *)
(* their bounds, also for a runaway sequence.                              *)
(***************************************************************************)
TypeOK ==
    /\ filter.state \in {"ground", "esc", "escint", "csi", "osc", "oscesc", "str", "stresc"}
    /\ Len(filter.seq) <= MaxSeq /\ filter.strN <= MaxStr /\ filter.utf8 \in 0..2
    /\ filter.state = "ground" => filter.seq = <<>> /\ filter.strN = 0

(***************************************************************************)
(* Nothing on the documented list of stripped controls reaches the         *)
(* terminal, for any stream and any cut of it: not as such, and not put    *)
(* together from what is left of sequences that were dropped.              *)
(***************************************************************************)
OutputHarmless == ~screen.bad

(***************************************************************************)
(* The filter is idempotent (TestANSI_Idempotent), for every stream: a     *)
(* second filter emits exactly what it reads, byte for byte and at once.   *)
(***************************************************************************)
Idempotent == again.out = emitted

(***************************************************************************)
(* What only draws is preserved: when the input completes a sequence that  *)
(* is on no list of stripped controls, or a character, the filter emits at *)
(* that byte rather than drop it.                                          *)
(***************************************************************************)
DrawingPreserved == source.said = "draws" => emitted # <<>>

=============================================================================
