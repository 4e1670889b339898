------------------------------ MODULE KeySyntax -----------------------------
(***************************************************************************)
(* The logical keys a browser may send to an agent (herdr/keys.go): single *)
(* characters, named keys, function keys, and modifier-prefixed forms.     *)
(* A key is a sequence of symbols, each one character or one of the words  *)
(* the two tables of keys.go hold.  The state is the key being typed; the  *)
(* properties compare the validator with the syntax its comments give.     *)
(***************************************************************************)
EXTENDS Naturals, Sequences, SequencesExt

CONSTANTS
    MaxSymbols  \* bound on the symbols of a key

KeyAssumption == MaxSymbols \in Nat

Digits == {"0", "2", "5"}

Printable == Digits \cup {"+", "a", "f", "F"}

Modifiers == {"ctrl", "shift"}

NamedKeys == {"enter", "Enter"}

(* The symbols, one control character among them. *)
Symbols == Printable \cup Modifiers \cup NamedKeys \cup {"^G"}

Value(d) == CASE d = "0" -> 0 [] d = "2" -> 2 [] d = "5" -> 5

(* strings.Split(key, "+") *)
Split(k) ==
    FoldLeft(LAMBDA parts, c :
                IF c = "+" THEN Append(parts, <<>>)
                ELSE [parts EXCEPT ![Len(parts)] = Append(@, c)],
             << <<>> >>, k)

(* The number a run of digits denotes; bounded keys keep it far below a word. *)
Number(digits) == FoldLeft(LAMBDA n, d : n * 10 + Value(d), 0, digits)

isFunctionKey(s) ==
    /\ Len(s) >= 2 /\ s[1] \in {"f", "F"}
    /\ \A i \in 2..Len(s) : s[i] \in Digits
    /\ Number(Tail(s)) \in 1..24

validBaseKey(base) ==
    \/ Len(base) = 1 /\ base[1] \in NamedKeys \cup Printable
    \/ isFunctionKey(base)

ValidateKey(k) ==
    LET parts == Split(k)
    IN  /\ k # <<>>
        /\ \A i \in 1..(Len(parts) - 1) : \E m \in Modifiers : parts[i] = <<m>>
        /\ validBaseKey(parts[Len(parts)])

-----------------------------------------------------------------------------
VARIABLE key

Init == key = <<>>

Type == /\ Len(key) < MaxSymbols
        /\ \E c \in Symbols : key' = Append(key, c)

Next == Type

Spec == Init /\ [][Next]_key

-----------------------------------------------------------------------------
(* The documented syntax: a base key, or a modifier, "+" and a shorter key. *)
Base(k) ==
    \/ Len(k) = 1 /\ k[1] \in Printable \cup NamedKeys
    \/ /\ Len(k) >= 2 /\ k[1] \in {"f", "F"}
       /\ \A i \in 2..Len(k) : k[i] \in Digits
       /\ \E n \in 1..24 : Number(Tail(k)) = n

Documented(k) ==
    \E m \in 0..(Len(k) \div 2) :
        /\ \A i \in 1..m : k[2 * i - 1] \in Modifiers /\ k[2 * i] = "+"
        /\ Base(SubSeq(k, 2 * m + 1, Len(k)))

(***************************************************************************)
(* No control string passes for a key (keys.go: "Validation happens here   *)
(* so a browser can never smuggle an arbitrary control string"): whatever  *)
(* ValidateKey accepts is in the documented syntax.                        *)
(***************************************************************************)
OnlyDocumentedKeys == ValidateKey(key) => Documented(key)

(***************************************************************************)
(* Every documented key other than the plus sign is accepted: no prefix of *)
(* modifiers, case or leading zero makes the validator refuse it.          *)
(***************************************************************************)
DocumentedKeysAccepted ==
    Documented(key) /\ Last(key) # "+" => ValidateKey(key)

(***************************************************************************)
(* "It accepts a single character" (keys.go): every printable character on *)
(* its own is a key.                                                       *)
(***************************************************************************)
SingleCharacterAccepted == Len(key) = 1 /\ key[1] \in Printable => ValidateKey(key)

=============================================================================
