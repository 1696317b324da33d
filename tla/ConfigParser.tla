---------------------------- MODULE ConfigParser ----------------------------
(***************************************************************************)
(* parserJsonIntValues (src/src/storage.c): one step per character of the  *)
(* payload.  Characters are reduced to what the scanner distinguishes: the *)
(* colon, the comma, the closing brace and all others; the others carry a  *)
(* name, so that a text captured can be told from another.  atoi is left   *)
(* to the caller: what is stored is the text it is given.                  *)
(***************************************************************************)
EXTENDS Naturals, Sequences, FiniteSets

CONSTANTS Others,   \* characters that are neither colon nor comma nor closing brace
          MaxLength \* bound: length of a payload

ASSUME ParserAssumption == MaxLength \in Nat /\ {"colon", "comma", "brace"} \cap Others = {}

VARIABLES json,          \* the payload, without its terminating NUL
          i,             \* the index, from 0 as in C
          saveNextChar,
          stringValue,   \* the first stringValueIndex characters of the buffer
          parsedValues,  \* the texts given to atoi; its length is numberOfParsedValues
          pc

vars == <<json, i, saveNextChar, stringValue, parsedValues, pc>>

Chars == Others \cup {"colon", "comma", "brace"}

Init ==
    /\ json \in UNION {[1 .. n -> Chars] : n \in 0 .. MaxLength}
    /\ i = 0
    /\ saveNextChar = FALSE
    /\ stringValue = <<>>
    /\ parsedValues = <<>>
    /\ pc = "scan"

----------------------------------------------------------------------------
Here == json[i + 1]

(* json[i] == '\0' *)
End ==
    /\ pc = "scan"
    /\ i = Len(json)
    /\ pc' = "done"
    /\ UNCHANGED <<json, i, saveNextChar, stringValue, parsedValues>>

(* From a colon on, characters belong to the value. *)
Colon ==
    /\ pc = "scan" /\ i < Len(json)
    /\ Here = "colon"
    /\ saveNextChar' = TRUE
    /\ i' = i + 1
    /\ UNCHANGED <<json, stringValue, parsedValues, pc>>

(* Mutant: the buffer is not emptied. *)
Separator_NoReset ==
    /\ pc = "scan" /\ i < Len(json)
    /\ Here \in {"comma", "brace"}
    /\ parsedValues' = Append(parsedValues, stringValue)
    /\ saveNextChar' = FALSE
    /\ IF Here = "brace" THEN pc' = "done" /\ UNCHANGED i
                     ELSE i' = i + 1 /\ UNCHANGED pc
    /\ UNCHANGED <<json, stringValue>>

(* A comma or a brace ends a value, be it empty; the brace ends the scan. *)
Separator ==
    /\ pc = "scan" /\ i < Len(json)
    /\ Here \in {"comma", "brace"}
    /\ parsedValues' = Append(parsedValues, stringValue)
    /\ stringValue' = <<>>
    /\ saveNextChar' = FALSE
    /\ IF Here = "brace" THEN pc' = "done" /\ UNCHANGED i
                     ELSE i' = i + 1 /\ UNCHANGED pc
    /\ UNCHANGED json

(* Any other character is kept if a colon came since the last separator. *)
Other ==
    /\ pc = "scan" /\ i < Len(json)
    /\ Here \in Others
    /\ stringValue' = IF saveNextChar THEN Append(stringValue, Here) ELSE stringValue
    /\ i' = i + 1
    /\ UNCHANGED <<json, saveNextChar, parsedValues, pc>>

Next == End \/ Colon \/ Separator \/ Other

Spec == Init /\ [][Next]_vars

----------------------------------------------------------------------------
(* Properties *)

(* Reference definition, by positions instead of a scan.  Every comma or   *)
(* brace up to the first brace is the end of a value; the value is what    *)
(* follows the first colon after the separator before, other colons left   *)
(* out.                                                                    *)
IsSeparator(k) == json[k] \in {"comma", "brace"}

Ends == {k \in 1 .. Len(json) : IsSeparator(k) /\ \A b \in 1 .. k - 1 : json[b] # "brace"}

Opened(k, end) ==
    \E c \in 1 .. k : json[c] = "colon" /\ \A s \in c .. end - 1 : ~ IsSeparator(s)

Kept(end) == {k \in 1 .. end - 1 : json[k] \in Others /\ Opened(k, end)}

(* The place of a position among those of S: 1 for the first of them,      *)
(* Cardinality(S) for the last one.                                        *)
Place(S, k) == Cardinality({x \in S : x <= k})

IsText(text, end) ==
    /\ Len(text) = Cardinality(Kept(end))
    /\ \A k \in Kept(end) : text[Place(Kept(end), k)] = json[k]

(* The scanner finds the value of every field, in order and in place,      *)
(* whatever the keys are, malformed payloads included: no value is         *)
(* dropped, merged with its neighbour or shifted to another position.      *)
ScansFields ==
    pc = "done" => /\ Len(parsedValues) = Cardinality(Ends)
                   /\ \A end \in Ends : IsText(parsedValues[Place(Ends, end)], end)
=============================================================================
