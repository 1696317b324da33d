------------------------- MODULE ConfigParser_proof -------------------------
(***************************************************************************)
(* Proof that the scanner of ConfigParser finds the values its reference   *)
(* definition names, for payloads of any length over any characters.  The  *)
(* invariant says of the characters passed what ScansFields says of all:   *)
(* the values so far are those of the separators so far, and the buffer is *)
(* the value a separator at this place would end.                          *)
(***************************************************************************)
EXTENDS ConfigParser, Integers, SequenceTheorems, FiniteSetTheorems, TLAPS

----------------------------------------------------------------------------
(* Places *)

(* A new last member comes after the others and leaves their places.       *)
LEMMA NextPlace ==
    ASSUME NEW S, IsFiniteSet(S), S \subseteq Nat,
           NEW m \in Nat, \A x \in S : x < m
    PROVE  /\ Cardinality(S) \in Nat
           /\ Cardinality(S \cup {m}) = Cardinality(S) + 1
           /\ Place(S \cup {m}, m) = Cardinality(S) + 1
           /\ \A k \in S : /\ Place(S \cup {m}, k) = Place(S, k)
                           /\ Place(S, k) \in 1 .. Cardinality(S)
<1>1. m \notin S
  OBVIOUS
<1>2. Cardinality(S) \in Nat /\ Cardinality(S \cup {m}) = Cardinality(S) + 1
  BY <1>1, FS_AddElement, FS_CardinalityType
<1>3. {x \in S \cup {m} : x <= m} = S \cup {m}
  <2>1. \A x \in S \cup {m} : x <= m
    OBVIOUS
  <2> QED
    BY <2>1
<1>4. ASSUME NEW k \in S
      PROVE  Place(S \cup {m}, k) = Place(S, k) /\ Place(S, k) \in 1 .. Cardinality(S)
  <2> DEFINE T == {x \in S : x <= k}
  <2>1. {x \in S \cup {m} : x <= k} = T
    OBVIOUS
  <2>2. T \subseteq S /\ k \in T
    OBVIOUS
  <2> HIDE DEF T
  <2>3. IsFiniteSet(T) /\ Cardinality(T) <= Cardinality(S)
    BY <2>2, FS_Subset
  <2>4. Cardinality(T) \in Nat /\ Cardinality(T) # 0
    BY <2>2, <2>3, FS_CardinalityType, FS_EmptySet
  <2>5. Cardinality(T) \in 1 .. Cardinality(S)
    BY <1>2, <2>3, <2>4
  <2> QED
    BY <2>1, <2>5 DEF Place, T
<1> QED
  BY <1>2, <1>3, <1>4 DEF Place

(* An element put behind a sequence, and those before it. *)
LEMMA Behind ==
    ASSUME NEW S, NEW q \in Seq(S), NEW e \in S
    PROVE  /\ Append(q, e) \in Seq(S)
           /\ Len(q) \in Nat /\ Len(Append(q, e)) = Len(q) + 1
           /\ \A n \in 1 .. Len(q) : Append(q, e)[n] = q[n]
           /\ Append(q, e)[Len(q) + 1] = e
  BY AppendProperties, LenProperties

----------------------------------------------------------------------------
(* The invariant *)

Typed ==
    /\ json \in Seq(Chars)
    /\ i \in 0 .. Len(json)
    /\ saveNextChar \in BOOLEAN
    /\ stringValue \in Seq(Others)
    /\ parsedValues \in Seq(Seq(Others))
    /\ pc \in {"scan", "done"}

(* The separators up to the m-th character. *)
EndsTo(m) == {end \in Ends : end <= m}

(* The values of the separators up to there have been found. *)
Found(m) ==
    /\ Len(parsedValues) = Cardinality(EndsTo(m))
    /\ \A end \in EndsTo(m) : IsText(parsedValues[Place(EndsTo(m), end)], end)

(* The scan goes on: no brace so far, the values of the separators passed, *)
(* and the beginning of the next one.                                      *)
Scanning ==
    pc = "scan" =>
        /\ \A b \in 1 .. i : json[b] # "brace"
        /\ Found(i)
        /\ IsText(stringValue, i + 1)
        /\ saveNextChar <=> Opened(i, i + 1)

ParserInv == Typed /\ Scanning /\ ScansFields

(* The payload and its characters. *)
LEMMA Payload ==
    ASSUME Typed
    PROVE  /\ Len(json) \in Nat /\ i \in Nat /\ i <= Len(json)
           /\ \A k \in 1 .. Len(json) : json[k] \in Chars
  BY LenProperties, ElementOfSeq DEF Typed

(* Separators and characters kept can be counted. *)
LEMMA Countable ==
    ASSUME Typed, NEW m \in Nat
    PROVE  /\ IsFiniteSet(EndsTo(m)) /\ EndsTo(m) \subseteq 1 .. m
           /\ IsFiniteSet(Kept(m + 1)) /\ Kept(m + 1) \subseteq 1 .. m
<1>1. EndsTo(m) \subseteq 1 .. m
  BY Payload DEF EndsTo, Ends
<1>2. Kept(m + 1) \subseteq 1 .. m
  <2>1. (m + 1) - 1 = m
    OBVIOUS
  <2> QED
    BY <2>1 DEF Kept
<1>3. IsFiniteSet(1 .. m)
  BY FS_Interval
<1> QED
  BY <1>1, <1>2, <1>3, FS_Subset

(* The payload does not change, nor does what is said of it. *)
LEMMA SamePayload ==
    ASSUME UNCHANGED json
    PROVE  /\ \A m : EndsTo(m)' = EndsTo(m)
           /\ \A text, end : IsText(text, end)' <=> IsText(text, end)
           /\ \A k, end : Opened(k, end)' <=> Opened(k, end)
<1>1. \A k : IsSeparator(k)' <=> IsSeparator(k)
  BY DEF IsSeparator
<1>2. Ends' = Ends
  BY <1>1 DEF Ends
<1>3. \A m : EndsTo(m)' = EndsTo(m)
  BY <1>2 DEF EndsTo
<1>4. \A k, end : Opened(k, end)' <=> Opened(k, end)
  BY <1>1 DEF Opened
<1>5. \A end : Kept(end)' = Kept(end)
  BY <1>4 DEF Kept
<1>6. \A text, end : IsText(text, end)' <=> IsText(text, end)
  BY <1>5 DEF IsText
<1> QED
  BY <1>3, <1>4, <1>6

----------------------------------------------------------------------------
(* One character on *)

(* A character that is no separator ends no value ... *)
LEMMA EndsSame ==
    ASSUME Typed, i < Len(json), ~ IsSeparator(i + 1)
    PROVE  EndsTo(i + 1) = EndsTo(i)
<1>1. ASSUME NEW k \in Ends PROVE k <= i + 1 <=> k <= i
  <2>1. k \in Nat /\ k # i + 1
    BY <1>1, Payload DEF Ends
  <2> QED
    BY <2>1, Payload
<1> QED
  BY <1>1 DEF EndsTo

(* ... and a separator before which there is no brace ends one. *)
LEMMA EndsNext ==
    ASSUME Typed, i < Len(json), IsSeparator(i + 1), \A b \in 1 .. i : json[b] # "brace"
    PROVE  EndsTo(i + 1) = EndsTo(i) \cup {i + 1}
<1>1. i + 1 \in 1 .. Len(json) /\ (i + 1) - 1 = i
  BY Payload
<1>2. i + 1 \in Ends
  BY <1>1 DEF Ends
<1>3. ASSUME NEW k \in Ends PROVE k <= i + 1 <=> k <= i \/ k = i + 1
  <2>1. k \in Nat
    BY <1>3, Payload DEF Ends
  <2> QED
    BY <2>1, Payload
<1>4. i + 1 <= i + 1
  BY <1>1
<1> QED
  BY <1>2, <1>3, <1>4 DEF EndsTo

(* What a colon has opened stays open until the next separator. *)
LEMMA StaysOpen ==
    ASSUME Typed, ~ IsSeparator(i + 1), NEW k \in 1 .. i
    PROVE  Opened(k, i + 2) <=> Opened(k, i + 1)
<1>1. (i + 2) - 1 = i + 1 /\ (i + 1) - 1 = i
  BY Payload
<1>2. \A c \in 1 .. k : \A s : s \in c .. i + 1 <=> s \in c .. i \/ s = i + 1
  BY Payload
<1> QED
  BY <1>1, <1>2 DEF Opened

LEMMA OpenedNext ==
    ASSUME Typed, ~ IsSeparator(i + 1)
    PROVE  Opened(i + 1, i + 2) <=> Opened(i, i + 1) \/ json[i + 1] = "colon"
<1>1. (i + 2) - 1 = i + 1 /\ (i + 1) - 1 = i
  BY Payload
<1>2. \A c : c \in 1 .. i + 1 <=> c \in 1 .. i \/ c = i + 1
  BY Payload
<1>3. \A c \in 1 .. i : \A s : s \in c .. i + 1 <=> s \in c .. i \/ s = i + 1
  BY Payload
<1>4. \A s : s \in i + 1 .. i + 1 <=> s = i + 1
  BY Payload
<1> QED
  BY <1>1, <1>2, <1>3, <1>4 DEF Opened

(* A character is kept if it is an ordinary one behind a colon. *)
LEMMA KeptNext ==
    ASSUME Typed, ~ IsSeparator(i + 1)
    PROVE  Kept(i + 2) = IF json[i + 1] \in Others /\ Opened(i + 1, i + 2)
                         THEN Kept(i + 1) \cup {i + 1} ELSE Kept(i + 1)
<1>1. (i + 2) - 1 = i + 1 /\ (i + 1) - 1 = i
  BY Payload
<1>2. \A k : k \in 1 .. i + 1 <=> k \in 1 .. i \/ k = i + 1
  BY Payload
<1>3. \A k \in 1 .. i : Opened(k, i + 2) <=> Opened(k, i + 1)
  BY StaysOpen
<1>4. i + 1 \notin 1 .. i
  BY Payload
<1> QED
  BY <1>1, <1>2, <1>3, <1>4 DEF Kept

(* Behind a separator nothing is kept yet. *)
LEMMA ClosedNext ==
    ASSUME Typed, IsSeparator(i + 1)
    PROVE  Kept(i + 2) = {} /\ ~ Opened(i + 1, i + 2)
<1>1. (i + 2) - 1 = i + 1
  BY Payload
<1>2. \A k \in 1 .. i + 1 : \A c \in 1 .. k : i + 1 \in c .. i + 1
  BY Payload
<1>3. \A k \in 1 .. i + 1 : ~ Opened(k, i + 2)
  BY <1>1, <1>2 DEF Opened
<1>4. i + 1 \in 1 .. i + 1
  BY Payload
<1> QED
  BY <1>1, <1>3, <1>4 DEF Kept

----------------------------------------------------------------------------
(* The steps *)

(* What a step has to establish, in terms of the payload as it is. *)
LEMMA Established ==
    ASSUME UNCHANGED json,
           Len(parsedValues') = Cardinality(EndsTo(i')),
           \A end \in EndsTo(i') : IsText(parsedValues'[Place(EndsTo(i'), end)], end)
    PROVE  Found(i)'
<1>1. EndsTo(i)' = EndsTo(i')
  BY SamePayload
<1> QED
  BY <1>1, SamePayload DEF Found

(* An ordinary character or a colon: the value goes on. *)
LEMMA ScanOn ==
    ASSUME ParserInv, pc = "scan", i < Len(json), ~ IsSeparator(i + 1),
           UNCHANGED <<json, parsedValues>>, i' = i + 1,
           IsText(stringValue', i + 2),
           saveNextChar' <=> Opened(i, i + 1) \/ json[i + 1] = "colon"
    PROVE  Scanning'
<1> USE DEF ParserInv
<1>1. (i + 1) + 1 = i + 2
  BY Payload
<1>2. EndsTo(i') = EndsTo(i)
  BY EndsSame
<1>3. Found(i)'
  BY <1>2, Established DEF Scanning, Found
<1>4. ASSUME NEW b \in 1 .. i' PROVE json'[b] # "brace"
  <2>1. b \in 1 .. i \/ b = i + 1
    BY <1>4, Payload
  <2> QED
    BY <2>1 DEF Scanning, IsSeparator
<1>5. IsText(stringValue, i + 1)'
  BY <1>1, SamePayload
<1>6. saveNextChar' <=> Opened(i, i + 1)'
  BY <1>1, OpenedNext, SamePayload
<1> QED
  BY <1>3, <1>4, <1>5, <1>6 DEF Scanning

LEMMA ColonStep == ASSUME ParserInv, Colon PROVE ParserInv'
<1> USE DEF ParserInv
<1>1. /\ pc = "scan" /\ i < Len(json) /\ json[i + 1] = "colon" /\ i' = i + 1
      /\ saveNextChar' = TRUE /\ UNCHANGED <<json, stringValue, parsedValues, pc>>
  BY DEF Colon, Here
<1>2. ~ IsSeparator(i + 1) /\ json[i + 1] \notin Others
  BY <1>1, ParserAssumption DEF IsSeparator
<1>3. IsText(stringValue, i + 1)
  BY <1>1 DEF Scanning
<1>4. IsText(stringValue', i + 2)
  BY <1>1, <1>2, <1>3, KeptNext DEF IsText
<1>5. Scanning'
  BY <1>1, <1>2, <1>4, ScanOn
<1>6. Typed'
  BY <1>1, Payload DEF Typed
<1> QED
  BY <1>1, <1>5, <1>6 DEF ScansFields

LEMMA OtherStep == ASSUME ParserInv, Other PROVE ParserInv'
<1> USE DEF ParserInv
<1>1. /\ pc = "scan" /\ i < Len(json) /\ json[i + 1] \in Others /\ i' = i + 1
      /\ stringValue' = IF saveNextChar THEN Append(stringValue, json[i + 1]) ELSE stringValue
      /\ UNCHANGED <<json, saveNextChar, parsedValues, pc>>
  BY DEF Other, Here
<1>2. ~ IsSeparator(i + 1) /\ json[i + 1] # "colon"
  BY <1>1, ParserAssumption DEF IsSeparator
<1>3. IsText(stringValue, i + 1) /\ (saveNextChar <=> Opened(i, i + 1))
  BY <1>1 DEF Scanning
<1>4. stringValue \in Seq(Others)
  BY DEF Typed
<1>5. IsText(stringValue', i + 2)
  <2>1. CASE ~ Opened(i, i + 1)
    BY <1>1, <1>2, <1>3, <2>1, OpenedNext, KeptNext DEF IsText
  <2>2. CASE Opened(i, i + 1)
    <3> DEFINE S == Kept(i + 1)
               T == S \cup {i + 1}
    <3>1. Kept(i + 2) = T
      BY <1>1, <1>2, <2>2, OpenedNext, KeptNext
    <3>2. IsFiniteSet(S) /\ S \subseteq 1 .. i
      BY Payload, Countable
    <3>3. S \subseteq Nat /\ i + 1 \in Nat /\ \A x \in S : x < i + 1
      BY <3>2, Payload
    <3>4. /\ Cardinality(S) \in Nat /\ Cardinality(T) = Cardinality(S) + 1
          /\ Place(T, i + 1) = Cardinality(S) + 1
          /\ \A k \in S : Place(T, k) = Place(S, k) /\ Place(S, k) \in 1 .. Cardinality(S)
      BY <3>2, <3>3, NextPlace
    <3>5. stringValue' = Append(stringValue, json[i + 1])
      BY <1>1, <1>3, <2>2
    <3>6. Len(stringValue) = Cardinality(S) /\ \A k \in S : stringValue[Place(S, k)] = json[k]
      BY <1>3 DEF IsText
    <3>7. /\ Len(stringValue') = Len(stringValue) + 1
          /\ \A n \in 1 .. Len(stringValue) : stringValue'[n] = stringValue[n]
          /\ stringValue'[Len(stringValue) + 1] = json[i + 1]
      BY <1>1, <1>4, <3>5, Behind
    <3> HIDE DEF S
    <3>8. Len(stringValue') = Cardinality(T)
      BY <3>4, <3>6, <3>7
    <3>9. \A k \in T : stringValue'[Place(T, k)] = json[k]
      BY <3>4, <3>6, <3>7
    <3> QED
      BY <3>1, <3>8, <3>9 DEF IsText
  <2> QED
    BY <2>1, <2>2
<1>6. Scanning'
  BY <1>1, <1>2, <1>3, <1>5, ScanOn
<1>7. Typed'
  <2>1. stringValue' \in Seq(Others)
    BY <1>1, <1>4, Behind
  <2> QED
    BY <1>1, <2>1, Payload DEF Typed
<1> QED
  BY <1>1, <1>6, <1>7 DEF ScansFields

(* A separator adds the value found to those of the separators before it. *)
LEMMA ValueAdded ==
    ASSUME ParserInv, Separator
    PROVE  /\ Len(parsedValues') = Cardinality(EndsTo(i + 1))
           /\ \A end \in EndsTo(i + 1) : IsText(parsedValues'[Place(EndsTo(i + 1), end)], end)
<1> USE DEF ParserInv
<1> DEFINE S == EndsTo(i)
           T == S \cup {i + 1}
<1>1. /\ pc = "scan" /\ i < Len(json) /\ IsSeparator(i + 1)
      /\ parsedValues' = Append(parsedValues, stringValue)
  BY DEF Separator, Here, IsSeparator
<1>2. /\ EndsTo(i + 1) = T
      /\ IsText(stringValue, i + 1) /\ Found(i)
  BY <1>1, EndsNext DEF Scanning
<1>3. IsFiniteSet(S) /\ S \subseteq 1 .. i
  BY Payload, Countable
<1>4. S \subseteq Nat /\ i + 1 \in Nat /\ \A x \in S : x < i + 1
  BY <1>3, Payload
<1>5. /\ Cardinality(S) \in Nat /\ Cardinality(T) = Cardinality(S) + 1
      /\ Place(T, i + 1) = Cardinality(S) + 1
      /\ \A k \in S : Place(T, k) = Place(S, k) /\ Place(S, k) \in 1 .. Cardinality(S)
  BY <1>3, <1>4, NextPlace
<1>6. /\ Len(parsedValues) = Cardinality(S)
      /\ \A k \in S : IsText(parsedValues[Place(S, k)], k)
  BY <1>2 DEF Found
<1>7. /\ Len(parsedValues') = Len(parsedValues) + 1
      /\ \A n \in 1 .. Len(parsedValues) : parsedValues'[n] = parsedValues[n]
      /\ parsedValues'[Len(parsedValues) + 1] = stringValue
  BY <1>1, Behind DEF Typed
<1> HIDE DEF S
<1>8. Len(parsedValues') = Cardinality(T)
  BY <1>5, <1>6, <1>7
<1>9. ASSUME NEW k \in T PROVE IsText(parsedValues'[Place(T, k)], k)
  <2>1. CASE k \in S
    BY <1>5, <1>6, <1>7, <2>1
  <2>2. CASE k = i + 1
    BY <1>2, <1>5, <1>6, <1>7, <2>2
  <2> QED
    BY <2>1, <2>2
<1> QED
  BY <1>2, <1>8, <1>9

(* The values found are all when no separator is left to come. *)
LEMMA AllFound ==
    ASSUME UNCHANGED json, NEW m, EndsTo(m) = Ends,
           Len(parsedValues') = Cardinality(EndsTo(m)),
           \A end \in EndsTo(m) : IsText(parsedValues'[Place(EndsTo(m), end)], end)
    PROVE  ScansFields'
<1>1. Ends' = Ends
  BY DEF Ends, IsSeparator
<1> QED
  BY <1>1, SamePayload DEF ScansFields

LEMMA SeparatorStep == ASSUME ParserInv, Separator PROVE ParserInv'
<1> USE DEF ParserInv
<1>1. /\ pc = "scan" /\ i < Len(json) /\ json[i + 1] \in {"comma", "brace"}
      /\ stringValue' = <<>> /\ saveNextChar' = FALSE /\ UNCHANGED json
      /\ parsedValues' = Append(parsedValues, stringValue)
      /\ json[i + 1] = "brace" => pc' = "done" /\ i' = i
      /\ json[i + 1] # "brace" => i' = i + 1 /\ pc' = "scan"
  BY DEF Separator, Here
<1>2. IsSeparator(i + 1)
  BY <1>1 DEF IsSeparator
<1>3. Typed'
  <2>1. parsedValues' \in Seq(Seq(Others)) /\ stringValue' \in Seq(Others)
    BY <1>1, Behind, EmptySeq DEF Typed
  <2>2. i' \in 0 .. Len(json) /\ pc' \in {"scan", "done"}
    BY <1>1, Payload
  <2> QED
    BY <1>1, <2>1, <2>2 DEF Typed
<1>4. \A b \in 1 .. i : json[b] # "brace"
  BY <1>1 DEF Scanning
<1>5. CASE json[i + 1] = "brace"
  <2>1. EndsTo(i + 1) = Ends
    <3>1. ASSUME NEW k \in Ends PROVE k <= i + 1
      <4>1. k \in 1 .. Len(json) /\ \A b \in 1 .. k - 1 : json[b] # "brace"
        BY <3>1 DEF Ends
      <4>2. i + 1 \notin 1 .. k - 1
        BY <1>5, <4>1
      <4> QED
        BY <4>1, <4>2, Payload
    <3> QED
      BY <3>1 DEF EndsTo
  <2>2. ScansFields'
    BY <1>1, <2>1, ValueAdded, AllFound
  <2>3. Scanning'
    BY <1>1, <1>5 DEF Scanning
  <2> QED
    BY <1>3, <2>2, <2>3
<1>6. CASE json[i + 1] # "brace"
  <2>1. i' = i + 1 /\ pc' = "scan" /\ (i + 1) + 1 = i + 2
    BY <1>1, <1>6, Payload
  <2>2. Found(i)'
    BY <1>1, <2>1, ValueAdded, Established
  <2>3. IsText(stringValue, i + 1)'
    <3>1. Kept(i + 2) = {}
      BY <1>2, ClosedNext
    <3>2. IsText(stringValue', i + 2)
      BY <1>1, <3>1, FS_EmptySet DEF IsText
    <3> QED
      BY <1>1, <2>1, <3>2, SamePayload
  <2>4. ~ Opened(i, i + 1)'
    BY <1>1, <1>2, <2>1, ClosedNext, SamePayload
  <2>5. ASSUME NEW b \in 1 .. i' PROVE json'[b] # "brace"
    <3>1. b \in 1 .. i \/ b = i + 1
      BY <2>1, <2>5, Payload
    <3> QED
      BY <1>1, <1>4, <1>6, <3>1
  <2>6. Scanning'
    BY <1>1, <2>2, <2>3, <2>4, <2>5 DEF Scanning
  <2> QED
    BY <1>3, <2>1, <2>6 DEF ScansFields
<1> QED
  BY <1>5, <1>6

(* The end of the payload: every separator has been passed. *)
LEMMA EndStep == ASSUME ParserInv, End PROVE ParserInv'
<1> USE DEF ParserInv
<1>1. /\ pc = "scan" /\ i = Len(json) /\ pc' = "done"
      /\ UNCHANGED <<json, i, saveNextChar, stringValue, parsedValues>>
  BY DEF End
<1>2. EndsTo(i) = Ends
  BY <1>1, Payload DEF EndsTo, Ends
<1>3. ScansFields'
  BY <1>1, <1>2, AllFound DEF Scanning, Found
<1> QED
  BY <1>1, <1>3 DEF Typed, Scanning

(* At the beginning nothing has been passed. *)
LEMMA ParserInit == ASSUME Init PROVE ParserInv
<1>1. PICK n \in 0 .. MaxLength : json \in [1 .. n -> Chars]
  BY DEF Init
<1>2. n \in Nat
  BY <1>1, ParserAssumption
<1>3. json \in Seq(Chars) /\ Len(json) = n
  BY <1>1, <1>2 DEF Seq
<1>4. Typed
  <2>1. <<>> \in Seq(Others) /\ <<>> \in Seq(Seq(Others))
    BY EmptySeq
  <2>2. i \in 0 .. Len(json)
    BY <1>2, <1>3 DEF Init
  <2> QED
    BY <1>3, <2>1, <2>2 DEF Init, Typed
<1>5. i = 0 /\ i + 1 = 1
  BY DEF Init
<1>6. EndsTo(0) = {} /\ Kept(1) = {} /\ ~ Opened(0, 1)
  <2>1. 1 .. 1 - 1 = {} /\ 1 .. 0 = {}
    OBVIOUS
  <2>2. EndsTo(0) \subseteq 1 .. 0
    BY <1>4, Countable
  <2> QED
    BY <2>1, <2>2 DEF Kept, Opened
<1>7. /\ stringValue = <<>> /\ parsedValues = <<>> /\ pc = "scan" /\ saveNextChar = FALSE
      /\ Len(<<>>) = 0 /\ Cardinality({}) = 0
  BY FS_EmptySet DEF Init
<1>8. Found(0) /\ IsText(stringValue, 1)
  BY <1>6, <1>7 DEF Found, IsText
<1>9. \A b \in 1 .. 0 : FALSE
  OBVIOUS
<1>10. Scanning
  BY <1>5, <1>6, <1>7, <1>8, <1>9 DEF Scanning
<1> QED
  BY <1>4, <1>7, <1>10 DEF ParserInv, ScansFields

(* The scanner finds the value of every field, in order and in place, in   *)
(* payloads of any length over any characters (storage.c:111-144).         *)
THEOREM ScansEveryField == Spec => []ScansFields
<1>1. ParserInv /\ [Next]_vars => ParserInv'
  <2> SUFFICES ASSUME ParserInv, [Next]_vars PROVE ParserInv'
    OBVIOUS
  <2>1. CASE UNCHANGED vars
    <3>1. UNCHANGED <<json, i, saveNextChar, stringValue, parsedValues, pc>>
      BY <2>1 DEF vars
    <3>2. /\ Typed' /\ Ends' = Ends
          /\ Found(i)' <=> Found(i)
      BY <3>1, SamePayload DEF ParserInv, Typed, Found, Ends, IsSeparator
    <3>3. Scanning'
      BY <3>1, <3>2, SamePayload DEF ParserInv, Scanning
    <3> QED
      BY <3>1, <3>2, <3>3, SamePayload DEF ParserInv, ScansFields
  <2> QED
    BY <2>1, ColonStep, OtherStep, SeparatorStep, EndStep DEF Next
<1>2. ParserInv => ScansFields
  BY DEF ParserInv
<1> QED
  BY <1>1, <1>2, ParserInit, PTL DEF Spec
=============================================================================
