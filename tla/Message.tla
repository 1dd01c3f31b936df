------------------------------ MODULE Message ------------------------------
(***************************************************************************)
(* The text form of a message (src/src/network/Message.cpp and Body.cpp):  *)
(* a type, a blank, the length of the body in decimal, an end of line, the *)
(* body and an end of line.  A text is a sequence of bytes, so that it can *)
(* be cut anywhere; a message is a record of its type and its body.        *)
(***************************************************************************)
EXTENDS Naturals, Sequences

NUL == 0
EOL == 10
Blank == 32
Digits == 48..57
Lowercase == 97..122
Bytes == 0..255

Messages == [type : Bytes, body : Seq(Bytes)]

\* Message(): what its default constructor leaves.
NoMessage == [type |-> NUL, body |-> << >>]

\* A number as operator<< writes it.
Decimal(n) ==
  LET text[k \in Nat] ==
        IF k < 10 THEN <<48 + k>> ELSE Append(text[k \div 10], 48 + (k % 10))
  IN text[n]

\* Mutant: the body without its length's line.
SerializeBare(m) == <<m.type, Blank>> \o m.body \o <<EOL>>

Serialize(m) == <<m.type, Blank>> \o Decimal(Len(m.body)) \o <<EOL>> \o m.body \o <<EOL>>

\* The first place of a text with one of these bytes, or the one after its end.
Find(s, bytes) ==
  LET found == { p \in 1..Len(s) : s[p] \in bytes }
  IN IF found = {} THEN Len(s) + 1 ELSE CHOOSE p \in found : \A k \in found : p <= k

\* std::stoul: blanks are skipped, digits are read up to something else, and
\* without one it throws.
Number(s) ==
  LET skipped == Find(s, 0..255 \ {Blank})
      after   == Find(SubSeq(s, skipped, Len(s)), 0..255 \ Digits)
      digits  == SubSeq(s, skipped, skipped + after - 2)
      value[k \in 0..Len(digits)] == IF k = 0 THEN 0 ELSE (10 * value[k - 1]) + digits[k] - 48
  IN [thrown |-> digits = << >>, value |-> value[Len(digits)]]

\* Message::deserialize and Body::deserialize.  A type is a small letter and a
\* blank.  Without an end of line the search yields -1, and the body is taken
\* from the start of the length's own text.
BodyText(s)   == SubSeq(s, 3, Len(s))
LengthEnd(s)  == Find(BodyText(s), {EOL})
LengthOf(s)   == Number(SubSeq(BodyText(s), 1, LengthEnd(s) - 1))
BodyStart(s)  == IF LengthEnd(s) > Len(BodyText(s)) THEN 1 ELSE LengthEnd(s) + 1

IsMessage(s) ==
  /\ Len(s) >= 2 /\ s[1] \in Lowercase /\ s[2] = Blank
  /\ ~LengthOf(s).thrown

\* Mutant: the length is read, not used.
DeserializeAll(s) ==
  IF ~IsMessage(s) THEN NoMessage
  ELSE [type |-> s[1], body |-> SubSeq(BodyText(s), BodyStart(s), Len(BodyText(s)))]

\* A body shorter than its length is taken as it is; what follows it is dropped.
\* A text that is no message throws, which is written NoMessage here.
Deserialize(s) ==
  IF ~IsMessage(s) THEN NoMessage
  ELSE LET text == BodyText(s)
           last == BodyStart(s) + LengthOf(s).value - 1
       IN [type |-> s[1],
           body |-> SubSeq(text, BodyStart(s), IF last < Len(text) THEN last ELSE Len(text))]
=============================================================================
