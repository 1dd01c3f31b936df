----------------------------- MODULE ProtoError -----------------------------
(***************************************************************************)
(* The text form of a protocol error (src/src/error/ProtoError.cpp), which *)
(* is the body of an "e" message: its number, its symbol, its message and  *)
(* an extra text, the last two each closed by a line with a dot.           *)
(***************************************************************************)
EXTENDS Message

Dot == 46

Errors == [number : Nat, symbol : Seq(Bytes), msg : Seq(Bytes), extra : Seq(Bytes)]

\* ProtoError::serialize.
SerializeError(e) ==
  Decimal(e.number) \o <<EOL>> \o e.symbol \o <<EOL>>
    \o e.msg \o <<EOL, Dot, EOL>> \o e.extra \o <<EOL, Dot, EOL>>

\* str.substr(0, pos) and str.erase(0, pos + k): when nothing was found pos is
\* npos, the whole text is the field, and npos + k wraps around to k - 1.
Field(s, bytes) == SubSeq(s, 1, Find(s, bytes) - 1)
Erase(s, bytes, k) ==
  SubSeq(s, IF Find(s, bytes) > Len(s) THEN k ELSE Find(s, bytes) + k, Len(s))

\* Mutant: the line with the dot is not skipped.
DeserializeErrorShort(s) ==
  LET symbols  == Erase(s, {EOL}, 1)
      messages == Erase(symbols, {EOL}, 1)
      extras   == Erase(messages, {EOL, Dot}, 1)
  IN [number |-> Number(Field(s, {EOL})).value, symbol |-> Field(symbols, {EOL}),
      msg |-> Field(messages, {EOL, Dot}), extra |-> Field(extras, {EOL, Dot})]

\* ProtoError::deserialize: find_first_of("\n.\n") looks for an end of line or
\* a dot, not for the closing line.
DeserializeError(s) ==
  LET symbols  == Erase(s, {EOL}, 1)
      messages == Erase(symbols, {EOL}, 1)
      extras   == Erase(messages, {EOL, Dot}, 3)
  IN [number |-> Number(Field(s, {EOL})).value, symbol |-> Field(symbols, {EOL}),
      msg |-> Field(messages, {EOL, Dot}), extra |-> Field(extras, {EOL, Dot})]
=============================================================================
