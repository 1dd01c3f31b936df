-------------------------------- MODULE Wire --------------------------------
(***************************************************************************)
(* One direction of a TCP connection under TcpSocket::write and            *)
(* TcpSocket::read (src/src/network/TcpSocket.cpp) and the messages the    *)
(* programs pass through it.  The kernel keeps the order of the bytes and  *)
(* nothing else: a read may find any part of what was written, or several  *)
(* messages at once.  The bytes ever written stay in `stream`; positions   *)
(* in it say how many of them arrived and were taken.                      *)
(***************************************************************************)
EXTENDS ProtoError, FiniteSets

CONSTANTS Payloads,   \* the messages that may be written
          Raised,     \* the errors among them, the bodies of the "e" messages
          Buf,        \* __BUFRD, the most a recv takes
          Ahead,      \* how many messages the writer may be ahead of the reader's answers
          MaxSends    \* how many messages are written

Error == 101   \* the type of an error, "e"

ASSUME PayloadsAssumption == Payloads \subseteq Messages

\* What is written is text: no body has a zero byte in it.
ASSUME TextAssumption == \A m \in Payloads : \A i \in 1..Len(m.body) : m.body[i] # NUL

\* Every error is made from ProtoError::Types (ProtoError.cpp:111-127), where a
\* symbol is one line, and so is a message, with a dot nowhere but at its end.
ASSUME RaisedAssumption ==
  /\ Raised \subseteq Errors
  /\ \A e \in Raised :
       /\ \A i \in 1..Len(e.symbol) : e.symbol[i] # EOL
       /\ \A i \in 1..Len(e.msg) : e.msg[i] # EOL /\ (e.msg[i] = Dot => i = Len(e.msg))
  /\ \A m \in Payloads : m.type = Error => \E e \in Raised : m.body = SerializeError(e)
ASSUME BufAssumption      == Buf \in Nat \ {0}
ASSUME WritesAssumption   == Ahead \in Nat \ {0} /\ MaxSends \in Nat

VARIABLES sent, stream, ends,     \* what was written, and where each message ends
          link,                   \* how the writer left
          arrived, taken, start,  \* the reader's buffer ends, begins; its read began
          received, cut,          \* history: what they were parsed to, up to the first
                                  \* read that ended within a message
          over                    \* the reader gave up

writer == <<sent, stream, ends, link>>
reader == <<taken, start, received, cut, over>>
vars   == <<writer, arrived, reader>>

Boundaries == {0} \cup { ends[i] : i \in 1..Len(sent) }

\* The type invariant, with the order of the positions; a read that goes on has
\* taken full buffers only.
WireTypeOK ==
  /\ sent \in Seq(Payloads) /\ received \in Seq(Messages)
  /\ stream \in Seq(Bytes)
  /\ ends \in [1..Len(sent) -> 1..Len(stream)] /\ Len(stream) \in Boundaries
  /\ link \in {"open", "fin", "rst"} /\ cut \in BOOLEAN /\ over \in BOOLEAN
  /\ arrived \in 0..Len(stream) /\ taken \in 0..arrived /\ start \in 0..taken
  /\ (taken - start) % Buf = 0

Init ==
  /\ sent = << >> /\ stream = << >> /\ ends = << >> /\ link = "open"
  /\ arrived = 0 /\ taken = 0 /\ start = 0
  /\ received = << >> /\ cut = FALSE /\ over = FALSE

\* TcpSocket::write: a blocking send takes the whole text.
Writes(m) ==
  /\ link = "open" /\ Len(sent) < MaxSends /\ Len(sent) < Len(received) + Ahead
  /\ sent' = Append(sent, m) /\ stream' = stream \o Serialize(m) /\ ends' = Append(ends, Len(stream'))
  /\ UNCHANGED <<link, arrived, reader>>

Leaves ==
  /\ link = "open" /\ link' \in {"fin", "rst"}
  /\ UNCHANGED <<sent, stream, ends, arrived, reader>>

\* The kernel delivers some of what is under way; a reset drops the rest.
Arrives ==
  /\ link # "rst" /\ arrived < Len(stream)
  /\ arrived' \in (arrived + 1)..Len(stream)
  /\ UNCHANGED <<writer, reader>>

\* What one recv takes, as a C string, and what the read took before it.
Chunk   == SubSeq(stream, taken + 1, IF taken + Buf < arrived THEN taken + Buf ELSE arrived)
CString == SubSeq(Chunk, 1, Find(Chunk, {NUL}) - 1)
SoFar   == SubSeq(stream, start + 1, taken)

\* read() returns a text, and its caller parses it.
Returns(text) ==
  /\ received' = IF cut THEN received ELSE Append(received, Deserialize(text))
  /\ start' = taken' /\ cut' = (cut \/ taken' \notin Boundaries)

\* Mutant: read on as long as there was something.
ReceivesToTheEnd ==
  /\ ~over /\ taken < arrived
  /\ taken' = taken + Len(Chunk)
  /\ UNCHANGED <<writer, arrived, start, received, cut, over>>

\* A chunk that fills the buffer is not the last one.
Receives ==
  /\ ~over /\ taken < arrived
  /\ taken' = taken + Len(Chunk)
  /\ IF Len(CString) = Buf THEN UNCHANGED <<start, received, cut>> ELSE Returns(SoFar \o CString)
  /\ UNCHANGED <<writer, arrived, over>>

\* recv returns nothing at the end of the stream.  The caller of a read that
\* took nothing at all has no message, and gives up.
MeetsEnd ==
  /\ ~over /\ link = "fin" /\ taken = Len(stream)
  /\ UNCHANGED taken /\ Returns(SoFar)
  /\ over' = (SoFar = << >>)
  /\ UNCHANGED <<writer, arrived>>

\* recv fails: what the read took so far is gone with the Except.
Fails ==
  /\ ~over /\ link = "rst" /\ taken = arrived
  /\ over' = TRUE /\ UNCHANGED <<writer, arrived, taken, start, received, cut>>

Reads == Receives \/ MeetsEnd \/ Fails

Finished == over /\ UNCHANGED vars
Next == Leaves \/ Arrives \/ Reads \/ Finished \/ \E m \in Payloads : Writes(m)
Spec == Init /\ [][Next]_vars

\* The network delivers and the reader runs, neither of which can go on for ever
\* without the other; the writer may stop.
LiveSpec == Spec /\ WF_vars(Arrives \/ Reads)
----------------------------------------------------------------------------
(* Properties.                                                             *)

TakenMessages == Cardinality({ i \in 1..Len(sent) : ends[i] <= start })

\* Until a read ends within a message the connection is a queue of messages,
\* whose reads return the first one as it was written, lose only whole messages
\* that follow it, and put none together; and the first message read in part
\* keeps its type and has no byte that was not sent (TcpSocket.cpp:106-118,
\* Body.cpp:14-30).
AsChannel == INSTANCE Channel WITH
  pending <- SubSeq(sent, TakenMessages + 1, Len(sent))
ChannelSpec == AsChannel!ChannelSpec

\* All that is written is read and returned, however it is cut: a read waits in
\* vain only when what is there is a multiple of the buffer's size
\* (TcpSocket.cpp:110-115).
WaitsInVain ==
  link = "open" /\ taken = Len(stream) /\ taken # start /\ (taken - start) % Buf = 0
ReadsCatchUp == []<>(start = Len(stream) \/ WaitsInVain \/ over)

\* The format of errors (src/README.md:395-405): the message and the extra text
\* are each closed by a line with a dot, so an error that was read whole is the
\* one that was raised, with all of its texts.
ErrorsSurvive ==
  ~cut => \A i \in 1..Len(received) :
    received[i].type = Error =>
      \E e \in Raised : /\ received[i].body = SerializeError(e)
                       /\ DeserializeError(received[i].body) = e

\* And at the least the number and the symbol are, however long the texts behind
\* them, and all of an error without a dot or an end of line in its texts
\* (ProtoError.cpp:39-66).
Plain(s) == \A i \in 1..Len(s) : s[i] \notin {EOL, Dot}
PlainErrorsSurvive ==
  ~cut => \A i \in 1..Len(received) :
    received[i].type = Error =>
      \E e \in Raised :
        LET read == DeserializeError(received[i].body) IN
        /\ received[i].body = SerializeError(e)
        /\ read.number = e.number /\ read.symbol = e.symbol
        /\ Plain(e.msg) => read.msg = e.msg
        /\ Plain(e.msg) /\ Plain(e.extra) => read = e
=============================================================================
