------------------------------ MODULE Channel ------------------------------
(***************************************************************************)
(* What the programs may take a connection for: a queue of messages, from  *)
(* which a read takes the first and loses some of those that follow it;    *)
(* and, once a message was read in part, nothing to rely on.  The modules  *)
(* of the session, the server and their clients are written over this      *)
(* queue (LeftAfterRead of TcpSocket); Wire shows how far TCP keeps it.    *)
(***************************************************************************)
EXTENDS TcpSocket, Message

CONSTANT Payloads   \* the messages that may be written

VARIABLES pending,   \* written and not taken or lost yet
          received,  \* what each read was parsed to
          cut,       \* a read ended within a message
          over       \* the reader met the end of the stream, or an error

channelVars == <<pending, received, cut, over>>

CInit == pending = << >> /\ received = << >> /\ cut = FALSE /\ over = FALSE

Put(m) ==
  /\ ~cut /\ pending' = Append(pending, m)
  /\ UNCHANGED <<received, cut, over>>

\* A message whose type is no letter is read and refused.
Readable(m) == IF m.type \in Lowercase THEN m ELSE NoMessage

Take ==
  /\ ~cut /\ ~over /\ pending # << >>
  /\ received' = Append(received, Readable(Head(pending)))
  /\ pending' \in LeftAfterRead(pending)
  /\ UNCHANGED <<cut, over>>

\* What a message may be taken for when its end is missing: its type is its own,
\* its body a part of it or of the digits of its length.
Prefixes(s) == { SubSeq(s, 1, k) : k \in 0..Len(s) }
Shortened(m) ==
  {NoMessage} \cup
  { [type |-> m.type, body |-> b] : b \in Prefixes(m.body) \cup Prefixes(Decimal(Len(m.body))) }

TakePart ==
  /\ ~cut /\ ~over /\ pending # << >>
  /\ cut' = TRUE
  /\ \E m \in Shortened(Head(pending)) : received' = Append(received, m)
  /\ UNCHANGED over

\* The end of the stream reads as no message; a reset raises.
End ==
  /\ ~over /\ over' = TRUE
  /\ received' \in {received, Append(received, NoMessage)}
  /\ UNCHANGED <<pending, cut>>

AnythingGoes == cut /\ cut'

CNext == Take \/ TakePart \/ End \/ AnythingGoes \/ \E m \in Payloads : Put(m)
ChannelSpec == CInit /\ [][CNext]_channelVars
=============================================================================
