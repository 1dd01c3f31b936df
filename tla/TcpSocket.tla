----------------------------- MODULE TcpSocket -----------------------------
(***************************************************************************)
(* A TCP connection seen from the end that stays: what TcpSocket::write    *)
(* and TcpSocket::read return or raise once the other end has gone away.   *)
(*                                                                         *)
(*   "idle"    not connected yet                                           *)
(*   "open"    both ends are there                                         *)
(*   "fin"     the other end closed in order: a read meets end of file     *)
(*   "rst"     the other end reset the connection, nobody has been told    *)
(*   "dead"    the reset was reported, or answered a write: a further      *)
(*             write raises SIGPIPE, which no part of the program blocks   *)
(*             (send is called with no flags)                              *)
(*   "closed"  this end closed it                                          *)
(***************************************************************************)
EXTENDS Naturals, Sequences

LinkStates == {"idle", "open", "fin", "rst", "dead", "closed"}

\* What one write does to its caller.
WriteResult(l) ==
  CASE l = "open"             -> "sent"
    [] l = "fin"              -> "lost"     \* send() succeeds, nobody reads
    [] l \in {"rst", "closed"} -> "Except"
    [] OTHER                  -> "SIGPIPE"

WriteReturns(l) == WriteResult(l) \in {"sent", "lost"}

\* The link after a write: the reset that answers a write to a closed peer
\* may or may not have come back by the time of the next call.
LinkAfterWrite(l) ==
  CASE l = "fin" -> {"fin", "dead"}
    [] l = "rst" -> {"dead"}
    [] OTHER     -> {l}

\* A read finds data, end of file (the empty string) or a pending reset
\* (an Except); with none of these it blocks.
HasData(buffer)        == buffer # << >>
AtEof(l, buffer)       == buffer = << >> /\ l \in {"fin", "dead"}
ReadFails(l, buffer)   == buffer = << >> /\ l = "rst"

\* One read returns what the stream holds, up to any point: the first message
\* is parsed, those that came along in the same chunk are gone.
LeftAfterRead(buffer) ==
  { SubSeq(buffer, k + 1, Len(buffer)) : k \in 1..Len(buffer) }
=============================================================================
