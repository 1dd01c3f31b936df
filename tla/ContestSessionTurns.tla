------------------------ MODULE ContestSessionTurns ------------------------
(* The conversations of ContestSession: whose turn it is to speak, for     *)
(* every number of connections, nicknames and questions.                   *)
EXTENDS ContestSessionProofs

Silent(c) == toServer[c] = << >> /\ toContestant[c] = << >>

\* Nothing is under way but perhaps the OK of the handshake.
Quiet(c) == toServer[c] = << >> /\ toContestant[c] \in {<< >>, <<Ok>>}

\* The session has spoken to n and waits for what n says to that.
Awaited(n) == task[n] = "reading" \/ (pc \in {"acking", "closeack"} /\ n = First(rest))

OneUnderWay(c) ==
  \/ Len(toServer[c]) + Len(toContestant[c]) <= 1
  \/ /\ toServer[c] = << >> /\ Len(toContestant[c]) = 2
     /\ Head(toContestant[c]) = Ok

\* What is said on connection c before a contestant is registered for it.
Handshake(c) ==
  /\ nego[c] = "none" => link[c] = "idle" /\ ~greeted[c]
  /\ ~greeted[c] => Silent(c)
  /\ nego[c] = "replying" => greeted[c] /\ (link[c] = "open" => Silent(c))

\* A contestant the session does not wait for has nothing to say.
Rounds(n) ==
  /\ greeted[contestants[n]]
  /\ link[contestants[n]] = "open" /\ ~Awaited(n) => Quiet(contestants[n])

Turns ==
  /\ \A c \in Conns : OneUnderWay(c) /\ Handshake(c)
  /\ \A n \in Joined : Rounds(n)

Kept == Typed /\ Registered /\ Turns

-----------------------------------------------------------------------------
(* Lemmas about one connection. *)

\* A write adds its message where the contestant is still there; no write opens
\* or closes the way to it.
LEMMA WriteAppends ==
  ASSUME WireOK, NEW c \in Conns, NEW m \in FromServer, Write(c, m)
  PROVE  /\ UNCHANGED <<toServer, greeted>>
         /\ \A d \in Conns \ {c} : link'[d] = link[d] /\ toContestant'[d] = toContestant[d]
         /\ link'[c] = "open" <=> link[c] = "open"
         /\ link'[c] = "idle" <=> link[c] = "idle"
         /\ toContestant'[c] = IF link[c] = "open" THEN Append(toContestant[c], m)
                                                  ELSE toContestant[c]
<1>1. PICK l \in LinkAfterWrite(link[c]) : link' = [link EXCEPT ![c] = l]
  BY DEF Write
<1>2. (l = "open" <=> link[c] = "open") /\ (l = "idle" <=> link[c] = "idle")
  BY <1>1 DEF LinkAfterWrite
<1>3. QED
  BY <1>1, <1>2 DEF Write, WireOK

\* What a write to a quiet connection puts under way.
LEMMA WriteTakesTurn ==
  ASSUME WireOK, NEW c \in Conns, NEW m \in FromServer, Write(c, m), OneUnderWay(c),
         link[c] = "open" => Quiet(c)
  PROVE  OneUnderWay(c)'
<1>1. toServer' = toServer
      /\ toContestant'[c] = IF link[c] = "open" THEN Append(toContestant[c], m)
                                                ELSE toContestant[c]
  BY WriteAppends
<1>2. CASE link[c] # "open"
  BY <1>1, <1>2 DEF OneUnderWay
<1>3. CASE link[c] = "open" /\ toContestant[c] = << >>
  <2>1. toContestant'[c] = <<m>>
    BY <1>1, <1>3
  <2>2. QED
    BY <1>1, <1>3, <2>1 DEF OneUnderWay, Quiet
<1>4. CASE link[c] = "open" /\ toContestant[c] = <<Ok>>
  <2>1. Ok \in FromServer
    BY DEF FromServer
  <2>2. Len(<<Ok>>) = 1 /\ Head(<<Ok>>) = Ok /\ <<Ok>> \in Seq(FromServer)
    BY <2>1
  <2>3. Len(toContestant'[c]) = 2 /\ Head(toContestant'[c]) = Ok
    BY <1>1, <1>4, <2>2
  <2>4. QED
    BY <1>1, <1>4, <2>3 DEF OneUnderWay, Quiet
<1>5. QED
  BY <1>2, <1>3, <1>4 DEF Quiet

\* A read takes what there is.
LEMMA ReadDataSilences ==
  ASSUME WireOK, NEW c \in Conns, OneUnderWay(c), HasData(toServer[c]),
         NEW s \in LeftAfterRead(toServer[c])
  PROVE  s = << >> /\ toContestant[c] = << >>
<1>1. toServer[c] \in Seq(FromContestant) /\ toContestant[c] \in Seq(FromServer)
      /\ toServer[c] # << >>
  BY DEF WireOK, HasData
<1>2. Len(toServer[c]) = 1 /\ Len(toContestant[c]) = 0
  <2>1. Len(toServer[c]) \in Nat \ {0} /\ Len(toContestant[c]) \in Nat
    BY <1>1
  <2>2. Len(toServer[c]) + Len(toContestant[c]) <= 1
    BY <1>1 DEF OneUnderWay
  <2>3. \A a, b \in Nat : a # 0 /\ a + b <= 1 => a = 1 /\ b = 0
    OBVIOUS
  <2>4. QED
    BY <2>1, <2>2, <2>3
<1>3. s = SubSeq(toServer[c], 2, 1)
  BY <1>2 DEF LeftAfterRead
<1>4. QED
  BY <1>1, <1>2, <1>3

\* After a read, whatever it returned or raised, nothing is left to be said on a
\* connection that is still open.
LEMMA ReadSilences ==
  ASSUME WireOK, NEW c \in Conns, OneUnderWay(c),
         ReadData(c) \/ ReadEof(c) \/ ReadError(c)
  PROVE  /\ OneUnderWay(c)'
         /\ link'[c] = "open" => Silent(c)'
         /\ (link'[c] = "idle" <=> link[c] = "idle") /\ UNCHANGED <<toContestant, greeted>>
         /\ \A d \in Conns \ {c} : link'[d] = link[d] /\ toServer'[d] = toServer[d]
<1>1. CASE ReadData(c)
  <2>1. PICK s \in LeftAfterRead(toServer[c]) : toServer' = [toServer EXCEPT ![c] = s]
    BY <1>1 DEF ReadData
  <2>2. s = << >> /\ toContestant[c] = << >>
    BY <1>1, ReadDataSilences DEF ReadData
  <2>3. QED
    BY <1>1, <2>1, <2>2 DEF ReadData, OneUnderWay, Silent, WireOK
<1>2. CASE ReadEof(c)
  BY <1>2 DEF ReadEof, AtEof, wire, OneUnderWay
<1>3. CASE ReadError(c)
  BY <1>3 DEF ReadError, ReadFails, OneUnderWay, WireOK
<1>4. QED
  BY <1>1, <1>2, <1>3

\* Whoever waits for nothing stays quiet: of what was said to it, only the OK of
\* the handshake is left, which no contestant answers.
LEMMA NobodyAnswersOk == Replies(Ok) = {}
BY DEF Replies, PoliteReply, Ok

\* One connection, when another one is spoken on.
LEMMA OthersKeepTurn ==
  ASSUME Turns, NEW d \in Conns,
         link'[d] = link[d], toServer'[d] = toServer[d], toContestant'[d] = toContestant[d],
         greeted'[d] = greeted[d], nego'[d] = nego[d]
  PROVE  OneUnderWay(d)' /\ Handshake(d)'
BY DEF Turns, OneUnderWay, Handshake, Silent

LEMMA OthersKeepRound ==
  ASSUME Turns, NEW n \in Joined, NEW d \in Conns, contestants[n] = d, contestants'[n] = d,
         link'[d] = link[d], toServer'[d] = toServer[d], toContestant'[d] = toContestant[d],
         greeted'[d] = greeted[d], Awaited(n) => Awaited(n)'
  PROVE  Rounds(n)'
BY DEF Turns, Rounds, Quiet

\* Steps that speak to nobody.
LEMMA NothingSaid ==
  ASSUME Turns, UNCHANGED <<wire, nego, contestants>>,
         \A n \in Joined : Awaited(n) => Awaited(n)'
  PROVE  Turns'
BY DEF Turns, OneUnderWay, Handshake, Silent, Rounds, Quiet, wire, Joined

-----------------------------------------------------------------------------
(* Every action keeps the turns. *)

LEMMA InitTurns == Init => Turns
BY DEF Init, Turns, OneUnderWay, Handshake, Silent, Joined

LEMMA SilentOwnerTurns ==
  ASSUME Kept,
         StartSession \/ AcceptTimedOut \/ AcceptFails \/ JoinThreads \/ PlayRound \/ AllAnswered
           \/ RoundOver \/ TerminateSession \/ SessionOver \/ CallRefused
  PROVE  Turns'
<1>1. UNCHANGED <<wire, nego, contestants>>
  BY DEF StartSession, AcceptTimedOut, AcceptFails, JoinThreads, PlayRound, AllAnswered, RoundOver,
     TerminateSession, SessionOver, CallRefused, session, joining
<1>2. pc \notin {"acking", "closeack"}
  BY DEF StartSession, AcceptTimedOut, AcceptFails, JoinThreads, PlayRound, AllAnswered, RoundOver,
     TerminateSession, SessionOver, CallRefused
<1>3. ASSUME NEW n \in Joined, task[n] = "reading" PROVE task'[n] = "reading"
  <2>1. n \in Nicks /\ pc = "playing"
    BY <1>3 DEF Kept, Typed, TypeOK, SessionOK, Shape
  <2>2. AllAnswered \/ AcceptFails
    BY <2>1 DEF StartSession, AcceptTimedOut, JoinThreads, PlayRound, RoundOver,
       TerminateSession, SessionOver, CallRefused
  <2>3. QED
    BY <1>3, <2>2 DEF AllAnswered, AcceptFails, tasks
<1>4. QED
  BY <1>1, <1>2, <1>3, NothingSaid DEF Kept, Awaited

LEMMA SilentTaskTurns ==
  ASSUME Kept, NEW n \in Nicks, IncreaseScore(n) \/ LoadStat(n) \/ StoreStat(n)
  PROVE  Turns'
<1>1. UNCHANGED <<wire, nego, contestants, pc, rest>>
  BY DEF IncreaseScore, LoadStat, StoreStat, session, joining, owner
<1>2. \A m \in Nicks : task[m] = "reading" => task'[m] = "reading"
  BY DEF IncreaseScore, LoadStat, StoreStat, Kept, Typed, TypeOK, TasksOK
<1>3. Joined \subseteq Nicks
  BY DEF Kept, Typed, TypeOK, SessionOK
<1>4. QED
  BY <1>1, <1>2, <1>3, NothingSaid DEF Kept, Awaited

\* Where a session reads or writes, nothing but that connection is touched.
LEMMA SpokenOn ==
  ASSUME Kept, NEW c \in Conns,
         UNCHANGED contestants, \A d \in Conns \ {c} : nego'[d] = nego[d],
         \A d \in Conns \ {c} : /\ link'[d] = link[d] /\ toServer'[d] = toServer[d]
                                /\ toContestant'[d] = toContestant[d] /\ greeted'[d] = greeted[d],
         \A n \in Joined : contestants[n] # c /\ Awaited(n) => Awaited(n)',
         OneUnderWay(c)', Handshake(c)',
         \A n \in Joined : contestants[n] = c => Rounds(n)'
  PROVE  Turns'
<1>1. \A d \in Conns : OneUnderWay(d)' /\ Handshake(d)'
  BY OthersKeepTurn DEF Kept
<1>2. \A n \in Joined : Rounds(n)'
  BY OthersKeepRound DEF Kept, Typed, TypeOK, SessionOK
<1>3. QED
  BY <1>1, <1>2 DEF Turns, Joined

LEMMA WindowEndsTurns == Kept /\ WindowEnds => Turns'
<1> SUFFICES ASSUME Kept, WindowEnds PROVE Turns'
  OBVIOUS
<1>1. UNCHANGED <<toServer, toContestant, greeted, nego, contestants, task, pc, rest>>
  BY DEF WindowEnds, tasks, owner
<1>2. \A c \in Conns : /\ link'[c] = "open" => link[c] = "open"
                       /\ nego[c] = "none" => link'[c] = link[c]
  BY DEF WindowEnds
<1>3. \A n \in Joined : contestants[n] \in Conns
  BY DEF Kept, Typed, TypeOK, SessionOK
<1>4. QED
  BY <1>1, <1>2, <1>3 DEF Kept, Turns, OneUnderWay, Handshake, Silent, Rounds, Quiet, Awaited, Joined

LEMMA AcceptTurns ==
  ASSUME Kept, NEW c \in Conns, Accept(c)
  PROVE  Turns'
<1>1. UNCHANGED <<wire, contestants, task, pc, rest>> /\ nego' = [nego EXCEPT ![c] = "reading"]
      /\ nego[c] = "queued"
  BY DEF Accept, session, tasks, owner
<1>2. QED
  BY <1>1 DEF Kept, Typed, TypeOK, JoiningOK, Turns, OneUnderWay, Handshake, Silent, Rounds, Quiet,
     Awaited, Joined, wire

\* A connection that is being negotiated is nobody's yet.
LEMMA NegotiatedIsNobodys ==
  ASSUME Kept, NEW c \in Conns, nego[c] # "done"
  PROVE  \A n \in Joined : contestants[n] # c
BY DEF Kept, Registered, OneReaderPerConnection

LEMMA ReadHelloTurns ==
  ASSUME Kept, NEW c \in Conns, ReadHello(c)
  PROVE  Turns'
<1>1. WireOK /\ ReadData(c) /\ HasData(toServer[c]) /\ nego[c] = "reading"
      /\ nego' = [nego EXCEPT ![c] = "replying"] /\ UNCHANGED <<contestants, task, pc, rest>>
  BY DEF ReadHello, ReadData, Kept, Typed, TypeOK, session, tasks, owner
<1>2. OneUnderWay(c)' /\ Silent(c)' /\ UNCHANGED <<link, toContestant, greeted>>
      /\ \A d \in Conns \ {c} : toServer'[d] = toServer[d]
  <2>1. PICK s \in LeftAfterRead(toServer[c]) : toServer' = [toServer EXCEPT ![c] = s]
    BY <1>1 DEF ReadData
  <2>2. s = << >> /\ toContestant[c] = << >>
    BY <1>1, ReadDataSilences DEF Kept, Turns
  <2>3. toServer'[c] = << >> /\ toContestant' = toContestant
    BY <1>1, <2>1, <2>2 DEF ReadData, WireOK
  <2>4. OneUnderWay(c)' /\ Silent(c)'
    BY <2>2, <2>3 DEF OneUnderWay, Silent
  <2>5. QED
    BY <1>1, <2>1, <2>4 DEF ReadData, WireOK
<1>3. greeted[c]
  BY <1>1 DEF HasData, Kept, Turns, Handshake, Silent
<1>4. Handshake(c)'
  BY <1>1, <1>2, <1>3 DEF Handshake, Silent, Kept, Typed, TypeOK, JoiningOK
<1>5. QED
  BY <1>1, <1>2, <1>4, NegotiatedIsNobodys, SpokenOn DEF Awaited, Kept, Typed, TypeOK, JoiningOK

LEMMA HangUpTurns ==
  ASSUME Kept, NEW c \in Conns, nego[c] \in {"reading", "replying"}, HangUp(c),
         UNCHANGED <<contestants, task, pc, rest>>
  PROVE  Turns'
<1>1. OneUnderWay(c)' /\ Handshake(c)'
  BY DEF HangUp, Kept, Turns, OneUnderWay, Handshake, Silent, Typed, TypeOK, WireOK, JoiningOK
<1>2. QED
  BY <1>1, NegotiatedIsNobodys, SpokenOn DEF HangUp, Awaited, Kept, Typed, TypeOK, JoiningOK, WireOK

LEMMA RefuseHelloTurns ==
  ASSUME Kept, NEW c \in Conns, RefuseHello(c)
  PROVE  Turns'
<1>1. nego[c] = "replying" /\ UNCHANGED <<contestants, task, pc, rest>> /\ WireOK
  BY DEF RefuseHello, session, tasks, owner, Kept, Typed, TypeOK
<1>2. CASE HangUp(c)
  BY <1>1, <1>2, HangUpTurns
<1>3. CASE Write(c, Refusal(req[c])) /\ nego' = [nego EXCEPT ![c] = "reading"]
  <2>1. Refusal(req[c]) \in FromServer
    BY RefusalTyped
  <2>2. OneUnderWay(c) /\ (link[c] = "open" => Quiet(c)) /\ greeted[c] /\ Handshake(c)
    BY <1>1 DEF Kept, Turns, Handshake, Silent, Quiet
  <2>3. OneUnderWay(c)'
    BY <1>1, <1>3, <2>1, <2>2, WriteTakesTurn
  <2>4. Handshake(c)'
    BY <1>1, <1>3, <2>1, <2>2, WriteAppends DEF Handshake, Kept, Typed, TypeOK, JoiningOK
  <2>5. QED
    BY <1>1, <1>3, <2>1, <2>3, <2>4, WriteAppends, NegotiatedIsNobodys, SpokenOn
    DEF Awaited, Kept, Typed, TypeOK, JoiningOK
<1>4. QED
  BY <1>2, <1>3 DEF RefuseHello

LEMMA AdmitContestantTurns ==
  ASSUME Kept, NEW c \in Conns, AdmitContestant(c)
  PROVE  Turns'
<1> DEFINE m == req[c]
<1>1. nego[c] = "replying" /\ UNCHANGED <<task, pc, rest>> /\ WireOK /\ Ok \in FromServer
  BY DEF AdmitContestant, tasks, owner, Kept, Typed, TypeOK, FromServer
<1>2. OneUnderWay(c) /\ (link[c] = "open" => Silent(c) /\ Quiet(c)) /\ greeted[c] /\ Handshake(c)
  BY <1>1 DEF Kept, Turns, Handshake, Silent, Quiet
<1>3. CASE HangUp(c) /\ UNCHANGED contestants
  BY <1>1, <1>3, HangUpTurns
<1>4. CASE Write(c, Ok) /\ UNCHANGED <<contestants, nego>> /\ ~WriteReturns(link[c])
  <2>1. link[c] # "open"
    BY <1>4 DEF WriteReturns, WriteResult
  <2>2. OneUnderWay(c)' /\ Handshake(c)'
    BY <1>1, <1>2, <1>4, <2>1, WriteTakesTurn, WriteAppends DEF Handshake, Silent
  <2>3. QED
    BY <1>1, <1>4, <2>2, WriteAppends, NegotiatedIsNobodys, SpokenOn DEF Awaited
<1>5. CASE /\ Write(c, Ok) /\ nego' = [nego EXCEPT ![c] = "done"]
           /\ contestants' = [n \in Joined \cup {m.nick} |-> IF n = m.nick THEN c ELSE contestants[n]]
           /\ m.nick \notin Joined
  <2>1. /\ UNCHANGED <<toServer, greeted>>
        /\ \A d \in Conns \ {c} : /\ link'[d] = link[d] /\ toContestant'[d] = toContestant[d]
                                  /\ nego'[d] = nego[d] /\ toServer'[d] = toServer[d]
                                  /\ greeted'[d] = greeted[d]
        /\ link'[c] = "open" <=> link[c] = "open"
        /\ toContestant'[c] = IF link[c] = "open" THEN Append(toContestant[c], Ok)
                                                 ELSE toContestant[c]
    BY <1>1, <1>5, WriteAppends DEF Kept, Typed, TypeOK, JoiningOK
  <2>2. OneUnderWay(c)'
    BY <1>1, <1>2, <1>5, WriteTakesTurn
  <2>3. Handshake(c)'
    BY <1>1, <1>2, <1>5, <2>1 DEF Handshake, Kept, Typed, TypeOK, JoiningOK
  <2>4. \A d \in Conns : OneUnderWay(d)' /\ Handshake(d)'
    BY <2>1, <2>2, <2>3, OthersKeepTurn DEF Kept
  <2>5. ASSUME NEW n \in Joined PROVE Rounds(n)'
    <3>1. contestants[n] \in Conns \ {c} /\ contestants'[n] = contestants[n]
      BY <1>1, <1>5, NegotiatedIsNobodys DEF Kept, Typed, TypeOK, SessionOK
    <3>2. QED
      BY <1>1, <2>1, <3>1, OthersKeepRound DEF Kept, Awaited
  <2>6. PICK k : k = m.nick
    OBVIOUS
  <2>7. Rounds(k)'
    <3>1. contestants'[k] = c
      BY <1>5, <2>6
    <3>2. ASSUME link'[c] = "open" PROVE toContestant'[c] = <<Ok>> /\ toServer'[c] = << >>
      <4>1. link[c] = "open" /\ toContestant[c] = << >> /\ toServer'[c] = << >>
        BY <1>2, <2>1, <3>2 DEF Silent
      <4>2. toContestant'[c] = Append(<< >>, Ok)
        BY <2>1, <4>1
      <4>3. QED
        BY <1>1, <4>1, <4>2
    <3>3. greeted'[c]
      BY <1>2, <2>1
    <3>4. QED
      BY <3>1, <3>2, <3>3 DEF Rounds, Quiet
  <2>8. Joined' = Joined \cup {k}
    BY <1>5, <2>6 DEF Joined
  <2>9. QED
    BY <2>4, <2>5, <2>7, <2>8 DEF Turns
<1>6. QED
  BY <1>3, <1>4, <1>5 DEF AdmitContestant

\* The session writes to a contestant it does not wait for, or reads from one.
LEMMA RoundTurns ==
  ASSUME Kept, NEW n \in Joined, NEW c \in Conns, c = contestants[n],
         UNCHANGED <<contestants, nego>>,
         \A k \in Joined \ {n} : Awaited(k) => Awaited(k)',
         \/ \E m \in FromServer : Write(c, m) /\ ~Awaited(n) /\ (Awaited(n)' \/ link[c] # "open")
         \/ ReadData(c) \/ ReadEof(c) \/ ReadError(c)
         \/ /\ HasData(toServer[c]) /\ UNCHANGED <<toContestant, greeted>>
            /\ \E s \in LeftAfterRead(toServer[c]) : toServer' = [toServer EXCEPT ![c] = s]
            /\ link' = [link EXCEPT ![c] = "closed"]
  PROVE  Turns'
<1>1. WireOK /\ OneUnderWay(c) /\ Handshake(c) /\ Rounds(n) /\ greeted[c] /\ nego[c] = "done"
      /\ \A k \in Joined \ {n} : contestants[k] # c
  BY DEF Kept, Turns, Registered, OneReaderPerConnection, Rounds, Typed, TypeOK, SessionOK
<1>2. ASSUME OneUnderWay(c)', Handshake(c)', Rounds(n)',
             \A d \in Conns \ {c} : /\ link'[d] = link[d] /\ toServer'[d] = toServer[d]
                                    /\ toContestant'[d] = toContestant[d]
                                    /\ greeted'[d] = greeted[d]
      PROVE  Turns'
  BY <1>1, <1>2, SpokenOn
<1>3. CASE \E m \in FromServer : Write(c, m) /\ ~Awaited(n) /\ (Awaited(n)' \/ link[c] # "open")
  <2>1. PICK m \in FromServer : Write(c, m) /\ ~Awaited(n) /\ (Awaited(n)' \/ link[c] # "open")
    BY <1>3
  <2>2. link[c] = "open" => Quiet(c)
    BY <1>1, <2>1 DEF Rounds
  <2>3. OneUnderWay(c)'
    BY <1>1, <2>1, <2>2, WriteTakesTurn
  <2>4. greeted'[c] /\ link'[c] = "open" <=> link[c] = "open"
    BY <1>1, <2>1, WriteAppends
  <2>5. Handshake(c)' /\ Rounds(n)'
    BY <1>1, <2>1, WriteAppends DEF Handshake, Rounds
  <2>6. QED
    BY <1>1, <1>2, <2>1, <2>3, <2>5, WriteAppends
<1>4. CASE ReadData(c) \/ ReadEof(c) \/ ReadError(c)
  <2>1. OneUnderWay(c)' /\ UNCHANGED <<toContestant, greeted>>
        /\ (link'[c] = "open" => Silent(c)')
        /\ \A d \in Conns \ {c} : link'[d] = link[d] /\ toServer'[d] = toServer[d]
    BY <1>1, <1>4, ReadSilences
  <2>2. Handshake(c)' /\ Rounds(n)'
    BY <1>1, <2>1 DEF Handshake, Rounds, Silent, Quiet
  <2>3. QED
    BY <1>2, <2>1, <2>2
<1>5. CASE /\ HasData(toServer[c]) /\ UNCHANGED <<toContestant, greeted>>
           /\ \E s \in LeftAfterRead(toServer[c]) : toServer' = [toServer EXCEPT ![c] = s]
           /\ link' = [link EXCEPT ![c] = "closed"]
  <2>1. PICK s \in LeftAfterRead(toServer[c]) : toServer' = [toServer EXCEPT ![c] = s]
    BY <1>5
  <2>2. s = << >> /\ toContestant[c] = << >>
    BY <1>1, <1>5, ReadDataSilences
  <2>3. toServer'[c] = << >> /\ link'[c] = "closed"
    BY <1>1, <1>5, <2>1, <2>2 DEF WireOK
  <2>4. OneUnderWay(c)' /\ Handshake(c)' /\ Rounds(n)'
    BY <1>1, <1>5, <2>2, <2>3 DEF OneUnderWay, Handshake, Rounds
  <2>5. QED
    BY <1>1, <1>2, <1>5, <2>1, <2>4 DEF WireOK
<1>6. QED
  BY <1>3, <1>4, <1>5

LEMMA SendQuestionTurns ==
  ASSUME Kept, NEW n \in Nicks, SendQuestion(n)
  PROVE  Turns'
<1> DEFINE c == contestants[n]
<1>1. n \in Joined /\ c \in Conns /\ task[n] = "sending" /\ pc = "playing"
      /\ Question(qid) \in FromServer
  BY QuestionTyped DEF SendQuestion, Kept, Typed, TypeOK, SessionOK, Shape
<1>2. /\ UNCHANGED <<contestants, nego, pc, rest>> /\ Write(c, Question(qid))
      /\ \A k \in Nicks \ {n} : task'[k] = task[k]
      /\ WriteResult(link[c]) # "Except" => task'[n] = "reading"
  BY DEF SendQuestion, session, owner, joining, Kept, Typed, TypeOK, TasksOK
<1>3. ~Awaited(n) /\ (Awaited(n)' \/ link[c] # "open")
  <2>1. ASSUME link[c] = "open" PROVE task'[n] = "reading"
    <3>1. WriteResult("open") # "Except"
      BY DEF WriteResult
    <3>2. QED
      BY <1>2, <2>1, <3>1
  <2>2. QED
    BY <1>1, <2>1 DEF Awaited
<1>4. \A k \in Joined \ {n} : Awaited(k) => Awaited(k)'
  BY <1>1, <1>2 DEF Awaited, Kept, Typed, TypeOK, SessionOK
<1>5. QED
  BY <1>1, <1>2, <1>3, <1>4, RoundTurns

LEMMA ReadAnswerTurns ==
  ASSUME Kept, NEW n \in Nicks, ReadAnswer(n)
  PROVE  Turns'
<1> DEFINE c == contestants[n]
<1>1. n \in Joined /\ c \in Conns /\ pc = "playing"
  BY DEF ReadAnswer, Kept, Typed, TypeOK, SessionOK, Shape
<1>2. UNCHANGED <<contestants, nego, pc, rest>>
      /\ (ReadData(c) \/ ReadEof(c) \/ ReadError(c))
      /\ \A k \in Nicks \ {n} : task'[k] = task[k]
  BY DEF ReadAnswer, session, owner, joining, Kept, Typed, TypeOK, TasksOK
<1>3. \A k \in Joined \ {n} : Awaited(k) => Awaited(k)'
  BY <1>1, <1>2 DEF Awaited, Kept, Typed, TypeOK, SessionOK
<1>4. QED
  BY <1>1, <1>2, <1>3, RoundTurns

\* While the owner speaks no task waits.
LEMMA OwnerSpeaksAlone ==
  ASSUME Typed, rest # {}, pc \in {"telling", "acking", "closing", "closeack"}
  PROVE  /\ First(rest) \in Joined /\ contestants[First(rest)] \in Conns
         /\ \A n \in Joined : task[n] # "reading"
<1>1. First(rest) \in rest
  BY FirstIsMember, NicksAssumption DEF Typed, TypeOK, SessionOK, OwnerOK
<1>2. QED
  BY <1>1 DEF Typed, TypeOK, SessionOK, OwnerOK, Shape

LEMMA OwnerWriteTurns ==
  ASSUME Kept, TellResult \/ SayBye
  PROVE  Turns'
<1>0. PICK n : n = First(rest)
  OBVIOUS
<1>1. n \in Joined /\ contestants[n] \in Conns /\ \A k \in Joined : task[k] # "reading"
  BY <1>0, OwnerSpeaksAlone DEF TellResult, SayBye, Kept
<1>2. PICK c \in Conns : c = contestants[n]
  BY <1>1
<1>3. \E m \in FromServer : Write(c, m)
  <2>1. CASE TellResult
    <3>1. Result(RoundResults(n)) \in FromServer
      BY <1>1, <2>1, ResultsTyped DEF TellResult, Kept, Typed, TypeOK, SessionOK, Shape
    <3>2. QED
      BY <1>0, <1>2, <2>1, <3>1 DEF TellResult
  <2>2. CASE SayBye
    BY <1>0, <1>2, <2>2 DEF SayBye, FromServer
  <2>3. QED
    BY <2>1, <2>2
<1>4. UNCHANGED <<contestants, nego, task>> /\ pc \notin {"acking", "closeack"}
      /\ IF WriteResult(link[c]) = "Except"
           THEN pc' = pc ELSE rest' = rest /\ pc' \in {"acking", "closeack"}
  BY <1>0, <1>2 DEF TellResult, SayBye, session, joining, tasks
<1>5. ~Awaited(n) /\ (Awaited(n)' \/ link[c] # "open") /\ \A k \in Joined : ~Awaited(k)
  BY <1>0, <1>1, <1>4 DEF Awaited, WriteResult
<1>6. QED
  BY <1>1, <1>2, <1>3, <1>4, <1>5, RoundTurns

LEMMA OwnerReadTurns ==
  ASSUME Kept, ReadResultAck \/ ReadByeAck
  PROVE  Turns'
<1>0. PICK n : n = First(rest)
  OBVIOUS
<1>1. n \in Joined /\ contestants[n] \in Conns /\ \A k \in Joined : task[k] # "reading"
  BY <1>0, OwnerSpeaksAlone DEF ReadResultAck, ReadByeAck, Kept, Typed, Shape
<1>2. PICK c \in Conns : c = contestants[n]
  BY <1>1
<1>3. \/ ReadData(c) \/ ReadEof(c) \/ ReadError(c)
      \/ /\ HasData(toServer[c]) /\ UNCHANGED <<toContestant, greeted>>
         /\ \E s \in LeftAfterRead(toServer[c]) : toServer' = [toServer EXCEPT ![c] = s]
         /\ link' = [link EXCEPT ![c] = "closed"]
  BY <1>0, <1>2 DEF ReadResultAck, ReadByeAck, ReadMessage, ReadMalformed
<1>4. UNCHANGED <<contestants, nego, task>>
  BY DEF ReadResultAck, ReadByeAck, session, joining, tasks
<1>5. \A k \in Joined \ {n} : ~Awaited(k)
  BY <1>0, <1>1 DEF Awaited
<1>6. QED
  BY <1>1, <1>2, <1>3, <1>4, <1>5, RoundTurns

-----------------------------------------------------------------------------
(* The contestants' side. *)

\* What a contestant says or reads is between it and the session.
LEMMA ContestantSpeaks ==
  ASSUME Kept, NEW c \in Conns, UNCHANGED <<contestants, nego, task, pc, rest>>,
         \A d \in Conns \ {c} : /\ link'[d] = link[d] /\ toServer'[d] = toServer[d]
                                /\ toContestant'[d] = toContestant[d] /\ greeted'[d] = greeted[d],
         OneUnderWay(c)', Handshake(c)',
         greeted[c] => greeted'[c],
         link'[c] = "open" /\ Quiet(c) /\ greeted[c] => Quiet(c)',
         link'[c] \in {link[c], "fin", "rst"}
  PROVE  Turns'
<1>1. ASSUME NEW n \in Joined, contestants[n] = c PROVE Rounds(n)'
  BY <1>1 DEF Kept, Turns, Rounds, Awaited, Quiet
<1>2. QED
  BY <1>1, SpokenOn DEF Awaited

LEMMA ContestantGreetsTurns ==
  ASSUME Kept, NEW c \in Conns, ContestantGreets(c)
  PROVE  Turns'
<1>1. PICK m : toServer' = [toServer EXCEPT ![c] = Append(@, m)]
  BY DEF ContestantGreets
<1>2. Silent(c) /\ Handshake(c) /\ WireOK
  BY DEF ContestantGreets, Kept, Turns, Handshake, Typed, TypeOK
<1>3. UNCHANGED <<contestants, nego, task, pc, rest, link, toContestant>> /\ ~greeted[c]
      /\ greeted' = [greeted EXCEPT ![c] = TRUE] /\ link[c] = "open"
  BY DEF ContestantGreets, session, joining, tasks, owner
<1>4. toServer'[c] = <<m>> /\ greeted'[c]
  BY <1>1, <1>2, <1>3 DEF Silent, WireOK
<1>5. OneUnderWay(c)'
  BY <1>2, <1>3, <1>4 DEF OneUnderWay, Silent
<1>6. Handshake(c)'
  BY <1>2, <1>3, <1>4 DEF Handshake
<1>7. QED
  BY <1>1, <1>2, <1>3, <1>4, <1>5, <1>6, ContestantSpeaks DEF WireOK

LEMMA ContestantRepliesTurns ==
  ASSUME Kept, NEW c \in Conns, ContestantReplies(c)
  PROVE  Turns'
<1> DEFINE m == Head(toContestant[c])
<1>1. UNCHANGED <<contestants, nego, task, pc, rest, link, greeted>> /\ link[c] = "open"
      /\ toContestant' = [toContestant EXCEPT ![c] = Tail(toContestant[c])]
      /\ toContestant[c] # << >>
  BY DEF ContestantReplies, session, joining, tasks, owner
<1>2. toContestant[c] \in Seq(FromServer) /\ toServer[c] \in Seq(FromContestant) /\ WireOK
      /\ OneUnderWay(c) /\ Handshake(c) /\ greeted[c]
  BY <1>1 DEF Kept, Typed, TypeOK, WireOK, Turns, Handshake, Silent
<1>3. Handshake(c)'
  BY <1>1, <1>2 DEF Handshake, Silent
<1>4. CASE m = Ok
  <2>1. UNCHANGED toServer
    BY <1>4, NobodyAnswersOk DEF ContestantReplies
  <2>2. toContestant'[c] = Tail(toContestant[c]) /\ Len(toContestant'[c]) = Len(toContestant[c]) - 1
        /\ Len(toContestant[c]) \in Nat /\ toServer[c] = << >>
    BY <1>1, <1>2 DEF OneUnderWay, WireOK
  <2>3. OneUnderWay(c)'
    BY <1>1, <1>2, <2>1, <2>2 DEF OneUnderWay
  <2>4. Quiet(c) => Quiet(c)'
    BY <1>1, <2>1, <2>2 DEF Quiet
  <2>5. QED
    BY <1>1, <1>2, <1>3, <2>1, <2>3, <2>4, ContestantSpeaks DEF WireOK
<1>5. CASE m # Ok
  <2>1. toServer[c] = << >> /\ Len(toContestant[c]) = 1
    <3>1. Len(toServer[c]) + Len(toContestant[c]) <= 1
      BY <1>2, <1>5 DEF OneUnderWay
    <3>2. Len(toServer[c]) \in Nat /\ Len(toContestant[c]) \in Nat /\ Len(toContestant[c]) # 0
      BY <1>1, <1>2
    <3>3. \A a, b \in Nat : b # 0 /\ a + b <= 1 => a = 0 /\ b = 1
      OBVIOUS
    <3>4. Len(toServer[c]) = 0 /\ Len(toContestant[c]) = 1
      BY <3>1, <3>2, <3>3
    <3>5. QED
      BY <1>2, <3>4
  <2>2. PICK a : toServer' = [toServer EXCEPT ![c] = Append(@, a)]
    BY <1>5 DEF ContestantReplies
  <2>3. toServer'[c] = <<a>> /\ toContestant'[c] = << >>
    BY <1>1, <1>2, <2>1, <2>2 DEF WireOK
  <2>4. OneUnderWay(c)'
    BY <2>3 DEF OneUnderWay
  <2>5. ~Quiet(c)
    BY <1>1, <1>5, <2>1 DEF Quiet
  <2>6. QED
    BY <1>1, <1>2, <1>3, <2>2, <2>4, <2>5, ContestantSpeaks DEF WireOK
<1>6. QED
  BY <1>4, <1>5

\* A contestant of whose connection neither end has anything left to read.
LEMMA ContestantLeavesTurns ==
  ASSUME Kept, NEW c \in Conns, ContestantLeaves(c)
  PROVE  Turns'
<1>1. UNCHANGED <<contestants, nego, task, pc, rest, toServer, greeted>> /\ link[c] = "open"
      /\ toContestant' = [toContestant EXCEPT ![c] = << >>]
      /\ (link' = [link EXCEPT ![c] = "fin"] \/ link' = [link EXCEPT ![c] = "rst"])
  BY DEF ContestantLeaves, session, joining, tasks, owner
<1>2. WireOK /\ OneUnderWay(c) /\ Handshake(c)
  BY DEF Kept, Typed, TypeOK, Turns
<1>3. toContestant'[c] = << >> /\ link'[c] \in {"fin", "rst"}
  BY <1>1, <1>2 DEF WireOK
<1>4. OneUnderWay(c)'
  <2>1. CASE toServer[c] = << >>
    BY <1>1, <1>3, <2>1 DEF OneUnderWay
  <2>2. CASE toServer[c] # << >>
    <3>1. Len(toServer[c]) \in Nat /\ Len(toContestant[c]) \in Nat
      BY <1>2 DEF WireOK
    <3>2. Len(toServer[c]) + Len(toContestant[c]) <= 1
      BY <1>2, <2>2 DEF OneUnderWay
    <3>3. \A a, b \in Nat : a + b <= 1 => a + 0 <= 1
      OBVIOUS
    <3>4. Len(toServer[c]) + 0 <= 1
      BY <3>1, <3>2, <3>3
    <3>5. Len(toContestant'[c]) = 0 /\ toServer'[c] = toServer[c]
      BY <1>1, <1>3
    <3>6. QED
      BY <3>4, <3>5 DEF OneUnderWay
  <2>3. QED
    BY <2>1, <2>2
<1>5. Handshake(c)'
  BY <1>1, <1>2, <1>3 DEF Handshake, Silent
<1>6. QED
  BY <1>1, <1>2, <1>3, <1>4, <1>5, ContestantSpeaks DEF WireOK

LEMMA ContestantConnectsTurns ==
  ASSUME Kept, NEW c \in Conns, ContestantConnects(c)
  PROVE  Turns'
<1>1. UNCHANGED <<contestants, task, pc, rest, toServer, toContestant, greeted>>
      /\ link' = [link EXCEPT ![c] = "open"] /\ nego' = [nego EXCEPT ![c] = "queued"]
      /\ nego[c] = "none"
  BY DEF ContestantConnects, session, tasks, owner
<1>2. OneUnderWay(c)' /\ Handshake(c)'
  BY <1>1 DEF OneUnderWay, Handshake, Silent, Kept, Turns, Typed, TypeOK, JoiningOK
<1>3. QED
  BY <1>1, <1>2, NegotiatedIsNobodys, SpokenOn DEF Awaited, Kept, Typed, TypeOK, JoiningOK, WireOK

LEMMA TurnsStep == Kept /\ [Next]_vars => Turns'
<1> SUFFICES ASSUME Kept, [Next]_vars PROVE Turns'
  OBVIOUS
<1>1. CASE OwnerStep
  BY <1>1, SilentOwnerTurns, OwnerWriteTurns, OwnerReadTurns DEF OwnerStep
<1>2. CASE WindowEnds
  BY <1>2, WindowEndsTurns
<1>3. ASSUME NEW c \in Conns, NegotiationStep(c) PROVE Turns'
  <2>1. CASE HelloLost(c)
    BY <2>1, HangUpTurns DEF HelloLost, session, tasks, owner
  <2>2. QED
    BY <1>3, <2>1, AcceptTurns, ReadHelloTurns, AdmitContestantTurns, RefuseHelloTurns
    DEF NegotiationStep
<1>4. ASSUME NEW n \in Nicks, TaskStep(n) PROVE Turns'
  BY <1>4, SendQuestionTurns, ReadAnswerTurns, SilentTaskTurns DEF TaskStep
<1>5. ASSUME NEW c \in Conns, ContestantStep(c) PROVE Turns'
  BY <1>5, ContestantConnectsTurns, ContestantGreetsTurns, ContestantRepliesTurns,
     ContestantLeavesTurns DEF ContestantStep
<1>6. CASE UNCHANGED vars
  <2>1. UNCHANGED <<wire, nego, contestants, task, pc, rest>>
    BY <1>6 DEF vars, session, owner, joining, tasks
  <2>2. QED
    BY <2>1, NothingSaid DEF Kept, Awaited
<1>7. QED
  BY <1>1, <1>2, <1>3, <1>4, <1>5, <1>6 DEF Next, ServerStep, Finished

\* The conversation of every contestant is in lock step, whatever it says, whenever
\* it leaves and however the threads of the session interleave: neither end finds
\* two messages at once, but for the OK of the handshake (ContestSession.cpp:252-253).
THEOREM ConversationInLockStep == Spec => []LockStep
<1>1. Turns => LockStep
  BY DEF Turns, OneUnderWay, LockStep
<1>2. Typed /\ Registered /\ Turns /\ [Next]_vars => Turns'
  BY TurnsStep DEF Kept
<1>3. QED
  BY <1>1, <1>2, RegisteredInvariant, InitTurns, PTL DEF Spec
=============================================================================
