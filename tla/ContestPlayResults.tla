------------------------- MODULE ContestPlayResults -------------------------
(* Theorem about ContestPlay: a contestant's program shows its user what   *)
(* the session told it, and what it told it last, however clients leave    *)
(* and wherever the session stops.                                         *)
EXTENDS ContestPlayProofs

\* One message at most is on its way to the session, and none while it replies
\* to a handshake.
Brief(c) ==
  /\ toServer[c] = << >> \/ \E a : toServer[c] = <<a>>
  /\ nego[c] = "replying" => toServer[c] = << >>

\* Who did not join was told nothing, and its client shows nothing.
Untold ==
  /\ \A n \in Nicks \ Joined : told[n] = << >>
  /\ \A c \in Conns : nego[c] # "done" => shown[c] = << >>

Ending == pc \in {"closing", "closeack", "threw"} \/ state = "TERMINATED"

UpToDate(c, n) == IF told[n] = << >> THEN shown[c] = << >> ELSE shown[c] = LastTold(n)
OneBehind(c, n) ==
  /\ told[n] # << >>
  /\ IF Len(told[n]) = 1 THEN shown[c] = << >> ELSE shown[c] = told[n][Len(told[n]) - 1]

Underway(c) == client[c] = "judging" /\ toContestant[c] # << >>

\* The client left before it took its results: the session will be told, or is
\* at an end itself.
Unheard(c, n) ==
  \/ ~Alive \/ pc = "threw"
  \/ Acking(n) /\ toServer[c] = << >> /\ link[c] \in {"fin", "rst", "dead"}
  \/ Idle(n) /\ toServer[c] = << >> /\ link[c] = "dead"

\* A client that is there has shown all but what is under way.  One that is not has
\* said all it will say where the session wants nothing from it.
Abreast(c, n) ==
  /\ link[c] = "open" => IF Underway(c) THEN OneBehind(c, n) ELSE UpToDate(c, n)
  /\ link[c] # "open" =>
       \/ UpToDate(c, n) /\ (Alive /\ (Idle(n) \/ Owed(n)) => toServer[c] = << >>)
       \/ OneBehind(c, n) /\ Unheard(c, n)
  /\ link[c] = "closed" => Ending

Following ==
  /\ Staged /\ Untold
  /\ \A c \in Conns : Brief(c)
  /\ \A n \in Joined, c \in Conns : c = contestants[n] => Abreast(c, n)

-----------------------------------------------------------------------------
(* What is on its way to the session, and who was told nothing. *)

Drains(c) == toServer[c] # << >> /\ toServer'[c] \in LeftAfterRead(toServer[c])

LEMMA DrainedBrief ==
  ASSUME NEW c \in Conns, Brief(c), Drains(c)
  PROVE  toServer'[c] = << >>
<1>1. PICK a : toServer[c] = <<a>>
  BY DEF Brief, Drains
<1>2. LeftAfterRead(<<a>>) = {<< >>}
  BY OneLeft
<1>3. QED
  BY <1>1, <1>2 DEF Drains

LEMMA ReadDrains ==
  ASSUME WireOK, NEW c \in Conns, ReadData(c)
  PROVE  Drains(c) /\ \A d \in Conns \ {c} : toServer'[d] = toServer[d]
BY DEF ReadData, HasData, Drains, WireOK

\* A step of the server takes from the streams to it, and ends no negotiation twice.
LEMMA ServerDrains ==
  ASSUME Staged, ServerStep, NEW c \in Conns
  PROVE  /\ toServer'[c] = toServer[c] \/ Drains(c)
         /\ nego'[c] = "replying" => nego[c] = "replying" \/ Drains(c)
         /\ nego[c] = "done" => nego'[c] = "done"
<1>0. WireOK /\ JoiningOK /\ Shape
  BY DEF Staged, PlayTyped, Typed, TypeOK
<1>1. CASE OwnerStep
  <2>1. nego' = nego
    BY <1>1 DEF OwnerStep, StartSession, AcceptTimedOut, AcceptFails, JoinThreads, PlayRound,
       AllAnswered, TellResult, ReadResultAck, RoundOver, TerminateSession, SayBye, ReadByeAck,
       SessionOver, CallRefused, joining
  <2>2. CASE TellResult \/ SayBye
    BY <2>1, <2>2 DEF TellResult, SayBye, Write
  <2>3. CASE ReadResultAck \/ ReadByeAck
    <3>1. PICK d \in Conns : d = contestants[First(rest)]
      BY <1>0, <2>3, OwnersTurn DEF ReadResultAck, ReadByeAck, Shape
    <3>2. CASE ReadData(d)
      BY <1>0, <2>1, <3>2, ReadDrains
    <3>3. CASE ReadEof(d) \/ ReadError(d)
      BY <2>1, <3>3 DEF ReadEof, ReadError, wire
    <3>4. CASE /\ HasData(toServer[d])
               /\ \E s \in LeftAfterRead(toServer[d]) : toServer' = [toServer EXCEPT ![d] = s]
      BY <1>0, <2>1, <3>4 DEF HasData, Drains, WireOK
    <3>5. QED
      BY <2>3, <3>1, <3>2, <3>3, <3>4 DEF ReadResultAck, ReadByeAck, ReadMessage, ReadMalformed
  <2>4. QED
    BY <1>1, <2>1, <2>2, <2>3 DEF OwnerStep, StartSession, AcceptTimedOut, AcceptFails, JoinThreads,
       PlayRound, AllAnswered, RoundOver, TerminateSession, SessionOver, CallRefused, wire
<1>2. CASE WindowEnds
  BY <1>2 DEF WindowEnds
<1>3. ASSUME NEW d \in Conns, NegotiationStep(d)
      PROVE  /\ toServer'[c] = toServer[c] \/ Drains(c)
             /\ nego'[c] = "replying" => nego[c] = "replying" \/ Drains(c)
             /\ nego[c] = "done" => nego'[c] = "done"
  <2>1. CASE ReadHello(d)
    BY <1>0, <2>1, ReadDrains DEF ReadHello, JoiningOK
  <2>2. CASE Accept(d)
    BY <1>0, <2>2 DEF Accept, wire, JoiningOK
  <2>3. CASE HelloLost(d)
    BY <1>0, <2>3 DEF HelloLost, HangUp, JoiningOK
  <2>4. CASE AdmitContestant(d) \/ RefuseHello(d)
    BY <1>0, <2>4 DEF AdmitContestant, RefuseHello, HangUp, Write, JoiningOK
  <2>5. QED
    BY <1>3, <2>1, <2>2, <2>3, <2>4 DEF NegotiationStep
<1>4. ASSUME NEW n \in Nicks, TaskStep(n)
      PROVE  nego' = nego /\ (toServer'[c] = toServer[c] \/ Drains(c))
  <2>1. nego' = nego
    BY <1>4 DEF TaskStep, SendQuestion, ReadAnswer, IncreaseScore, LoadStat, StoreStat, joining
  <2>2. CASE ReadAnswer(n)
    <3>1. PICK d \in Conns : d = contestants[n]
      BY <1>0, <2>2 DEF ReadAnswer, Shape, Staged, PlayTyped, Typed, TypeOK, SessionOK
    <3>2. ReadData(d) \/ ReadEof(d) \/ ReadError(d)
      BY <2>2, <3>1 DEF ReadAnswer
    <3>3. QED
      BY <1>0, <2>1, <3>2, ReadDrains DEF ReadEof, ReadError, wire
  <2>3. QED
    BY <1>4, <2>1, <2>2 DEF TaskStep, SendQuestion, Write, IncreaseScore, LoadStat, StoreStat, wire
<1>5. QED
  BY <1>1, <1>2, <1>3, <1>4 DEF ServerStep

LEMMA ServerBrief ==
  ASSUME Staged, ServerStep, NEW c \in Conns, Brief(c)
  PROVE  Brief(c)'
<1>1. CASE Drains(c)
  BY <1>1, DrainedBrief DEF Brief
<1>2. CASE ~Drains(c)
  BY <1>2, ServerDrains DEF Brief
<1>3. QED
  BY <1>1, <1>2

LEMMA ServerUntold ==
  ASSUME Staged, Untold, ServerStep, UNCHANGED clients
  PROVE  Untold'
<1>0. Joined \subseteq Nicks /\ told \in [Nicks -> Seq(Verdicts)] /\ Shape
  BY DEF Staged, PlayTyped, Typed, TypeOK, SessionOK
<1>1. Joined \subseteq Joined' /\ \A m \in Nicks \ Joined : told'[m] = told[m]
  <2>1. CASE TellResult
    BY <1>0, <2>1, OwnersTurn DEF TellResult, session, Joined
  <2>2. CASE ~TellResult
    <3>1. told' = told
      BY <2>2 DEF ServerStep, OwnerStep, WindowEnds, NegotiationStep, TaskStep, StartSession,
         AcceptTimedOut, AcceptFails, JoinThreads, PlayRound, AllAnswered, ReadResultAck, RoundOver,
         TerminateSession, SayBye, ReadByeAck, SessionOver, CallRefused, Accept, ReadHello, HelloLost,
         AdmitContestant, RefuseHello, SendQuestion, ReadAnswer, IncreaseScore, LoadStat, StoreStat
    <3>2. (\A m \in Joined : Apart(m)) \/ \E n \in Joined : Speaks(n) /\ \A m \in Joined \ {n} : Apart(m)
      BY ServerStage
    <3>3. \A n : Speaks(n) => contestants' = contestants
      BY DEF Speaks, SendQuestion, ReadAnswer, TellResult, ReadResultAck, SayBye, ReadByeAck, session
    <3>4. QED
      BY <3>1, <3>2, <3>3 DEF Apart, Joined
  <2>3. QED
    BY <2>1, <2>2
<1>2. \A c \in Conns : nego'[c] # "done" => nego[c] # "done"
  BY ServerDrains
<1>3. QED
  BY <1>1, <1>2 DEF Untold, clients

-----------------------------------------------------------------------------
(* The session's side: steps that are none of a contestant's business. *)

LEMMA ApartAbreast ==
  ASSUME Alive, NEW m \in Joined, NEW c \in Conns, c = contestants[m], Abreast(c, m), Apart(m),
         pc = "threw" => pc' = "threw", Ending => Ending'
  PROVE  Abreast(c, m)'
<1>1. /\ told'[m] = told[m] /\ shown'[c] = shown[c] /\ client'[c] = client[c]
      /\ link'[c] = link[c] /\ toServer'[c] = toServer[c] /\ toContestant'[c] = toContestant[c]
  BY DEF Apart
<1>2. (UpToDate(c, m) => UpToDate(c, m)') /\ (OneBehind(c, m) => OneBehind(c, m)')
  BY <1>1 DEF UpToDate, OneBehind, LastTold
<1>3. Alive' => Alive /\ Placed(m)
  BY DEF Apart
<1>4. Unheard(c, m) => Unheard(c, m)'
  BY <1>1, <1>3 DEF Unheard, Placed
<1>5. Underway(c)' = Underway(c)
  BY <1>1 DEF Underway
<1>6. QED
  BY <1>1, <1>2, <1>3, <1>4, <1>5 DEF Abreast, Placed

\* A session that ends stays at its end.
LEMMA EndStays ==
  ASSUME Staged, ServerStep
  PROVE  (pc = "threw" => pc' = "threw") /\ (Ending => Ending')
<1>0. Shape
  BY DEF Staged, PlayTyped, Typed
<1>1. CASE OwnerStep
  BY <1>0, <1>1 DEF OwnerStep, StartSession, AcceptTimedOut, AcceptFails, JoinThreads, PlayRound,
     AllAnswered, TellResult, ReadResultAck, RoundOver, TerminateSession, SayBye, ReadByeAck,
     SessionOver, CallRefused, Ending, Shape, owner, session
<1>2. CASE WindowEnds
  BY <1>2 DEF WindowEnds, Ending, owner
<1>3. ASSUME NEW c \in Conns, NegotiationStep(c) PROVE UNCHANGED <<pc, state>>
  BY <1>3 DEF NegotiationStep, Accept, ReadHello, HelloLost, AdmitContestant, RefuseHello, owner, session
<1>4. ASSUME NEW n \in Nicks, TaskStep(n) PROVE UNCHANGED <<pc, state>>
  BY <1>4 DEF TaskStep, SendQuestion, ReadAnswer, IncreaseScore, LoadStat, StoreStat, owner, session
<1>5. QED
  BY <1>1, <1>2, <1>3, <1>4 DEF ServerStep, Ending

-----------------------------------------------------------------------------
(* The session speaks with contestant n. *)

LEMMA UpToDateAbreast ==
  ASSUME NEW n, NEW c \in Conns, UpToDate(c, n),
         shown'[c] = shown[c], told'[n] = told[n],
         Alive' => toServer'[c] = << >> \/ (~Idle(n)' /\ ~Owed(n)'),
         link'[c] = "open" => ~Underway(c)', link'[c] = "closed" => Ending'
  PROVE  Abreast(c, n)'
<1>1. UpToDate(c, n)'
  BY DEF UpToDate, LastTold
<1>2. QED
  BY <1>1 DEF Abreast

\* Of a client that left, the session may be one message ahead only while it waits
\* for the acknowledgement, or wants nothing from it and knows.
LEMMA Behind ==
  ASSUME Staged, Alive, pc # "threw", NEW n \in Joined, NEW c \in Conns, Abreast(c, n), link[c] # "open",
         ~Acking(n), Idle(n) => link[c] # "dead"
  PROVE  UpToDate(c, n)
BY DEF Abreast, Unheard

LEMMA SendQuestionAbreast ==
  ASSUME Staged, Alive, NEW n \in Nicks, SendQuestion(n), UNCHANGED clients,
         NEW c \in Conns, c = contestants[n], Abreast(c, n)
  PROVE  Abreast(c, n)'
<1>0. WireOK /\ Shape /\ task \in [Nicks -> {"none", "sending", "reading", "scoring", "loading", "storing", "done"}]
  BY DEF Staged, PlayTyped, Typed, TypeOK, TasksOK
<1>1. /\ n \in Joined /\ task[n] = "sending" /\ pc = "playing" /\ state = "RUNNING" /\ rest = Joined
  BY <1>0 DEF SendQuestion, Shape, Staged, Gathered
<1>2. /\ Write(c, Question(qid)) /\ UNCHANGED <<told, shown, client, pc, rest, toServer>>
      /\ task' = [task EXCEPT ![n] = IF WriteResult(link[c]) = "Except" THEN "done" ELSE "reading"]
  BY DEF SendQuestion, owner, clients, Write
<1>3. Idle(n) /\ ~Acking(n) /\ ~Ending
  BY <1>1 DEF Idle, Reading, Owed, Acking, Leaving, Ending
<1>4. CASE link[c] = "open"
  <2>1. client[c] # "judging"
    BY <1>1, <1>3, <1>4, Partner DEF Talking, Greeted, Waiting, Answering, Done, Says, Idle
  <2>2. UpToDate(c, n)
    BY <1>4, <2>1 DEF Abreast, Underway
  <2>3. link'[c] = "open" /\ Reading(n)'
    BY <1>0, <1>1, <1>2, <1>4 DEF Write, LinkAfterWrite, WriteResult, WireOK, Reading
  <2>4. QED
    BY <1>2, <2>1, <2>2, <2>3, UpToDateAbreast DEF Underway, Idle, Owed, Reading, Staged
<1>5. CASE link[c] = "dead" \/ link[c] = "idle"
  <2>1. ~Alive' /\ link'[c] = link[c]
    BY <1>0, <1>2, <1>5 DEF Write, LinkAfterWrite, WriteResult, WireOK, Alive
  <2>2. (UpToDate(c, n) => UpToDate(c, n)') /\ (OneBehind(c, n) => OneBehind(c, n)')
    BY <1>2 DEF UpToDate, OneBehind, LastTold
  <2>3. QED
    BY <1>5, <2>1, <2>2 DEF Abreast, Unheard
<1>6. CASE link[c] \in {"fin", "rst"}
  <2>1. UpToDate(c, n) /\ toServer[c] = << >>
    BY <1>1, <1>3, <1>6, Behind DEF Abreast, Unheard
  <2>2. link'[c] \in {"fin", "dead"}
    BY <1>0, <1>2, <1>6 DEF Write, LinkAfterWrite, WireOK
  <2>3. QED
    BY <1>2, <2>1, <2>2, UpToDateAbreast
<1>7. link[c] # "closed"
  BY <1>3 DEF Abreast
<1>8. QED
  BY <1>0, <1>4, <1>5, <1>6, <1>7 DEF WireOK, LinkStates

\* What a read leaves of a connection, whatever it returns or raises.
LEMMA ReadLeaves ==
  ASSUME WireOK, NEW c \in Conns, Brief(c), ReadData(c) \/ ReadEof(c) \/ ReadError(c)
  PROVE  /\ toServer'[c] = << >> /\ toContestant' = toContestant
         /\ link'[c] \in {link[c], "dead"} /\ (link'[c] # link[c] => link[c] = "rst")
<1>1. CASE ReadData(c)
  BY <1>1, ReadDrains, DrainedBrief DEF ReadData
<1>2. CASE ReadEof(c)
  BY <1>2 DEF ReadEof, AtEof, wire
<1>3. CASE ReadError(c)
  BY <1>3 DEF ReadError, ReadFails, WireOK
<1>4. QED
  BY <1>1, <1>2, <1>3

LEMMA ReadAnswerAbreast ==
  ASSUME Staged, Alive, NEW n \in Nicks, ReadAnswer(n), UNCHANGED clients,
         NEW c \in Conns, c = contestants[n], Brief(c), Abreast(c, n)
  PROVE  Abreast(c, n)'
<1>0. WireOK /\ Shape
  BY DEF Staged, PlayTyped, Typed, TypeOK
<1>1. /\ n \in Joined /\ task[n] = "reading" /\ pc = "playing" /\ state = "RUNNING"
  BY <1>0 DEF ReadAnswer, Shape
<1>2. /\ ReadData(c) \/ ReadEof(c) \/ ReadError(c)
      /\ UNCHANGED <<told, shown, client, pc, rest, state>>
  BY DEF ReadAnswer, owner, clients, session
<1>3. Reading(n) /\ ~Idle(n) /\ ~Acking(n) /\ ~Leaving(n) /\ ~Owed(n) /\ ~Ending
  BY <1>1 DEF Idle, Reading, Owed, Acking, Leaving, Ending
<1>4. UpToDate(c, n) /\ (link[c] = "open" => toContestant[c] = << >>)
  <2>1. CASE link[c] = "open"
    <3>1. toServer[c] # << >>
      BY <1>2, <2>1 DEF ReadData, HasData, ReadEof, AtEof, ReadError, ReadFails
    <3>2. toContestant[c] = << >>
      BY <1>1, <1>3, <2>1, <3>1, Partner DEF Talking, Greeted, Waiting, Answering, Done, Says
    <3>3. QED
      BY <2>1, <3>2 DEF Abreast, Underway
  <2>2. CASE link[c] # "open"
    BY <1>1, <1>3, <2>2, Behind
  <2>3. QED
    BY <2>1, <2>2
<1>5. QED
  BY <1>0, <1>2, <1>3, <1>4, ReadLeaves, UpToDateAbreast DEF Underway, Abreast

\* Told one thing more, a client that was up to date is one behind.
LEMMA ToldMore ==
  ASSUME told \in [Nicks -> Seq(Verdicts)], NEW n \in Nicks, NEW c \in Conns, NEW r \in Verdicts,
         told' = [told EXCEPT ![n] = Append(told[n], r)], shown'[c] = shown[c], UpToDate(c, n)
  PROVE  OneBehind(c, n)'
<1>1. PICK s \in Seq(Verdicts) : s = told[n] /\ told'[n] = Append(s, r)
  OBVIOUS
<1>2. /\ Len(Append(s, r)) = Len(s) + 1 /\ Len(s) \in Nat
      /\ Append(s, r) # << >>
      /\ s = << >> <=> Len(s) = 0
  <2>1. Len(Append(s, r)) = Len(s) + 1 /\ Len(s) \in Nat
    OBVIOUS
  <2>2. Append(s, r) # << >>
    BY AppendProperties
  <2>3. s = << >> <=> Len(s) = 0
    OBVIOUS
  <2>4. QED
    BY <2>1, <2>2, <2>3
<1>3. CASE s = << >>
  BY <1>1, <1>2, <1>3 DEF UpToDate, OneBehind
<1>4. CASE s # << >>
  <2>1. Len(Append(s, r)) # 1 /\ Len(Append(s, r)) - 1 = Len(s) /\ Append(s, r)[Len(s)] = s[Len(s)]
    BY <1>2, <1>4
  <2>2. shown[c] = s[Len(s)]
    BY <1>1, <1>4 DEF UpToDate, LastTold
  <2>3. QED
    BY <1>1, <1>2, <2>1, <2>2 DEF OneBehind
<1>5. QED
  BY <1>3, <1>4

LEMMA TellResultAbreast ==
  ASSUME Staged, Alive, TellResult, UNCHANGED clients, NEW n \in Joined, n = First(rest),
         NEW c \in Conns, c = contestants[n], Abreast(c, n)
  PROVE  Abreast(c, n)'
<1>0. /\ WireOK /\ Shape /\ told \in [Nicks -> Seq(Verdicts)] /\ SessionOK /\ TasksOK
  BY DEF Staged, PlayTyped, Typed, TypeOK
<1>1. n \in rest /\ n \in Nicks /\ pc = "telling" /\ state = "RUNNING" /\ task[n] = "done"
  BY <1>0, OwnersTurn DEF TellResult, Shape, Staged, Gathered
<1>2. PICK r \in Verdicts : r = RoundResults(n)
  BY <1>0, <1>1, ResultsTyped DEF Shape
<1>3. /\ Write(c, Result(r)) /\ UNCHANGED <<task, shown, client, toServer>>
      /\ told' = [told EXCEPT ![n] = Append(told[n], r)]
      /\ IF WriteResult(link[c]) = "Except"
           THEN rest' = rest \ {n} /\ pc' = pc ELSE rest' = rest /\ pc' = "acking"
  BY <1>1, <1>2 DEF TellResult, tasks, clients, Write
<1>4. Owed(n) /\ ~Idle(n) /\ ~Acking(n) /\ ~Reading(n) /\ ~Leaving(n) /\ ~Ending
  BY <1>1 DEF Idle, Reading, Owed, Acking, Leaving, Ending
<1>5. UpToDate(c, n) /\ (link[c] = "open" => client[c] = "judging")
  <2>1. CASE link[c] = "open"
    <3>1. Says(c, "judging", << >>, << >>)
      BY <1>4, <2>1, Partner DEF Talking, Greeted, Waiting, Answering, Done
    <3>2. QED
      BY <2>1, <3>1 DEF Abreast, Underway, Says
  <2>2. CASE link[c] # "open"
    BY <1>1, <1>4, <2>2, Behind
  <2>3. QED
    BY <2>1, <2>2
<1>6. OneBehind(c, n)'
  BY <1>0, <1>1, <1>3, <1>5, ToldMore
<1>7. CASE link[c] = "open"
  <2>1. link'[c] = "open" /\ toContestant'[c] = Append(toContestant[c], Result(r))
    BY <1>0, <1>3, <1>7 DEF Write, LinkAfterWrite, WireOK
  <2>2. Append(toContestant[c], Result(r)) # << >>
    <3>1. \A s \in Seq(FromServer) : \A m : Append(s, m) # << >>
      OBVIOUS
    <3>2. QED
      BY <1>0, <3>1 DEF WireOK
  <2>3. Underway(c)'
    BY <1>3, <1>5, <1>7, <2>1, <2>2 DEF Underway
  <2>4. QED
    BY <1>6, <2>1, <2>3 DEF Abreast
<1>8. CASE link[c] = "dead" \/ link[c] = "idle"
  <2>1. ~Alive' /\ link'[c] = link[c]
    BY <1>0, <1>3, <1>8 DEF Write, LinkAfterWrite, WriteResult, WireOK, Alive
  <2>2. QED
    BY <1>6, <1>8, <2>1 DEF Abreast, Unheard
<1>9. CASE link[c] \in {"fin", "rst"}
  <2>1. toServer'[c] = << >>
    BY <1>1, <1>3, <1>4, <1>9 DEF Abreast, Unheard
  <2>2. link'[c] \in {"fin", "dead"} /\ (link[c] = "rst" => link'[c] = "dead")
    BY <1>0, <1>3, <1>9 DEF Write, LinkAfterWrite, WireOK
  <2>3. CASE link[c] = "fin"
    <3>1. Acking(n)'
      BY <1>1, <1>3, <2>3 DEF WriteResult, Acking
    <3>2. QED
      BY <1>6, <2>1, <2>2, <3>1 DEF Abreast, Unheard
  <2>4. CASE link[c] = "rst"
    <3>1. Idle(n)'
      BY <1>1, <1>3, <2>4 DEF WriteResult, Idle, Reading, Owed, Acking, Leaving
    <3>2. QED
      BY <1>6, <2>1, <2>2, <2>4, <3>1 DEF Abreast, Unheard
  <2>5. QED
    BY <1>9, <2>3, <2>4
<1>10. link[c] # "closed"
  BY <1>4 DEF Abreast
<1>11. QED
  BY <1>0, <1>7, <1>8, <1>9, <1>10 DEF WireOK, LinkStates

LEMMA ReadResultAckAbreast ==
  ASSUME Staged, Alive, ReadResultAck, UNCHANGED clients, NEW n \in Joined, n = First(rest),
         NEW c \in Conns, c = contestants[n], Brief(c), Abreast(c, n)
  PROVE  Abreast(c, n)'
<1>0. WireOK /\ Shape
  BY DEF Staged, PlayTyped, Typed, TypeOK
<1>1. pc = "acking" /\ state = "RUNNING" /\ task[n] = "done"
  BY <1>0 DEF ReadResultAck, Shape, Staged, Gathered
<1>2. /\ UNCHANGED <<told, shown, client, task, state>>
      /\ \/ (ReadMessage(c) \/ ReadError(c)) /\ rest' = rest \ {n} /\ pc' = "telling"
         \/ ReadMalformed(c) /\ rest' = rest /\ pc' = "threw"
  BY DEF ReadResultAck, session, tasks, clients
<1>3. ReadData(c) \/ ReadEof(c) \/ ReadError(c)
  BY <1>2 DEF ReadMessage, ReadMalformed
<1>4. Acking(n) /\ ~Idle(n) /\ ~Owed(n) /\ ~Reading(n) /\ ~Leaving(n) /\ ~Ending
  BY <1>1 DEF Idle, Reading, Owed, Acking, Leaving, Ending
<1>5. /\ toServer'[c] = << >> /\ toContestant' = toContestant
      /\ link'[c] \in {link[c], "dead"} /\ (link'[c] # link[c] => link[c] = "rst")
  BY <1>0, <1>3, ReadLeaves
<1>6. link'[c] # "closed"
  BY <1>4, <1>5 DEF Abreast
<1>7. CASE UpToDate(c, n) /\ (link[c] = "open" => ~Underway(c))
  BY <1>2, <1>5, <1>6, <1>7, UpToDateAbreast DEF Underway
<1>8. CASE link[c] = "open"
  <2>1. toServer[c] # << >>
    BY <1>3, <1>8 DEF ReadData, HasData, ReadEof, AtEof, ReadError, ReadFails
  <2>2. toContestant[c] = << >>
    BY <1>4, <1>8, <2>1, Partner DEF Talking, Greeted, Waiting, Answering, Done, Says
  <2>3. QED
    BY <1>7, <1>8, <2>2 DEF Abreast, Underway
<1>9. CASE link[c] # "open" /\ OneBehind(c, n) /\ Unheard(c, n)
  <2>1. toServer[c] = << >> /\ link[c] \in {"fin", "rst", "dead"}
    BY <1>1, <1>4, <1>9 DEF Unheard
  <2>2. OneBehind(c, n)' /\ link'[c] # "open"
    BY <1>2, <1>5, <1>9 DEF OneBehind
  <2>3. CASE pc' = "threw"
    BY <1>6, <2>2, <2>3 DEF Abreast, Unheard
  <2>4. CASE pc' # "threw"
    <3>1. ReadError(c) /\ rest' = rest \ {n} /\ pc' = "telling"
      BY <1>2, <2>1, <2>4 DEF ReadMessage, ReadData, HasData
    <3>2. link'[c] = "dead"
      BY <1>0, <3>1 DEF ReadError, WireOK
    <3>3. Idle(n)'
      BY <1>1, <1>2, <3>1 DEF Idle, Reading, Owed, Acking, Leaving
    <3>4. QED
      BY <1>5, <2>2, <3>2, <3>3 DEF Abreast, Unheard
  <2>5. QED
    BY <2>3, <2>4
<1>10. QED
  BY <1>7, <1>8, <1>9 DEF Abreast

LEMMA SayByeAbreast ==
  ASSUME Staged, Alive, SayBye, UNCHANGED clients, NEW n \in Joined, n = First(rest),
         NEW c \in Conns, c = contestants[n], Abreast(c, n)
  PROVE  Abreast(c, n)'
<1>0. WireOK /\ Shape /\ n \in Nicks
  BY DEF Staged, PlayTyped, Typed, TypeOK, SessionOK
<1>1. pc = "closing" /\ task[n] = "none"
  BY <1>0 DEF SayBye, Shape
<1>2. /\ Write(c, Bye) /\ UNCHANGED <<told, shown, client, task, toServer>>
      /\ IF WriteResult(link[c]) = "Except"
           THEN rest' = rest \ {n} /\ pc' = pc ELSE rest' = rest /\ pc' = "closeack"
  BY DEF SayBye, tasks, clients, Write
<1>3. Idle(n) /\ ~Acking(n) /\ Ending'
  BY <1>1, <1>2 DEF Idle, Reading, Owed, Acking, Leaving, Ending
<1>4. CASE link[c] = "open"
  <2>1. client[c] # "judging"
    BY <1>3, <1>4, Partner DEF Talking, Greeted, Waiting, Answering, Done, Says, Idle
  <2>2. UpToDate(c, n)
    BY <1>4, <2>1 DEF Abreast, Underway
  <2>3. ~Idle(n)' /\ ~Owed(n)'
    BY <1>1, <1>2, <1>4 DEF WriteResult, Idle, Leaving, Owed
  <2>4. QED
    BY <1>2, <1>3, <2>1, <2>2, <2>3, UpToDateAbreast DEF Underway
<1>5. CASE link[c] = "dead" \/ link[c] = "idle"
  <2>1. ~Alive' /\ link'[c] = link[c]
    BY <1>0, <1>2, <1>5 DEF Write, LinkAfterWrite, WriteResult, WireOK, Alive
  <2>2. (UpToDate(c, n) => UpToDate(c, n)') /\ (OneBehind(c, n) => OneBehind(c, n)')
    BY <1>2 DEF UpToDate, OneBehind, LastTold
  <2>3. QED
    BY <1>5, <2>1, <2>2 DEF Abreast, Unheard
<1>6. CASE link[c] \in {"fin", "rst", "closed"}
  <2>1. UpToDate(c, n) /\ toServer[c] = << >>
    BY <1>1, <1>3, <1>6, Behind DEF Abreast, Unheard
  <2>2. link'[c] # "open"
    BY <1>0, <1>2, <1>6 DEF Write, LinkAfterWrite, WireOK
  <2>3. QED
    BY <1>2, <1>3, <2>1, <2>2, UpToDateAbreast
<1>7. QED
  BY <1>0, <1>4, <1>5, <1>6 DEF WireOK, LinkStates

LEMMA ReadByeAckAbreast ==
  ASSUME Staged, Alive, ReadByeAck, UNCHANGED clients, NEW n \in Joined, n = First(rest),
         NEW c \in Conns, c = contestants[n], Brief(c), Abreast(c, n)
  PROVE  Abreast(c, n)'
<1>0. WireOK /\ Shape /\ n \in Nicks
  BY DEF Staged, PlayTyped, Typed, TypeOK, SessionOK
<1>1. pc = "closeack" /\ task[n] = "none"
  BY <1>0 DEF ReadByeAck, Shape
<1>2. /\ UNCHANGED <<told, shown, client, task>> /\ pc' \in {"closing", "threw"}
  BY DEF ReadByeAck, tasks, clients
<1>3. Leaving(n) /\ ~Idle(n) /\ ~Acking(n) /\ Ending'
  BY <1>1, <1>2 DEF Idle, Acking, Leaving, Ending
<1>4. /\ toServer'[c] = << >> /\ toContestant' = toContestant
      /\ link'[c] = "open" => link[c] = "open"
      /\ link[c] = "open" => toServer[c] # << >>
  <2>1. CASE /\ HasData(toServer[c]) /\ UNCHANGED toContestant
             /\ \E s \in LeftAfterRead(toServer[c]) : toServer' = [toServer EXCEPT ![c] = s]
             /\ link' = [link EXCEPT ![c] = "closed"]
    <3>1. Drains(c)
      BY <1>0, <2>1 DEF HasData, Drains, WireOK
    <3>2. QED
      BY <1>0, <2>1, <3>1, DrainedBrief DEF WireOK, HasData
  <2>2. CASE ReadData(c) \/ ReadEof(c) \/ ReadError(c)
    BY <1>0, <2>2, ReadLeaves DEF ReadData, HasData, ReadEof, AtEof, ReadError, ReadFails
  <2>3. QED
    BY <2>1, <2>2 DEF ReadByeAck, ReadMalformed
<1>5. UpToDate(c, n) /\ (link[c] = "open" => toContestant[c] = << >>)
  <2>1. CASE link[c] = "open"
    <3>1. toContestant[c] = << >>
      BY <1>4, <2>1, Partner DEF Talking, Greeted, Waiting, Answering, Done, Says, Leaving
    <3>2. QED
      BY <2>1, <3>1 DEF Abreast, Underway
  <2>2. CASE link[c] # "open"
    BY <1>1, <1>3, <2>2, Behind
  <2>3. QED
    BY <2>1, <2>2
<1>6. QED
  BY <1>2, <1>3, <1>4, <1>5, UpToDateAbreast DEF Underway

\* Who is let in was told nothing and has nothing to say.
LEMMA AdmitAbreast ==
  ASSUME Staged, Untold, Alive, NEW c \in Conns, Brief(c), AdmitContestant(c), UNCHANGED clients,
         NEW n, n \in Joined', n \notin Joined, NEW d \in Conns, d = contestants'[n]
  PROVE  Abreast(d, n)'
<1>0. WireOK /\ JoiningOK
  BY DEF Staged, PlayTyped, Typed, TypeOK
<1>1. /\ nego[c] = "replying" /\ Acceptable(req[c]) /\ UNCHANGED <<told, shown, client>>
  BY DEF AdmitContestant, clients
<1>2. /\ Write(c, Ok) /\ WriteReturns(link[c])
      /\ contestants' = [m \in Joined \cup {req[c].nick} |->
                           IF m = req[c].nick THEN c ELSE contestants[m]]
  BY DEF AdmitContestant, Joined
<1>3. n = req[c].nick /\ d = c
  BY <1>2 DEF Joined
<1>4. n \in Nicks
  BY <1>1, <1>3 DEF Acceptable, Hellos, Hello
<1>5. told[n] = << >> /\ shown[c] = << >> /\ toServer[c] = << >>
  BY <1>1, <1>4 DEF Untold, Brief
<1>6. /\ toServer' = toServer
      /\ link'[c] \in {"open", "fin", "dead"} /\ (link'[c] = "open" => link[c] = "open")
  BY <1>0, <1>2 DEF Write, WriteReturns, WriteResult, LinkAfterWrite, WireOK
<1>7. link[c] = "open" => client[c] # "judging"
  <2>1. link[c] = "open" => Entering(c)
    BY <1>1 DEF Staged, Stage
  <2>2. QED
    BY <2>1 DEF Entering, Says
<1>8. UpToDate(c, n)
  BY <1>5 DEF UpToDate
<1>9. Abreast(c, n)'
  BY <1>1, <1>5, <1>6, <1>7, <1>8, UpToDateAbreast DEF Underway
<1>10. QED
  BY <1>3, <1>9

LEMMA ServerAbreast ==
  ASSUME Following, ServerStep, UNCHANGED clients,
         NEW n, n \in Joined', NEW c \in Conns, c = contestants'[n]
  PROVE  Abreast(c, n)'
<1>0. Alive /\ Staged /\ Untold /\ \A d \in Conns : Brief(d)
  BY DEF Following, ServerStep, Alive
<1>1. \/ \A m \in Joined : Apart(m)
      \/ \E k \in Joined : Speaks(k) /\ \A m \in Joined \ {k} : Apart(m)
  BY <1>0, ServerStage
<1>2. ASSUME n \in Joined, Apart(n) PROVE Abreast(c, n)'
  <2>1. c = contestants[n]
    BY <1>2 DEF Apart
  <2>2. QED
    BY <1>0, <1>2, <2>1, EndStays, ApartAbreast DEF Following
<1>3. ASSUME n \in Joined, Speaks(n) PROVE Abreast(c, n)'
  <2>1. c = contestants[n]
    BY <1>3 DEF Speaks, SendQuestion, ReadAnswer, TellResult, ReadResultAck, SayBye, ReadByeAck, session
  <2>2. Abreast(c, n) /\ n \in Nicks
    BY <1>3, <2>1 DEF Following, Staged, PlayTyped, Typed, TypeOK, SessionOK
  <2>3. QED
    BY <1>0, <1>3, <2>1, <2>2, SendQuestionAbreast, ReadAnswerAbreast, TellResultAbreast,
       ReadResultAckAbreast, SayByeAbreast, ReadByeAckAbreast DEF Speaks
<1>4. CASE n \notin Joined
  <2>1. PICK d \in Conns : AdmitContestant(d)
    BY <1>4 DEF ServerStep, OwnerStep, WindowEnds, NegotiationStep, TaskStep, StartSession,
       AcceptTimedOut, AcceptFails, JoinThreads, PlayRound, AllAnswered, TellResult, ReadResultAck,
       RoundOver, TerminateSession, SayBye, ReadByeAck, SessionOver, CallRefused, Accept, ReadHello,
       HelloLost, RefuseHello, SendQuestion, ReadAnswer, IncreaseScore, LoadStat, StoreStat, session,
       Joined
  <2>2. QED
    BY <1>0, <1>4, <2>1, AdmitAbreast
<1>5. QED
  BY <1>1, <1>2, <1>3, <1>4

-----------------------------------------------------------------------------
(* The client's side. *)

\* A client says one thing, and only where nothing of it is under way.
LEMMA ClientBrief ==
  ASSUME Staged, NEW c \in Conns, Brief(c), ClientStep(c)
  PROVE  Brief(c)'
<1>0. WireOK /\ JoiningOK /\ Stage(c)
  BY DEF Staged, PlayTyped, Typed, TypeOK
<1>1. toServer'[c] = toServer[c] \/ (toServer[c] = << >> /\ nego[c] # "replying")
  <2>1. CASE link[c] = "open" /\ client[c] \in {"naming", "choosing"}
    BY <1>0, <2>1 DEF Stage, Entering, Talking, Greeted, Waiting, Answering, Done, Says
  <2>2. CASE link[c] # "open" /\ (SendsName(c) \/ SendsChoice(c) \/ SendsInvalidChoice(c))
    BY <2>2 DEF SendsName, SendsChoice, SendsInvalidChoice, Chooses, Sent, ServerGone
  <2>3. CASE ReadsBye(c) \/ ReadsResult(c)
    <3>1. Takes(c) /\ client[c] \in {"waiting", "judging"}
      BY <2>3 DEF ReadsBye, ReadsResult
    <3>2. toServer[c] = << >> /\ nego[c] = "done"
      BY <3>1, Reader DEF Entering, Talking, Greeted, Waiting, Answering, Done, Says
    <3>3. QED
      BY <3>2
  <2>4. QED
    BY <2>1, <2>2, <2>3 DEF ClientStep, Reads, Connects, ContestantConnects, SendsName, ReadsHandshake,
       ReadsQuestion, LosesServer, SendsChoice, SendsInvalidChoice, Chooses, Exits, Interrupted, Leaves,
       Unserved, wire
<1>2. toServer'[c] = toServer[c] \/ \E a : toServer'[c] = Append(toServer[c], a)
  BY <1>0 DEF ClientStep, Reads, Connects, ContestantConnects, SendsName, ReadsHandshake,
     ReadsQuestion, ReadsBye, ReadsResult, LosesServer, SendsChoice, SendsInvalidChoice, Chooses, Exits,
     Interrupted, Leaves, Unserved, wire, Sent, WireOK
<1>3. nego'[c] = "replying" => nego[c] = "replying"
  <2>1. CASE Connects(c)
    BY <1>0, <2>1 DEF Connects, ContestantConnects, Unserved, joining, JoiningOK
  <2>2. QED
    BY <2>1, ClientApart DEF Staged
<1>4. CASE toServer'[c] = toServer[c]
  BY <1>3, <1>4 DEF Brief
<1>5. CASE toServer[c] = << >> /\ nego[c] # "replying"
  BY <1>2, <1>3, <1>5, AppendsOne DEF Brief
<1>6. QED
  BY <1>1, <1>4, <1>5

\* A client that is gone changes nothing of its connection and shows nothing more.
LEMMA GoneAbreast ==
  ASSUME Staged, NEW c \in Conns, ClientStep(c), NEW n \in Joined, c = contestants[n],
         Abreast(c, n), link[c] # "open"
  PROVE  Abreast(c, n)'
<1>0. WireOK /\ Stage(c) /\ nego[c] = "done"
  BY Partner DEF Staged, PlayTyped, Typed, TypeOK
<1>1. ~Connects(c)
  BY <1>0 DEF Connects, Stage
<1>2. /\ shown' = shown /\ link' = link /\ toServer' = toServer /\ toContestant' = toContestant
  BY <1>1 DEF ClientStep, Reads, SendsName, ReadsHandshake, ReadsQuestion, ReadsBye, ReadsResult, Takes,
     LosesServer, SendsChoice, SendsInvalidChoice, Chooses, Exits, Interrupted, Leaves, Unserved, wire,
     Sent, ServerGone
<1>3. UNCHANGED <<told, process, task, pc, rest, state>>
  BY ClientApart DEF Staged, session, owner, tasks
<1>4. Placed(n)
  BY <1>3, SamePlace
<1>5. (UpToDate(c, n) => UpToDate(c, n)') /\ (OneBehind(c, n) => OneBehind(c, n)')
  BY <1>2, <1>3 DEF UpToDate, OneBehind, LastTold
<1>6. Unheard(c, n) => Unheard(c, n)'
  BY <1>2, <1>3, <1>4 DEF Unheard, Placed, Alive
<1>7. QED
  BY <1>2, <1>3, <1>4, <1>5, <1>6 DEF Abreast, Placed, Alive, Ending

\* A client that leaves has said all it will say, unless the session waits for it.
LEMMA LeavesAbreast ==
  ASSUME Staged, NEW c \in Conns, Exits(c) \/ Interrupted(c), ClientStep(c),
         NEW n \in Joined, c = contestants[n], Abreast(c, n)
  PROVE  Abreast(c, n)'
<1>0. WireOK /\ Shape /\ n \in Nicks
  BY DEF Staged, PlayTyped, Typed, TypeOK, SessionOK
<1>1. /\ Leaves(c) /\ link[c] = "open" /\ UNCHANGED <<shown, toServer>>
      /\ UNCHANGED <<told, process, task, pc, rest, state>>
  BY ClientApart DEF Exits, Interrupted, Leaves, Staged, session, owner, tasks
<1>2. link'[c] \in {"fin", "rst"} /\ Placed(n) /\ Talking(c, n)
  BY <1>0, <1>1, SamePlace, Partner DEF Leaves, WireOK
<1>3. CASE Underway(c)
  <2>1. toServer[c] = << >> /\ (Alive => Acking(n))
    BY <1>2, <1>3 DEF Underway, Talking, Greeted, Waiting, Answering, Done, Says
  <2>2. OneBehind(c, n)'
    BY <1>1, <1>3 DEF Abreast, OneBehind
  <2>3. Unheard(c, n)'
    BY <1>1, <1>2, <2>1 DEF Unheard, Placed, Alive
  <2>4. QED
    BY <1>2, <2>2, <2>3 DEF Abreast
<1>4. CASE ~Underway(c)
  <2>1. UpToDate(c, n)
    BY <1>1, <1>4 DEF Abreast
  <2>2. Alive /\ (Idle(n) \/ Owed(n)) => ~Reading(n) /\ ~Acking(n) /\ ~Leaving(n)
    BY <1>0 DEF Idle, Owed, Reading, Acking, Leaving, Shape
  <2>3. Alive /\ (Idle(n) \/ Owed(n)) => toServer[c] = << >>
    BY <1>2, <2>2 DEF Talking, Greeted, Waiting, Answering, Done, Says
  <2>4. QED
    BY <1>1, <1>2, <2>1, <2>3, UpToDateAbreast DEF Placed, Alive
<1>5. QED
  BY <1>3, <1>4

\* What a client reads, it shows when it is what it was told last.
LEMMA ReadsAbreast ==
  ASSUME Staged, NEW c \in Conns, Takes(c), ClientStep(c), NEW n \in Joined, c = contestants[n],
         Abreast(c, n),
         ReadsHandshake(c) \/ ReadsQuestion(c) \/ ReadsBye(c) \/ ReadsResult(c)
  PROVE  Abreast(c, n)'
<1>0. ClientsOK
  BY DEF Staged, PlayTyped
<1>1. link[c] = "open" /\ link'[c] = "open" /\ toContestant[c] # << >> /\ told' = told
  BY Reader
<1>2. CASE ReadsResult(c)
  <2>1. Says(c, "judging", << >>, <<Result(LastTold(n))>>) /\ told[n] # << >>
    BY <1>1, <1>2, Partner DEF ReadsResult, Talking, Greeted, Waiting, Answering, Done, Says
  <2>2. Head(toContestant[c]) = Result(LastTold(n))
    BY <2>1, AppendsOne DEF Says
  <2>3. shown'[c] = LastTold(n) /\ client'[c] = "waiting"
    BY <1>0, <1>2, <2>2, Kinds DEF ReadsResult, Goes, ClientsOK
  <2>4. UpToDate(c, n)' /\ ~Underway(c)'
    BY <1>1, <2>1, <2>3 DEF UpToDate, LastTold, Underway
  <2>5. QED
    BY <1>1, <2>4 DEF Abreast
<1>3. CASE ReadsHandshake(c) \/ ReadsQuestion(c) \/ ReadsBye(c)
  <2>1. client[c] # "judging" /\ client'[c] # "judging" /\ shown' = shown
    BY <1>0, <1>3 DEF ReadsHandshake, ReadsQuestion, ReadsBye, Goes, ClientsOK
  <2>2. UpToDate(c, n)
    BY <1>1, <2>1 DEF Abreast, Underway
  <2>3. QED
    BY <1>1, <2>1, <2>2 DEF UpToDate, LastTold, Underway, Abreast
<1>4. QED
  BY <1>2, <1>3

LEMMA ClientAbreast ==
  ASSUME Staged, NEW c \in Conns, ClientStep(c), NEW n \in Joined, c = contestants[n],
         Abreast(c, n)
  PROVE  Abreast(c, n)'
<1>0. ClientsOK /\ WireOK /\ Stage(c) /\ nego[c] = "done"
  BY Partner DEF Staged, PlayTyped, Typed, TypeOK
<1>1. CASE link[c] # "open"
  BY <1>1, GoneAbreast
<1>2. CASE link[c] = "open" /\ (Exits(c) \/ Interrupted(c))
  BY <1>2, LeavesAbreast
<1>3. CASE ReadsHandshake(c) \/ ReadsQuestion(c) \/ ReadsBye(c) \/ ReadsResult(c)
  <2>1. Takes(c)
    BY <1>3 DEF ReadsHandshake, ReadsQuestion, ReadsBye, ReadsResult
  <2>2. QED
    BY <1>3, <2>1, ReadsAbreast
<1>4. CASE link[c] = "open" /\ (SendsChoice(c) \/ SendsInvalidChoice(c) \/ LosesServer(c))
  <2>1. shown' = shown /\ link' = link /\ toContestant' = toContestant /\ told' = told
    BY <1>4 DEF SendsChoice, SendsInvalidChoice, Chooses, LosesServer, Unserved, wire
  <2>2. toContestant[c] = << >>
    <3>1. client[c] = "choosing" => toContestant[c] = << >>
      BY <1>4, Partner DEF Talking, Greeted, Waiting, Answering, Done, Says
    <3>2. QED
      BY <1>4, <3>1 DEF SendsChoice, SendsInvalidChoice, Chooses, LosesServer
  <2>3. UpToDate(c, n)'
    BY <1>4, <2>1, <2>2 DEF Abreast, Underway, UpToDate, LastTold
  <2>4. QED
    BY <1>4, <2>1, <2>2, <2>3 DEF Abreast, Underway
<1>5. ~Connects(c)
  BY <1>0 DEF Connects, Stage
<1>6. CASE link[c] = "open" /\ SendsName(c)
  BY <1>6, Partner DEF SendsName, Talking, Greeted, Waiting, Answering, Done, Says
<1>7. QED
  BY <1>1, <1>2, <1>3, <1>4, <1>5, <1>6 DEF ClientStep, Reads

-----------------------------------------------------------------------------
(* The invariant. *)

LEMMA ClientFollows ==
  ASSUME Following, NEW c \in Conns, ClientStep(c), Staged'
  PROVE  Following'
<1>0. Staged /\ Untold
  BY DEF Following
<1>1. /\ UNCHANGED <<contestants, told, state, task, pc, rest, process>>
      /\ \A d \in Conns \ {c} : Elsewhere(d)
  BY <1>0, ClientApart DEF Staged, session, owner, tasks
<1>2. ASSUME NEW d \in Conns PROVE Brief(d)'
  <2>1. CASE d = c
    BY <1>0, <2>1, ClientBrief DEF Following
  <2>2. CASE d # c
    BY <1>1, <2>2 DEF Following, Brief, Elsewhere
  <2>3. QED
    BY <2>1, <2>2
<1>3. Untold'
  <2>1. ASSUME NEW d \in Conns, nego'[d] # "done" PROVE shown'[d] = << >>
    <3>1. CASE d # c
      BY <1>0, <1>1, <2>1, <3>1 DEF Elsewhere, Untold
    <3>2. CASE d = c
      <4>1. nego[c] # "done"
        BY <1>0, <2>1, <3>2, ClientApart DEF Connects, ContestantConnects, Unserved, joining, Stage, Staged
      <4>2. ~ReadsResult(c)
        <5>1. client[c] = "judging" => Mine(c)
          BY <1>0 DEF Staged, Stage
        <5>2. QED
          BY <1>0, <4>1, <5>1, Partner DEF ReadsResult, Mine
      <4>3. shown' = shown
        BY <4>2 DEF ClientStep, Reads, Connects, SendsName, ReadsHandshake, ReadsQuestion, ReadsBye,
           LosesServer, SendsChoice, SendsInvalidChoice, Chooses, Exits, Interrupted, Leaves
      <4>4. QED
        BY <1>0, <3>2, <4>1, <4>3 DEF Untold
    <3>3. QED
      BY <3>1, <3>2
  <2>2. QED
    BY <1>0, <1>1, <2>1 DEF Untold, Joined
<1>4. ASSUME NEW n \in Joined, NEW d \in Conns, d = contestants[n] PROVE Abreast(d, n)'
  <2>1. Abreast(d, n)
    BY <1>4 DEF Following
  <2>2. CASE d = c
    BY <1>0, <1>4, <2>1, <2>2, ClientAbreast
  <2>3. CASE d # c
    <3>1. Elsewhere(d) /\ Placed(n)
      BY <1>1, <2>3, SamePlace
    <3>2. (UpToDate(d, n) => UpToDate(d, n)') /\ (OneBehind(d, n) => OneBehind(d, n)')
      BY <1>1, <3>1 DEF UpToDate, OneBehind, LastTold, Elsewhere
    <3>3. Unheard(d, n) => Unheard(d, n)'
      BY <1>1, <3>1 DEF Unheard, Placed, Alive, Elsewhere
    <3>4. QED
      BY <1>1, <2>1, <3>1, <3>2, <3>3 DEF Abreast, Underway, Elsewhere, Placed, Alive, Ending
  <2>4. QED
    BY <2>2, <2>3
<1>5. QED
  BY <1>1, <1>2, <1>3, <1>4 DEF Following, Joined

LEMMA FollowingStep == Following /\ [PlayNext]_playVars => Following'
<1> SUFFICES ASSUME Following, [PlayNext]_playVars PROVE Following'
  OBVIOUS
<1>1. Staged'
  BY StagedStep DEF Following
<1>2. CASE ServerStep /\ UNCHANGED clients
  BY <1>1, <1>2, ServerBrief, ServerUntold, ServerAbreast DEF Following
<1>3. ASSUME NEW c \in Conns, ClientStep(c) PROVE Following'
  BY <1>1, <1>3, ClientFollows
<1>4. CASE UNCHANGED playVars
  <2>1. UNCHANGED <<contestants, told, state, task, pc, rest, process, nego, client, shown, link,
                    toServer, toContestant>>
    BY <1>4 DEF playVars, vars, clients, session, owner, joining, tasks, wire
  <2>2. Untold' /\ \A c \in Conns : Brief(c)'
    BY <2>1 DEF Following, Untold, Brief, Joined
  <2>3. ASSUME NEW n \in Joined, NEW c \in Conns, c = contestants[n] PROVE Abreast(c, n)'
    <3>1. Abreast(c, n)
      BY <2>3 DEF Following
    <3>2. QED
      BY <2>1, <3>1 DEF Abreast, UpToDate, OneBehind, Unheard, Underway, LastTold, Idle, Reading, Owed,
         Acking, Leaving, Alive, Ending
  <2>4. QED
    BY <1>1, <2>1, <2>2, <2>3 DEF Following, Joined
<1>5. QED
  BY <1>2, <1>3, <1>4 DEF PlayNext, AllOver, Finished, playVars

LEMMA InitFollowing == PlayInit => Following
<1> SUFFICES ASSUME PlayInit PROVE Following
  OBVIOUS
<1>1. Untold /\ (\A c \in Conns : Brief(c)) /\ Joined = {}
  BY DEF PlayInit, Init, Untold, Brief, Joined
<1>2. QED
  BY <1>1, InitStaged DEF Following

LEMMA FollowingShows == Following => ShowsWhatItWasTold
<1> SUFFICES ASSUME Following, NEW n \in Joined, NEW c \in Conns, c = contestants[n],
                    shown[c] # << >>
             PROVE  \/ shown[c] = told[n][Len(told[n])]
                    \/ /\ Len(told[n]) > 1 /\ shown[c] = told[n][Len(told[n]) - 1]
                       /\ link[c] = "open" => toContestant[c] = << Result(told[n][Len(told[n])]) >>
  BY DEF Following, Staged, PlayTyped, Typed, TypeOK, SessionOK, ShowsWhatItWasTold
<1>1. Abreast(c, n) /\ Staged /\ n \in Nicks /\ told[n] \in Seq(Verdicts)
  BY DEF Following, Staged, PlayTyped, Typed, TypeOK, SessionOK
<1>2. CASE UpToDate(c, n)
  BY <1>2 DEF UpToDate, LastTold
<1>3. CASE OneBehind(c, n) /\ (link[c] = "open" => Underway(c))
  <2>1. \A s \in Seq(Verdicts) : s # << >> /\ Len(s) # 1 => Len(s) > 1
    <3>1. \A s \in Seq(Verdicts) : Len(s) \in Nat /\ (Len(s) = 0 => s = << >>)
      OBVIOUS
    <3>2. \A k \in Nat : k # 0 /\ k # 1 => k > 1
      OBVIOUS
    <3>3. QED
      BY <3>1, <3>2
  <2>2. Len(told[n]) > 1 /\ shown[c] = told[n][Len(told[n]) - 1]
    BY <1>1, <1>3, <2>1 DEF OneBehind
  <2>3. link[c] = "open" => toContestant[c] = <<Result(LastTold(n))>>
    BY <1>1, <1>3, Partner DEF Underway, Talking, Greeted, Waiting, Answering, Done, Says
  <2>4. QED
    BY <2>2, <2>3 DEF LastTold
<1>4. QED
  BY <1>1, <1>2, <1>3 DEF Abreast

\* What a client shows its user is the last results its contestant was told, or the
\* ones before while these are under way or were lost with the client's end of the
\* connection (ContestSession.cpp:102-115, ContestantClient.cpp:164-175).
THEOREM ShownIsTold == PlaySpec => []ShowsWhatItWasTold
BY InitFollowing, FollowingStep, FollowingShows, PTL DEF PlaySpec
=============================================================================
