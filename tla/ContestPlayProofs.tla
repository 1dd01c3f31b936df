------------------------- MODULE ContestPlayProofs -------------------------
(* Theorems about ContestPlay: the contestant's program against a session, *)
(* for every number of connections, nicknames and questions, every script  *)
(* of the owner, every fault, and whoever's user interrupts the program.   *)
EXTENDS ContestPlay, ContestSessionTurns

ClientsOK ==
  /\ client \in [Conns -> ClientStates]
  /\ name \in [Conns -> Nicks \cup {NoNick}]
  /\ shown \in [Conns -> {<< >>} \cup Verdicts]

PlayTyped == Typed /\ ClientsOK

-----------------------------------------------------------------------------
(* Lemmas about messages and about the client's end of a connection. *)

LEMMA AppendsOne == \A a : Append(<< >>, a) = <<a>> /\ <<a>> # << >> /\ Head(<<a>>) = a
OBVIOUS

\* What each message of the session is to a client that reads it.
LEMMA Kinds ==
  /\ Ok # Bye /\ ~IsResult(Ok) /\ ~IsQuestion(Ok) /\ Error("NCKDUP") # Ok /\ Error("EMPTYN") # Ok
  /\ \A q : IsQuestion(Question(q)) /\ Question(q) # Bye /\ ~IsResult(Question(q)) /\ Question(q) # Ok
  /\ \A r : IsResult(Result(r)) /\ Result(r).result = r
  /\ ~IsResult(Bye)
BY DEF Ok, Bye, Error, Question, Result, IsResult, IsQuestion

LEMMA ResultRead ==
  ASSUME NEW m \in FromServer, IsResult(m)
  PROVE  m.result \in Verdicts
BY DEF FromServer, Ok, Bye, Error, Question, IsResult

\* What a client says is one message more in its stream, or nothing.
LEMMA SentTyped ==
  ASSUME WireOK, NEW c \in Conns, NEW m \in FromContestant
  PROVE  /\ Sent(c, m) \in [Conns -> Seq(FromContestant)]
         /\ \A d \in Conns \ {c} : Sent(c, m)[d] = toServer[d]
         /\ Sent(c, m)[c] \in {toServer[c], Append(toServer[c], m)}
         /\ process = "running" /\ link[c] = "open" => Sent(c, m)[c] = Append(toServer[c], m)
         /\ process # "running" => Sent(c, m)[c] = toServer[c]
BY DEF Sent, ServerGone, WireOK

LEMMA TakesApart ==
  ASSUME WireOK, NEW c \in Conns, Takes(c)
  PROVE  /\ toContestant[c] # << >> /\ link[c] = "open"
         /\ Head(toContestant[c]) \in FromServer
         /\ toContestant'[c] \in LeftAfterRead(toContestant[c])
         /\ toContestant' \in [Conns -> Seq(FromServer)]
         /\ \A d \in Conns \ {c} : toContestant'[d] = toContestant[d]
         /\ UNCHANGED <<session, owner, joining, tasks, told, link, greeted, process>>
<1>1. PICK s \in LeftAfterRead(toContestant[c]) : toContestant' = [toContestant EXCEPT ![c] = s]
  BY DEF Takes
<1>2. toContestant[c] \in Seq(FromServer) /\ toContestant[c] # << >>
  BY DEF WireOK, Takes
<1>3. s \in Seq(FromServer)
  BY <1>1, <1>2, LeftAfterReadTyped
<1>4. Head(toContestant[c]) \in FromServer
  BY <1>2
<1>5. QED
  BY <1>1, <1>2, <1>3, <1>4 DEF Takes, WireOK

\* A read of one message leaves nothing, one of two the second or nothing.
LEMMA OneLeft == ASSUME NEW a PROVE LeftAfterRead(<<a>>) = {<< >>}
<1>1. Len(<<a>>) = 1 /\ 1..1 = {1} /\ 1 \in 1..1
  OBVIOUS
<1>2. SubSeq(<<a>>, 2, 1) = << >>
  BY SubSeqEmpty
<1>3. ASSUME NEW k \in 1..Len(<<a>>) PROVE SubSeq(<<a>>, k + 1, Len(<<a>>)) = << >>
  <2>1. k + 1 = 2
    BY <1>1
  <2>2. QED
    BY <1>1, <1>2, <2>1
<1>4. QED
  BY <1>1, <1>3 DEF LeftAfterRead

LEMMA TwoLeft == ASSUME NEW a, NEW b PROVE LeftAfterRead(<<a, b>>) = {<< >>, <<b>>}
<1>1. Len(<<a, b>>) = 2 /\ 1..2 = {1, 2} /\ <<a, b>>[2] = b
  OBVIOUS
<1>2. SubSeq(<<a, b>>, 3, 2) = << >>
  BY SubSeqEmpty
<1>3. SubSeq(<<a, b>>, 2, 2) = <<b>>
  <2>1. \A i \in 2..2 : <<a, b>>[i] \in {b}
    BY <1>1
  <2>2. /\ SubSeq(<<a, b>>, 2, 2) \in Seq({b}) /\ Len(SubSeq(<<a, b>>, 2, 2)) = 1
    BY <2>1, SubSeqProperties
  <2>3. \A t \in Seq({b}) : Len(t) = 1 => t = <<b>>
    OBVIOUS
  <2>4. QED
    BY <2>2, <2>3
<1>4. ASSUME NEW k \in 1..Len(<<a, b>>)
      PROVE  SubSeq(<<a, b>>, k + 1, Len(<<a, b>>)) \in {<< >>, <<b>>}
  <2>1. k + 1 \in {2, 3}
    BY <1>1
  <2>2. QED
    BY <1>1, <1>2, <1>3, <2>1
<1>5. SubSeq(<<a, b>>, 1 + 1, Len(<<a, b>>)) = <<b>> /\ SubSeq(<<a, b>>, 2 + 1, Len(<<a, b>>)) = << >>
  BY <1>1, <1>2, <1>3
<1>6. 1 \in 1..Len(<<a, b>>) /\ 2 \in 1..Len(<<a, b>>)
  BY <1>1
<1>7. QED
  BY <1>4, <1>5, <1>6 DEF LeftAfterRead

-----------------------------------------------------------------------------
(* Types, and what a client leaves alone. *)

Elsewhere(d) ==
  /\ client'[d] = client[d] /\ name'[d] = name[d] /\ shown'[d] = shown[d]
  /\ link'[d] = link[d] /\ toServer'[d] = toServer[d] /\ toContestant'[d] = toContestant[d]
  /\ nego'[d] = nego[d]

\* A step of a client is between it and its connection.
LEMMA ClientApart ==
  ASSUME PlayTyped, NEW c \in Conns, ClientStep(c)
  PROVE  /\ ClientsOK' /\ WireOK' /\ JoiningOK'
         /\ UNCHANGED <<session, owner, timer, req, tasks, told, process>>
         /\ \A d \in Conns \ {c} : Elsewhere(d)
         /\ Connects(c) \/ nego' = nego
<1>0. WireOK /\ JoiningOK /\ ClientsOK
  BY DEF PlayTyped, Typed, TypeOK
<1>1. CASE Connects(c)
  BY <1>0, <1>1 DEF Connects, ContestantConnects, Unserved, Goes, ClientsOK, ClientStates, WireOK,
     JoiningOK, LinkStates, wire, joining, Elsewhere
<1>2. CASE SendsName(c)
  <2>1. PICK n \in Nicks \cup {NoNick} : /\ name' = [name EXCEPT ![c] = n]
                                         /\ toServer' = Sent(c, Hello("contestant", n))
    BY <1>0, <1>2 DEF SendsName, ClientsOK
  <2>2. Hello("contestant", n) \in FromContestant
    BY DEF FromContestant, Hellos
  <2>3. /\ toServer' \in [Conns -> Seq(FromContestant)]
        /\ \A d \in Conns \ {c} : toServer'[d] = toServer[d]
    BY <1>0, <2>1, <2>2, SentTyped
  <2>4. QED
    BY <1>0, <1>2, <2>1, <2>3 DEF SendsName, Goes, ClientsOK, ClientStates, WireOK, JoiningOK,
       joining, Elsewhere
<1>3. CASE ReadsHandshake(c) \/ ReadsQuestion(c)
  <2>1. Takes(c) /\ UNCHANGED <<toServer, name, shown>>
    BY <1>3 DEF ReadsHandshake, ReadsQuestion
  <2>2. PICK place \in ClientStates : client' = [client EXCEPT ![c] = place]
    BY <1>3 DEF ReadsHandshake, ReadsQuestion, Goes, ClientStates
  <2>3. QED
    BY <1>0, <2>1, <2>2, TakesApart DEF ClientsOK, WireOK, JoiningOK, joining, Elsewhere
<1>4. CASE ReadsBye(c)
  <2>1. Takes(c) /\ toServer' = Sent(c, Ack) /\ Goes(c, "done") /\ UNCHANGED <<name, shown>>
    BY <1>4 DEF ReadsBye
  <2>2. Ack \in FromContestant
    BY DEF FromContestant
  <2>3. QED
    BY <1>0, <2>1, <2>2, TakesApart, SentTyped DEF Goes, ClientStates, ClientsOK, WireOK, JoiningOK,
       joining, Elsewhere
<1>5. CASE SendsChoice(c) \/ SendsInvalidChoice(c)
  <2>1. PICK a \in Choices \cup {"none"} : Chooses(c, a)
    BY <1>5 DEF SendsChoice, SendsInvalidChoice
  <2>2. Answer(a) \in FromContestant
    BY DEF FromContestant, Answers
  <2>3. /\ toServer' \in [Conns -> Seq(FromContestant)]
        /\ \A d \in Conns \ {c} : toServer'[d] = toServer[d]
    BY <1>0, <2>1, <2>2, SentTyped DEF Chooses
  <2>4. QED
    BY <1>0, <2>1, <2>3 DEF Chooses, Goes, ClientStates, ClientsOK, WireOK, JoiningOK, joining,
       Elsewhere
<1>6. CASE ReadsResult(c)
  <2>1. Takes(c) /\ UNCHANGED name
    BY <1>6 DEF ReadsResult
  <2>2. Ack \in FromContestant
    BY DEF FromContestant
  <2>3. CASE IsResult(Head(toContestant[c]))
    <3>1. Head(toContestant[c]).result \in Verdicts
      BY <1>0, <2>1, <2>3, TakesApart, ResultRead
    <3>2. /\ shown' = [shown EXCEPT ![c] = Head(toContestant[c]).result]
          /\ toServer' = Sent(c, Ack) /\ Goes(c, "waiting")
      BY <1>6, <2>3 DEF ReadsResult
    <3>3. QED
      BY <1>0, <2>1, <2>2, <3>1, <3>2, TakesApart, SentTyped DEF Goes, ClientStates, ClientsOK,
         WireOK, JoiningOK, joining, Elsewhere
  <2>4. CASE ~IsResult(Head(toContestant[c]))
    <3>1. Goes(c, "confused") /\ UNCHANGED <<toServer, shown>>
      BY <1>6, <2>4 DEF ReadsResult
    <3>2. QED
      BY <1>0, <2>1, <3>1, TakesApart DEF Goes, ClientStates, ClientsOK, WireOK, JoiningOK,
         joining, Elsewhere
  <2>5. QED
    BY <2>3, <2>4
<1>7. CASE LosesServer(c)
  BY <1>0, <1>7 DEF LosesServer, Unserved, Goes, ClientsOK, ClientStates, WireOK, JoiningOK, wire,
     joining, Elsewhere
<1>8. CASE Exits(c) \/ Interrupted(c)
  <2>1. /\ Leaves(c)
        /\ UNCHANGED client \/ Goes(c, "cut")
    BY <1>8 DEF Exits, Interrupted
  <2>2. PICK l \in LinkStates : link' = [link EXCEPT ![c] = l]
    BY <2>1 DEF Leaves, LinkStates
  <2>3. toContestant' = [toContestant EXCEPT ![c] = << >>] /\ << >> \in Seq(FromServer)
    BY <2>1 DEF Leaves
  <2>4. WireOK' /\ \A d \in Conns \ {c} : toContestant'[d] = toContestant[d] /\ link'[d] = link[d]
    BY <1>0, <2>1, <2>2, <2>3 DEF Leaves, WireOK
  <2>5. ClientsOK' /\ \A d \in Conns \ {c} : client'[d] = client[d]
    BY <1>0, <2>1 DEF Leaves, Goes, ClientsOK, ClientStates
  <2>6. QED
    BY <1>0, <2>1, <2>4, <2>5 DEF Leaves, JoiningOK, joining, Elsewhere
<1>9. QED
  BY <1>1, <1>2, <1>3, <1>4, <1>5, <1>6, <1>7, <1>8 DEF ClientStep, Reads

LEMMA ClientTyped ==
  ASSUME PlayTyped, NEW c \in Conns, ClientStep(c)
  PROVE  PlayTyped'
BY ClientApart DEF PlayTyped, Typed, Shape, TypeOK, SessionOK, OwnerOK, TasksOK, Joined, session,
   owner, tasks

LEMMA PlayTypedStep == PlayTyped /\ [PlayNext]_playVars => PlayTyped'
<1> SUFFICES ASSUME PlayTyped, [PlayNext]_playVars PROVE PlayTyped'
  OBVIOUS
<1>1. CASE ServerStep /\ UNCHANGED clients
  <2>1. Typed'
    BY <1>1, NextTyped DEF Next, PlayTyped
  <2>2. QED
    BY <1>1, <2>1 DEF PlayTyped, ClientsOK, clients
<1>2. CASE \E c \in Conns : ClientStep(c)
  BY <1>2, ClientTyped
<1>3. CASE UNCHANGED playVars
  <2>1. Typed'
    BY <1>3, NextTyped DEF playVars, PlayTyped
  <2>2. QED
    BY <1>3, <2>1 DEF PlayTyped, ClientsOK, clients, playVars
<1>4. QED
  BY <1>1, <1>2, <1>3 DEF PlayNext, AllOver, Finished, playVars

LEMMA InitPlayTyped == PlayInit => PlayTyped
BY InitTyped DEF PlayInit, PlayTyped, ClientsOK, ClientStates

\* The clients keep their types, and the session keeps its own with them at the other
\* ends of its connections (ContestantClient.cpp:18-176).
THEOREM PlayTypeCorrect == PlaySpec => []PlayTypeOK
<1>1. PlayTyped => PlayTypeOK
  BY DEF PlayTyped, PlayTypeOK, Typed, ClientsOK
<1>2. QED
  BY <1>1, InitPlayTyped, PlayTypedStep, PTL DEF PlaySpec

-----------------------------------------------------------------------------
(* The conversation of a client with its session: for each place of the    *)
(* program, what is under way on its connection, and how far the session   *)
(* is with its contestant.  A session that has died is nowhere any more.   *)

Alive == process = "running"

\* Where the owner and the task of a round are with contestant n: they wait for its
\* answer, owe it the results, wait for it to take those or its leave, or want nothing.
Reading(n) == task[n] = "reading"
Acking(n)  == pc = "acking" /\ n = First(rest)
Leaving(n) == pc = "closeack" /\ n = First(rest)
Owed(n)    == \/ task[n] \in {"scoring", "loading", "storing"}
              \/ task[n] = "done" /\ n \in rest /\ ~Acking(n)
Idle(n)    == ~Reading(n) /\ ~Acking(n) /\ ~Leaving(n) /\ ~Owed(n)

Says(c, place, up, down) == client[c] = place /\ toServer[c] = up /\ toContestant[c] = down

Mine(c) == name[c] \in Joined /\ contestants[name[c]] = c

LastTold(n) == told[n][Len(told[n])]

\* A client that is not let in yet.
Entering(c) ==
  \/ Says(c, "naming", << >>, << >>) /\ nego[c] \in {"queued", "reading"}
  \/ /\ Says(c, "greeting", << >>, << >>)
     /\ Alive => nego[c] = "replying" /\ req[c] = Hello("contestant", name[c])
  \/ /\ Says(c, "greeting", <<Hello("contestant", name[c])>>, << >>)
     /\ nego[c] \in {"queued", "reading"}
  \/ /\ \E e \in {"NCKDUP", "EMPTYN"} : Says(c, "greeting", << >>, <<Error(e)>>)
     /\ nego[c] = "reading"
  \/ client[c] = "cut" /\ ~Alive

\* A client that is contestant n.
Greeted(c, n) ==
  \/ Says(c, "greeting", << >>, <<Ok>>) /\ (Alive => Idle(n))
  \/ /\ \E q \in Questions : Says(c, "greeting", << >>, <<Ok, Question(q)>>)
     /\ Alive => Reading(n)
  \/ Says(c, "greeting", << >>, <<Ok, Bye>>) /\ (Alive => Leaving(n))

\* What came along with the OK is lost to a client that waits for it in vain.
Waiting(c, n) ==
  \/ Says(c, "waiting", << >>, << >>) /\ (Alive => Idle(n) \/ Reading(n) \/ Leaving(n))
  \/ /\ \E q \in Questions : Says(c, "waiting", << >>, <<Question(q)>>)
     /\ Alive => Reading(n)
  \/ Says(c, "waiting", << >>, <<Bye>>) /\ (Alive => Leaving(n))
  \/ Says(c, "waiting", <<Ack>>, << >>) /\ (Alive => Acking(n))

Answering(c, n) ==
  \/ Says(c, "choosing", << >>, << >>) /\ (Alive => Reading(n))
  \/ /\ \E a \in Choices \cup {"none"} : Says(c, "judging", <<Answer(a)>>, << >>)
     /\ Alive => Reading(n)
  \/ Says(c, "judging", << >>, << >>) /\ (Alive => Owed(n))
  \/ /\ told[n] # << >> /\ Says(c, "judging", << >>, <<Result(LastTold(n))>>)
     /\ Alive => Acking(n)

Done(c, n) ==
  \/ Says(c, "done", <<Ack>>, << >>) /\ (Alive => Leaving(n))
  \/ client[c] \in {"done", "cut"} /\ toContestant[c] = << >> /\ ~Alive

Talking(c, n) == Greeted(c, n) \/ Waiting(c, n) \/ Answering(c, n) \/ Done(c, n)

Stage(c) ==
  /\ nego[c] = "none" => link[c] = "idle" /\ Silent(c)
  /\ client[c] = "start" => nego[c] = "none"
  /\ client[c] # "confused"
  /\ client[c] \in {"waiting", "choosing", "judging", "done"} => Mine(c)
  /\ link[c] = "open" =>
       \/ nego[c] # "done" /\ Entering(c)
       \/ nego[c] = "done" /\ \E n \in Joined : name[c] = n /\ contestants[n] = c /\ Talking(c, n)

\* The owner has everybody before it until all have answered.
Gathered ==
  /\ pc = "playing" => rest = Joined
  /\ pc \in {"telling", "acking"} => \A n \in Joined : task[n] = "done"

Staged == PlayTyped /\ Registered /\ Gathered /\ \A c \in Conns : Stage(c)

-----------------------------------------------------------------------------
(* One connection, while others are spoken on. *)

Placed(n) == Idle(n)' = Idle(n) /\ Reading(n)' = Reading(n) /\ Owed(n)' = Owed(n)
             /\ Acking(n)' = Acking(n) /\ Leaving(n)' = Leaving(n)

LEMMA SamePlace == ASSUME UNCHANGED <<task, pc, rest>>, NEW n PROVE Placed(n)
BY DEF Placed, Idle, Reading, Owed, Acking, Leaving

\* Nothing is said on the connection, and nothing asked of its contestant.
LEMMA OtherStage ==
  ASSUME NEW c \in Conns, Stage(c),
         client'[c] = client[c], name'[c] = name[c],
         toServer'[c] = toServer[c], toContestant'[c] = toContestant[c],
         nego'[c] = nego[c], req'[c] = req[c],
         link'[c] = link[c] \/ (link'[c] \notin {"idle", "open"} /\ nego[c] # "none"),
         \A n \in Joined : n \in Joined' /\ contestants'[n] = contestants[n],
         Alive' => Alive,
         \A n \in Joined : link[c] = "open" /\ contestants[n] = c => told'[n] = told[n] /\ (Alive' => Placed(n))
  PROVE  Stage(c)'
<1>1. Mine(c) => Mine(c)'
  BY DEF Mine
<1>2. link'[c] = "open" => link[c] = "open" /\ link'[c] = link[c]
  OBVIOUS
<1>3. ASSUME Entering(c) PROVE Entering(c)'
  BY <1>3 DEF Entering, Says
<1>4. ASSUME NEW n \in Joined, link[c] = "open", name[c] = n, contestants[n] = c, Talking(c, n)
      PROVE  Talking(c, n)'
  <2>1. told'[n] = told[n] /\ (Alive' => Placed(n))
    BY <1>4
  <2>2. Greeted(c, n) => Greeted(c, n)'
    BY <2>1 DEF Greeted, Says, Placed
  <2>3. Waiting(c, n) => Waiting(c, n)'
    BY <2>1 DEF Waiting, Says, Placed
  <2>4. Answering(c, n) => Answering(c, n)'
    BY <2>1 DEF Answering, Says, Placed, LastTold
  <2>5. Done(c, n) => Done(c, n)'
    BY <2>1 DEF Done, Says, Placed
  <2>6. QED
    BY <1>4, <2>2, <2>3, <2>4, <2>5 DEF Talking
<1>5. link'[c] = "open" => \/ nego'[c] # "done" /\ Entering(c)'
                           \/ nego'[c] = "done" /\ \E n \in Joined' : name'[c] = n /\ contestants'[n] = c /\ Talking(c, n)'
  BY <1>2, <1>3, <1>4 DEF Stage
<1>6. QED
  BY <1>1, <1>5 DEF Stage, Silent

\* A step that is none of contestant m's business.
Apart(m) ==
  /\ m \in Joined' /\ contestants'[m] = contestants[m] /\ told'[m] = told[m]
  /\ Alive' => Placed(m)
  /\ LET c == contestants[m] IN
       /\ client'[c] = client[c] /\ shown'[c] = shown[c] /\ link'[c] = link[c]
       /\ toServer'[c] = toServer[c] /\ toContestant'[c] = toContestant[c]

LEMMA SilentStage ==
  ASSUME Staged, Alive, UNCHANGED <<wire, nego, req, contestants, told, clients>>,
         Alive' => \A n \in Joined : Placed(n)
  PROVE  /\ \A c \in Conns : Stage(c)'
         /\ \A m \in Joined : Apart(m)
<1>1. \A c \in Conns : Stage(c)'
  BY OtherStage DEF Staged, wire, clients, Joined
<1>2. \A m \in Joined : Apart(m)
  BY DEF Apart, wire, clients, Joined
<1>3. QED
  BY <1>1, <1>2

\* Who is at the other end of an open connection of contestant n.
LEMMA Partner ==
  ASSUME Staged, NEW n \in Joined, NEW c \in Conns, c = contestants[n]
  PROVE  nego[c] = "done" /\ (link[c] = "open" => name[c] = n /\ Talking(c, n))
BY DEF Staged, Registered, OneReaderPerConnection, Stage

\* The session speaks with contestant n, and with nobody else.
LEMMA SpokenStage ==
  ASSUME Staged, Alive, NEW n \in Joined, NEW c \in Conns, c = contestants[n],
         UNCHANGED <<contestants, nego, req, clients>>,
         \A d \in Conns \ {c} : /\ link'[d] = link[d] /\ toServer'[d] = toServer[d]
                                /\ toContestant'[d] = toContestant[d],
         \A m \in Joined \ {n} : told'[m] = told[m] /\ (Alive' => Placed(m)),
         link'[c] = "open" => link[c] = "open" /\ Talking(c, n)'
  PROVE  /\ \A d \in Conns : Stage(d)'
         /\ \A m \in Joined \ {n} : Apart(m)
<1>1. ASSUME NEW d \in Conns \ {c} PROVE Stage(d)'
  <2>1. \A m \in Joined : contestants[m] = d => m # n
    OBVIOUS
  <2>2. client'[d] = client[d] /\ name'[d] = name[d] /\ nego'[d] = nego[d] /\ req'[d] = req[d]
    BY DEF clients
  <2>3. Stage(d)
    BY DEF Staged
  <2>4. \A m \in Joined : m \in Joined' /\ contestants'[m] = contestants[m]
    BY DEF Joined
  <2>5. QED
    BY <2>1, <2>2, <2>3, <2>4, OtherStage
<1>2. Stage(c)'
  <2>1. nego'[c] = "done" /\ client'[c] = client[c] /\ name'[c] = name[c] /\ Joined' = Joined
    BY Partner DEF clients, Joined
  <2>2. Stage(c) /\ (Mine(c) => Mine(c)')
    BY <2>1 DEF Staged, Mine
  <2>3. link'[c] = "open" => name[c] = n
    BY Partner
  <2>4. QED
    BY <2>1, <2>2, <2>3 DEF Stage
<1>3. ASSUME NEW m \in Joined \ {n} PROVE Apart(m)
  <2>1. contestants[m] \in Conns \ {c}
    BY DEF Staged, PlayTyped, Typed, TypeOK, SessionOK, Registered, OneReaderPerConnection
  <2>2. QED
    BY <2>1 DEF Apart, clients, Joined
<1>4. QED
  BY <1>1, <1>2, <1>3

-----------------------------------------------------------------------------
(* The session's side. *)

LEMMA QuietOwnerStage ==
  ASSUME Staged, Alive,
         \/ StartSession \/ AcceptTimedOut \/ AcceptFails \/ JoinThreads \/ PlayRound
         \/ AllAnswered \/ RoundOver \/ TerminateSession \/ SessionOver \/ CallRefused,
         UNCHANGED clients
  PROVE  /\ \A c \in Conns : Stage(c)'
         /\ \A m \in Joined : Apart(m)
<1>0. Shape /\ Joined \subseteq Nicks
  BY DEF Staged, PlayTyped, Typed, TypeOK, SessionOK
<1>1. UNCHANGED <<wire, nego, req, contestants, told>>
  BY DEF StartSession, AcceptTimedOut, AcceptFails, JoinThreads, PlayRound, AllAnswered, RoundOver,
     TerminateSession, SessionOver, CallRefused, session, joining
<1>2. CASE StartSession \/ AcceptTimedOut \/ AcceptFails \/ JoinThreads \/ SessionOver \/ CallRefused
  BY <1>1, <1>2, SilentStage DEF StartSession, AcceptTimedOut, AcceptFails, JoinThreads, SessionOver,
     CallRefused, owner, tasks, Placed, Idle, Reading, Owed, Acking, Leaving
<1>3. CASE PlayRound \/ TerminateSession
  <2>1. \A n \in Joined : task[n] = "none" /\ task'[n] \in {"none", "sending"}
    BY <1>0, <1>3 DEF PlayRound, TerminateSession, Shape, tasks
  <2>2. \A n \in Joined : Placed(n)
    BY <1>3, <2>1 DEF PlayRound, TerminateSession, Placed, Idle, Reading, Owed, Acking, Leaving
  <2>3. QED
    BY <1>1, <2>2, SilentStage
<1>4. CASE AllAnswered
  <2>1. \A n \in Joined : Placed(n)
    BY <1>4 DEF AllAnswered, tasks, Placed, Idle, Reading, Owed, Acking, Leaving
  <2>2. QED
    BY <1>1, <2>1, SilentStage
<1>5. CASE RoundOver
  <2>1. \A n \in Joined : task[n] \in {"none", "done"} /\ task'[n] = "none"
    BY <1>0, <1>5 DEF RoundOver, Shape
  <2>2. \A n \in Joined : Placed(n)
    BY <1>5, <2>1 DEF RoundOver, Placed, Idle, Reading, Owed, Acking, Leaving
  <2>3. QED
    BY <1>1, <2>2, SilentStage
<1>6. QED
  BY <1>2, <1>3, <1>4, <1>5

LEMMA WindowEndsStage ==
  ASSUME Staged, Alive, WindowEnds, UNCHANGED clients
  PROVE  /\ \A c \in Conns : Stage(c)'
         /\ \A m \in Joined : Apart(m)
<1>1. UNCHANGED <<task, pc, rest, told, nego, req, contestants, toServer, toContestant, process>>
  BY DEF WindowEnds, owner, tasks
<1>2. ASSUME NEW c \in Conns
      PROVE  link'[c] = link[c] \/ (link'[c] \notin {"idle", "open"} /\ nego[c] # "none")
  BY DEF WindowEnds
<1>3. \A c \in Conns : Stage(c)'
  BY <1>1, <1>2, OtherStage, SamePlace DEF Staged, clients, Joined, Alive
<1>4. ASSUME NEW m \in Joined PROVE Apart(m)
  <2>1. PICK c \in Conns : c = contestants[m]
    BY DEF Staged, PlayTyped, Typed, TypeOK, SessionOK
  <2>2. nego[c] = "done"
    BY <2>1, Partner
  <2>3. link'[c] = link[c]
    BY <2>2 DEF WindowEnds
  <2>4. QED
    BY <1>1, <2>1, <2>3, SamePlace DEF Apart, clients, Joined
<1>5. QED
  BY <1>3, <1>4

LEMMA SendQuestionStage ==
  ASSUME Staged, Alive, NEW n \in Nicks, SendQuestion(n), UNCHANGED clients
  PROVE  /\ \A c \in Conns : Stage(c)'
         /\ \A m \in Joined \ {n} : Apart(m)
<1>0. WireOK /\ Shape /\ task \in [Nicks -> {"none", "sending", "reading", "scoring", "loading", "storing", "done"}]
  BY DEF Staged, PlayTyped, Typed, TypeOK, TasksOK
<1>1. n \in Joined /\ task[n] = "sending" /\ pc = "playing" /\ qid \in Questions
  BY <1>0 DEF SendQuestion, Shape
<1>2. PICK c \in Conns : c = contestants[n]
  BY <1>1 DEF Staged, PlayTyped, Typed, TypeOK, SessionOK
<1>3. /\ Write(c, Question(qid)) /\ UNCHANGED <<contestants, nego, req, told, pc, rest>>
      /\ task' = [task EXCEPT ![n] = IF WriteResult(link[c]) = "Except" THEN "done" ELSE "reading"]
  BY <1>2 DEF SendQuestion, session, joining, owner
<1>4. \A m \in Joined \ {n} : told'[m] = told[m] /\ Placed(m)
  BY <1>0, <1>1, <1>3 DEF Placed, Idle, Reading, Owed, Acking, Leaving
<1>5. /\ \A d \in Conns \ {c} : /\ link'[d] = link[d] /\ toServer'[d] = toServer[d]
                                /\ toContestant'[d] = toContestant[d]
      /\ toServer' = toServer /\ (link'[c] = "open" => link[c] = "open")
      /\ link[c] = "open" => toContestant'[c] = Append(toContestant[c], Question(qid))
  BY <1>0, <1>1, <1>3, WriteAppends, QuestionTyped
<1>6. ASSUME link[c] = "open" PROVE Talking(c, n)'
  <2>1. Talking(c, n) /\ Idle(n)
    BY <1>1, <1>2, <1>6, Partner DEF Idle, Reading, Owed, Acking, Leaving
  <2>2. Says(c, "greeting", << >>, <<Ok>>) \/ Says(c, "waiting", << >>, << >>)
    BY <2>1 DEF Talking, Greeted, Waiting, Answering, Done, Idle
  <2>3. Reading(n)'
    BY <1>0, <1>1, <1>3, <1>6 DEF Reading, WriteResult
  <2>4. client'[c] = client[c] /\ toServer'[c] = toServer[c]
    BY <1>5 DEF clients
  <2>5. CASE Says(c, "greeting", << >>, <<Ok>>)
    <3>1. toContestant'[c] = <<Ok, Question(qid)>>
      BY <1>5, <1>6, <2>5 DEF Says
    <3>2. QED
      BY <1>1, <2>3, <2>4, <2>5, <3>1 DEF Talking, Greeted, Says
  <2>6. CASE Says(c, "waiting", << >>, << >>)
    <3>1. toContestant'[c] = <<Question(qid)>>
      BY <1>5, <1>6, <2>6, AppendsOne DEF Says
    <3>2. QED
      BY <1>1, <2>3, <2>4, <2>6, <3>1 DEF Talking, Waiting, Says
  <2>7. QED
    BY <2>2, <2>5, <2>6
<1>7. QED
  BY <1>1, <1>2, <1>3, <1>4, <1>5, <1>6, SpokenStage

LEMMA ReadAnswerStage ==
  ASSUME Staged, Alive, NEW n \in Nicks, ReadAnswer(n), UNCHANGED clients
  PROVE  /\ \A c \in Conns : Stage(c)'
         /\ \A m \in Joined \ {n} : Apart(m)
<1>0. WireOK /\ Shape /\ task \in [Nicks -> {"none", "sending", "reading", "scoring", "loading", "storing", "done"}]
  BY DEF Staged, PlayTyped, Typed, TypeOK, TasksOK
<1>1. n \in Joined /\ task[n] = "reading" /\ pc = "playing" /\ rest = Joined
  BY <1>0 DEF ReadAnswer, Shape, Staged, Gathered
<1>2. PICK c \in Conns : c = contestants[n]
  BY <1>1 DEF Staged, PlayTyped, Typed, TypeOK, SessionOK
<1>3. /\ ReadData(c) \/ ReadEof(c) \/ ReadError(c)
      /\ UNCHANGED <<contestants, nego, req, told, pc, rest>>
      /\ task' = [task EXCEPT ![n] = IF RightAnswer(n) THEN "scoring" ELSE "done"]
  BY <1>2 DEF ReadAnswer, session, joining, owner
<1>4. \A m \in Joined \ {n} : told'[m] = told[m] /\ Placed(m)
  BY <1>0, <1>1, <1>3 DEF Placed, Idle, Reading, Owed, Acking, Leaving
<1>5. /\ \A d \in Conns \ {c} : /\ link'[d] = link[d] /\ toServer'[d] = toServer[d]
                                /\ toContestant'[d] = toContestant[d]
      /\ toContestant' = toContestant
      /\ link'[c] = "open" => link[c] = "open" /\ toServer'[c] \in LeftAfterRead(toServer[c])
                              /\ toServer[c] # << >>
  <2>1. CASE ReadData(c)
    BY <1>0, <2>1 DEF ReadData, HasData, WireOK
  <2>2. CASE ReadEof(c)
    BY <1>0, <2>2 DEF ReadEof, AtEof, wire
  <2>3. CASE ReadError(c)
    BY <1>0, <2>3 DEF ReadError, WireOK
  <2>4. QED
    BY <1>3, <2>1, <2>2, <2>3
<1>6. ASSUME link'[c] = "open" PROVE Talking(c, n)'
  <2>1. Talking(c, n) /\ Reading(n) /\ ~Idle(n) /\ ~Owed(n) /\ ~Acking(n) /\ ~Leaving(n)
    BY <1>1, <1>2, <1>5, <1>6, Partner DEF Idle, Reading, Owed, Acking, Leaving
  <2>2. PICK a \in Choices \cup {"none"} : Says(c, "judging", <<Answer(a)>>, << >>)
    BY <1>5, <1>6, <2>1 DEF Talking, Greeted, Waiting, Answering, Done, Says
  <2>3. toServer'[c] = << >>
    BY <1>5, <1>6, <2>2, OneLeft DEF Says
  <2>4. Owed(n)'
    BY <1>0, <1>1, <1>3 DEF Owed, Acking
  <2>5. client'[c] = client[c] /\ toContestant'[c] = << >>
    BY <1>5, <2>2 DEF clients, Says
  <2>6. QED
    BY <2>2, <2>3, <2>4, <2>5 DEF Talking, Answering, Says
<1>7. QED
  BY <1>1, <1>2, <1>3, <1>4, <1>5, <1>6, SpokenStage

LEMMA CountingStage ==
  ASSUME Staged, Alive, NEW n \in Nicks, IncreaseScore(n) \/ LoadStat(n) \/ StoreStat(n),
         UNCHANGED clients
  PROVE  /\ \A c \in Conns : Stage(c)'
         /\ \A m \in Joined : Apart(m)
<1>0. Shape /\ task \in [Nicks -> {"none", "sending", "reading", "scoring", "loading", "storing", "done"}]
  BY DEF Staged, PlayTyped, Typed, TypeOK, TasksOK
<1>1. task[n] \in {"scoring", "loading", "storing"}
  BY DEF IncreaseScore, LoadStat, StoreStat
<1>2. n \in Joined /\ pc = "playing" /\ rest = Joined
  BY <1>0, <1>1 DEF Shape, Staged, Gathered
<1>3. /\ UNCHANGED <<wire, nego, req, contestants, told, pc, rest>>
      /\ \E place \in {"loading", "storing", "done"} : task' = [task EXCEPT ![n] = place]
  BY DEF IncreaseScore, LoadStat, StoreStat, session, joining, owner
<1>4. \A m \in Joined : Placed(m)
  BY <1>0, <1>1, <1>2, <1>3 DEF Placed, Idle, Reading, Owed, Acking, Leaving
<1>5. QED
  BY <1>3, <1>4, SilentStage

\* Whom the owner of the session speaks with, one after the other.
LEMMA OwnersTurn ==
  ASSUME Staged, pc \in {"telling", "acking", "closing", "closeack"}, rest # {}
  PROVE  First(rest) \in rest /\ First(rest) \in Joined /\ First(rest) \in Nicks
         /\ contestants[First(rest)] \in Conns
<1>1. rest \subseteq Joined /\ Joined \subseteq Nicks /\ contestants \in [Joined -> Conns]
  BY DEF Staged, PlayTyped, Typed, TypeOK, OwnerOK, SessionOK
<1>2. First(rest) \in rest
  BY <1>1, FirstIsMember, NicksAssumption
<1>3. QED
  BY <1>1, <1>2

LEMMA TellResultStage ==
  ASSUME Staged, Alive, TellResult, UNCHANGED clients
  PROVE  /\ \A c \in Conns : Stage(c)'
         /\ \A m \in Joined \ {First(rest)} : Apart(m)
<1>0. /\ WireOK /\ Shape /\ told \in [Nicks -> Seq(Verdicts)] /\ SessionOK /\ TasksOK
  BY DEF Staged, PlayTyped, Typed, TypeOK
<1>1. PICK n \in Joined : n = First(rest) /\ n \in rest /\ n \in Nicks
  BY OwnersTurn DEF TellResult
<1>2. PICK c \in Conns : c = contestants[n]
  BY <1>1, OwnersTurn DEF TellResult
<1>3. PICK r \in Verdicts : r = RoundResults(n) /\ Result(r) \in FromServer
  BY <1>0, <1>1, ResultsTyped DEF TellResult, Shape
<1>4. /\ Write(c, Result(r)) /\ UNCHANGED <<contestants, nego, req, task>>
      /\ told' = [told EXCEPT ![n] = Append(told[n], r)] /\ pc = "telling"
      /\ IF WriteResult(link[c]) = "Except"
           THEN rest' = rest \ {n} /\ pc' = pc ELSE rest' = rest /\ pc' = "acking"
  BY <1>1, <1>2, <1>3 DEF TellResult, session, joining, tasks
<1>5. \A m \in Joined \ {n} : told'[m] = told[m] /\ Placed(m)
  <2>1. \A m \in Joined \ {n} : told'[m] = told[m]
    BY <1>0, <1>1, <1>4 DEF SessionOK
  <2>2. CASE rest' = rest \ {n} /\ pc' = pc
    BY <1>1, <1>4, <2>1, <2>2 DEF Placed, Idle, Reading, Owed, Acking, Leaving
  <2>3. CASE rest' = rest /\ pc' = "acking"
    BY <1>1, <1>4, <2>1, <2>3 DEF Placed, Idle, Reading, Owed, Acking, Leaving
  <2>4. QED
    BY <1>4, <2>2, <2>3
<1>6. /\ \A d \in Conns \ {c} : /\ link'[d] = link[d] /\ toServer'[d] = toServer[d]
                                /\ toContestant'[d] = toContestant[d]
      /\ toServer' = toServer /\ (link'[c] = "open" => link[c] = "open")
      /\ link[c] = "open" => toContestant'[c] = Append(toContestant[c], Result(r))
  BY <1>0, <1>3, <1>4, WriteAppends
<1>7. ASSUME link[c] = "open" PROVE Talking(c, n)'
  <2>1. Talking(c, n) /\ Owed(n) /\ ~Idle(n) /\ ~Reading(n) /\ ~Acking(n) /\ ~Leaving(n)
    BY <1>1, <1>2, <1>4, <1>7, Partner DEF Staged, Gathered, Idle, Reading, Owed, Acking, Leaving
  <2>2. Says(c, "judging", << >>, << >>)
    BY <2>1 DEF Talking, Greeted, Waiting, Answering, Done
  <2>3. told'[n] # << >> /\ LastTold(n)' = r
    <3>1. told'[n] = Append(told[n], r) /\ told[n] \in Seq(Verdicts)
      BY <1>0, <1>1, <1>4
    <3>2. QED
      BY <3>1 DEF LastTold
  <2>4. Acking(n)'
    BY <1>1, <1>4, <1>7 DEF Acking, WriteResult
  <2>5. client'[c] = client[c] /\ toServer'[c] = << >> /\ toContestant'[c] = <<Result(r)>>
    BY <1>6, <1>7, <2>2, AppendsOne DEF clients, Says
  <2>6. QED
    BY <2>2, <2>3, <2>4, <2>5 DEF Talking, Answering, Says
<1>8. QED
  BY <1>1, <1>2, <1>4, <1>5, <1>6, <1>7, SpokenStage

LEMMA SayByeStage ==
  ASSUME Staged, Alive, SayBye, UNCHANGED clients
  PROVE  /\ \A c \in Conns : Stage(c)'
         /\ \A m \in Joined \ {First(rest)} : Apart(m)
<1>0. WireOK /\ Shape
  BY DEF Staged, PlayTyped, Typed, TypeOK
<1>1. PICK n \in Joined : n = First(rest) /\ n \in rest /\ n \in Nicks
  BY OwnersTurn DEF SayBye
<1>2. PICK c \in Conns : c = contestants[n]
  BY <1>1, OwnersTurn DEF SayBye
<1>3. /\ Write(c, Bye) /\ UNCHANGED <<contestants, nego, req, task, told>> /\ pc = "closing"
      /\ IF WriteResult(link[c]) = "Except"
           THEN rest' = rest \ {n} /\ pc' = pc ELSE rest' = rest /\ pc' = "closeack"
  BY <1>1, <1>2 DEF SayBye, session, joining, tasks
<1>4. \A m \in Joined : task[m] = "none"
  BY <1>0, <1>3 DEF Shape, Staged, PlayTyped, Typed, TypeOK, SessionOK
<1>5. \A m \in Joined \ {n} : told'[m] = told[m] /\ Placed(m)
  BY <1>1, <1>3, <1>4 DEF Placed, Idle, Reading, Owed, Acking, Leaving
<1>6. /\ \A d \in Conns \ {c} : /\ link'[d] = link[d] /\ toServer'[d] = toServer[d]
                                /\ toContestant'[d] = toContestant[d]
      /\ toServer' = toServer /\ (link'[c] = "open" => link[c] = "open")
      /\ link[c] = "open" => toContestant'[c] = Append(toContestant[c], Bye)
  BY <1>0, <1>3, WriteAppends DEF FromServer
<1>7. ASSUME link[c] = "open" PROVE Talking(c, n)'
  <2>1. Talking(c, n) /\ Idle(n) /\ ~Owed(n) /\ ~Reading(n) /\ ~Acking(n) /\ ~Leaving(n)
    BY <1>1, <1>2, <1>3, <1>4, <1>7, Partner DEF Idle, Reading, Owed, Acking, Leaving
  <2>2. Says(c, "greeting", << >>, <<Ok>>) \/ Says(c, "waiting", << >>, << >>)
    BY <2>1 DEF Talking, Greeted, Waiting, Answering, Done
  <2>3. Leaving(n)'
    BY <1>1, <1>3, <1>7 DEF Leaving, WriteResult
  <2>4. client'[c] = client[c] /\ toServer'[c] = toServer[c]
    BY <1>6 DEF clients
  <2>5. CASE Says(c, "greeting", << >>, <<Ok>>)
    <3>1. toContestant'[c] = <<Ok, Bye>>
      BY <1>6, <1>7, <2>5 DEF Says
    <3>2. QED
      BY <2>3, <2>4, <2>5, <3>1 DEF Talking, Greeted, Says
  <2>6. CASE Says(c, "waiting", << >>, << >>)
    <3>1. toContestant'[c] = <<Bye>>
      BY <1>6, <1>7, <2>6, AppendsOne DEF Says
    <3>2. QED
      BY <2>3, <2>4, <2>6, <3>1 DEF Talking, Waiting, Says
  <2>7. QED
    BY <2>2, <2>5, <2>6
<1>8. QED
  BY <1>1, <1>2, <1>3, <1>5, <1>6, <1>7, SpokenStage

LEMMA ReadResultAckStage ==
  ASSUME Staged, Alive, ReadResultAck, UNCHANGED clients
  PROVE  /\ \A c \in Conns : Stage(c)'
         /\ \A m \in Joined \ {First(rest)} : Apart(m)
<1>0. WireOK /\ Shape
  BY DEF Staged, PlayTyped, Typed, TypeOK
<1>1. PICK n \in Joined : n = First(rest) /\ n \in rest /\ n \in Nicks
  BY <1>0, OwnersTurn DEF ReadResultAck, Shape
<1>2. PICK c \in Conns : c = contestants[n]
  BY <1>0, <1>1, OwnersTurn DEF ReadResultAck, Shape
<1>3. /\ UNCHANGED <<contestants, nego, req, task, told>> /\ pc = "acking" /\ task[n] = "done"
      /\ \/ (ReadMessage(c) \/ ReadError(c)) /\ rest' = rest \ {n} /\ pc' = "telling"
         \/ ReadMalformed(c) /\ rest' = rest /\ pc' = "threw"
  BY <1>1, <1>2 DEF ReadResultAck, session, joining, tasks, Staged, Gathered
<1>4. \A m \in Joined \ {n} : told'[m] = told[m] /\ Placed(m)
  <2>1. CASE rest' = rest \ {n} /\ pc' = "telling"
    BY <1>1, <1>3, <2>1 DEF Placed, Idle, Reading, Owed, Acking, Leaving
  <2>2. CASE rest' = rest /\ pc' = "threw"
    BY <1>1, <1>3, <2>2 DEF Placed, Idle, Reading, Owed, Acking, Leaving
  <2>3. QED
    BY <1>3, <2>1, <2>2
<1>5. ReadData(c) \/ ReadEof(c) \/ ReadError(c)
  BY <1>3 DEF ReadMessage, ReadMalformed
<1>6. /\ \A d \in Conns \ {c} : /\ link'[d] = link[d] /\ toServer'[d] = toServer[d]
                                /\ toContestant'[d] = toContestant[d]
      /\ toContestant' = toContestant
      /\ link'[c] = "open" => link[c] = "open" /\ toServer'[c] \in LeftAfterRead(toServer[c])
                              /\ toServer[c] # << >>
  <2>1. CASE ReadData(c)
    BY <1>0, <2>1 DEF ReadData, HasData, WireOK
  <2>2. CASE ReadEof(c)
    BY <1>0, <2>2 DEF ReadEof, AtEof, wire
  <2>3. CASE ReadError(c)
    BY <1>0, <2>3 DEF ReadError, WireOK
  <2>4. QED
    BY <1>5, <2>1, <2>2, <2>3
<1>7. ASSUME link'[c] = "open" PROVE Talking(c, n)'
  <2>1. Talking(c, n) /\ Acking(n) /\ ~Idle(n) /\ ~Owed(n) /\ ~Reading(n) /\ ~Leaving(n)
    BY <1>1, <1>2, <1>3, <1>6, <1>7, Partner DEF Idle, Reading, Owed, Acking, Leaving
  <2>2. Says(c, "waiting", <<Ack>>, << >>)
    BY <1>6, <1>7, <2>1 DEF Talking, Greeted, Waiting, Answering, Done, Says
  <2>3. toServer'[c] = << >>
    BY <1>6, <1>7, <2>2, OneLeft DEF Says
  <2>4. ~ReadMalformed(c)
    <3>1. toServer[c] = <<Ack>> /\ Head(<<Ack>>) = Ack /\ Ack # Garbled
      BY <2>2, AppendsOne DEF Says, Ack, Garbled
    <3>2. QED
      BY <1>6, <1>7, <3>1 DEF ReadMalformed, ReadEof, AtEof
  <2>5. Idle(n)'
    BY <1>1, <1>3, <2>4 DEF Idle, Reading, Owed, Acking, Leaving
  <2>6. client'[c] = client[c] /\ toContestant'[c] = << >>
    BY <1>6, <2>2 DEF clients, Says
  <2>7. QED
    BY <2>2, <2>3, <2>5, <2>6 DEF Talking, Waiting, Says
<1>8. QED
  BY <1>1, <1>2, <1>3, <1>4, <1>6, <1>7, SpokenStage

LEMMA ReadByeAckStage ==
  ASSUME Staged, Alive, ReadByeAck, UNCHANGED clients
  PROVE  /\ \A c \in Conns : Stage(c)'
         /\ \A m \in Joined \ {First(rest)} : Apart(m)
<1>0. WireOK /\ Shape
  BY DEF Staged, PlayTyped, Typed, TypeOK
<1>1. PICK n \in Joined : n = First(rest) /\ n \in rest /\ n \in Nicks
  BY <1>0, OwnersTurn DEF ReadByeAck, Shape
<1>2. PICK c \in Conns : c = contestants[n]
  BY <1>0, <1>1, OwnersTurn DEF ReadByeAck, Shape
<1>3. /\ UNCHANGED <<contestants, nego, req, task, told>> /\ pc = "closeack"
      /\ \/ rest' = rest \ {n} /\ pc' = "closing"
         \/ rest' = rest /\ pc' = "threw"
  BY <1>1 DEF ReadByeAck, session, joining, tasks
<1>4. \A m \in Joined : task[m] = "none"
  BY <1>0, <1>3 DEF Shape, Staged, PlayTyped, Typed, TypeOK, SessionOK
<1>5. \A m \in Joined \ {n} : told'[m] = told[m] /\ Placed(m)
  BY <1>1, <1>3, <1>4 DEF Placed, Idle, Reading, Owed, Acking, Leaving
<1>6. /\ \A d \in Conns \ {c} : /\ link'[d] = link[d] /\ toServer'[d] = toServer[d]
                                /\ toContestant'[d] = toContestant[d]
      /\ toContestant' = toContestant
      /\ link'[c] = "open" => link[c] = "open" /\ toServer[c] # << >> /\ Head(toServer[c]) # Ack
  <2>1. CASE /\ HasData(toServer[c]) /\ UNCHANGED <<toContestant, greeted>>
             /\ \E s \in LeftAfterRead(toServer[c]) : toServer' = [toServer EXCEPT ![c] = s]
             /\ link' = [link EXCEPT ![c] = "closed"]
    BY <1>0, <2>1 DEF WireOK
  <2>2. CASE ReadData(c) /\ Head(toServer[c]) # Ack
    BY <1>0, <2>2 DEF ReadData, HasData, WireOK
  <2>3. CASE ReadEof(c)
    BY <1>0, <2>3 DEF ReadEof, AtEof, wire
  <2>4. CASE ReadError(c)
    BY <1>0, <2>4 DEF ReadError, WireOK
  <2>5. Garbled # Ack
    BY DEF Garbled, Ack
  <2>6. QED
    BY <1>1, <1>2, <2>1, <2>2, <2>3, <2>4, <2>5 DEF ReadByeAck, ReadMalformed
<1>7. link'[c] # "open"
  <2>1. SUFFICES ASSUME link'[c] = "open" PROVE FALSE
    OBVIOUS
  <2>2. Talking(c, n) /\ Leaving(n) /\ ~Idle(n) /\ ~Owed(n) /\ ~Reading(n) /\ ~Acking(n)
    BY <1>1, <1>2, <1>3, <1>4, <1>6, <2>1, Partner DEF Idle, Reading, Owed, Acking, Leaving
  <2>3. Says(c, "done", <<Ack>>, << >>)
    BY <1>6, <2>1, <2>2 DEF Talking, Greeted, Waiting, Answering, Done, Says
  <2>4. QED
    BY <1>6, <2>1, <2>3, AppendsOne DEF Says
<1>8. QED
  BY <1>1, <1>2, <1>3, <1>5, <1>6, <1>7, SpokenStage

\* A negotiation concerns one connection, and no contestant that is let in already.
LEMMA NegotiatedStage ==
  ASSUME Staged, Alive, NEW c \in Conns, UNCHANGED <<task, pc, rest, told, clients>>,
         \A d \in Conns \ {c} : /\ link'[d] = link[d] /\ toServer'[d] = toServer[d]
                                /\ toContestant'[d] = toContestant[d] /\ nego'[d] = nego[d]
                                /\ req'[d] = req[d],
         \A n \in Joined : n \in Joined' /\ contestants'[n] = contestants[n],
         nego[c] \notin {"none", "done"}, nego'[c] # "none",
         link'[c] = "open" =>
           \/ nego'[c] # "done" /\ Entering(c)'
           \/ nego'[c] = "done" /\ \E n \in Joined' : name[c] = n /\ contestants'[n] = c /\ Talking(c, n)'
  PROVE  /\ \A d \in Conns : Stage(d)'
         /\ \A m \in Joined : Apart(m)
<1>1. ASSUME NEW d \in Conns \ {c} PROVE Stage(d)'
  BY SamePlace, OtherStage DEF Staged, clients
<1>2. Stage(c)'
  <2>1. Stage(c) /\ (Mine(c) => Mine(c)')
    BY DEF Staged, Mine, clients
  <2>2. client'[c] = client[c] /\ name'[c] = name[c]
    BY DEF clients
  <2>3. QED
    BY <2>1, <2>2 DEF Stage
<1>3. ASSUME NEW m \in Joined PROVE Apart(m)
  <2>1. PICK d \in Conns : d = contestants[m]
    BY DEF Staged, PlayTyped, Typed, TypeOK, SessionOK
  <2>2. d # c
    BY <2>1, Partner
  <2>3. QED
    BY <2>1, <2>2, SamePlace DEF Apart, clients
<1>4. QED
  BY <1>1, <1>2, <1>3

LEMMA ReadHelloStage ==
  ASSUME Staged, Alive, NEW c \in Conns, ReadHello(c), UNCHANGED clients
  PROVE  /\ \A d \in Conns : Stage(d)'
         /\ \A m \in Joined : Apart(m)
<1>0. WireOK /\ JoiningOK
  BY DEF Staged, PlayTyped, Typed, TypeOK
<1>1. /\ nego[c] = "reading" /\ nego' = [nego EXCEPT ![c] = "replying"]
      /\ req' = [req EXCEPT ![c] = Head(toServer[c])]
      /\ UNCHANGED <<task, pc, rest, told, contestants, link, toContestant>>
      /\ toServer[c] # << >>
  BY DEF ReadHello, ReadData, HasData, session, owner, tasks
<1>2. PICK s \in LeftAfterRead(toServer[c]) : toServer' = [toServer EXCEPT ![c] = s]
  BY DEF ReadHello, ReadData
<1>3. ASSUME link[c] = "open" PROVE Entering(c)'
  <2>1. Entering(c)
    BY <1>1, <1>3 DEF Staged, Stage
  <2>2. Says(c, "greeting", <<Hello("contestant", name[c])>>, << >>)
    BY <1>1, <2>1 DEF Entering, Says, Alive
  <2>3. toServer'[c] = << >> /\ req'[c] = Hello("contestant", name[c])
    BY <1>0, <1>1, <1>2, <2>2, OneLeft, AppendsOne DEF Says, WireOK, JoiningOK
  <2>4. client'[c] = client[c] /\ name'[c] = name[c] /\ toContestant'[c] = << >> /\ nego'[c] = "replying"
    BY <1>0, <1>1, <2>2 DEF clients, Says, JoiningOK
  <2>5. QED
    BY <2>2, <2>3, <2>4 DEF Entering, Says
<1>4. nego'[c] = "replying"
  BY <1>0, <1>1 DEF JoiningOK
<1>5. \A d \in Conns \ {c} : /\ link'[d] = link[d] /\ toServer'[d] = toServer[d]
                             /\ toContestant'[d] = toContestant[d] /\ nego'[d] = nego[d]
                             /\ req'[d] = req[d]
  BY <1>0, <1>1, <1>2 DEF WireOK, JoiningOK
<1>6. QED
  BY <1>1, <1>3, <1>4, <1>5, NegotiatedStage DEF Joined

LEMMA AcceptStage ==
  ASSUME Staged, Alive, NEW c \in Conns, Accept(c), UNCHANGED clients
  PROVE  /\ \A d \in Conns : Stage(d)'
         /\ \A m \in Joined : Apart(m)
<1>0. JoiningOK
  BY DEF Staged, PlayTyped, Typed, TypeOK
<1>1. /\ nego[c] = "queued" /\ nego' = [nego EXCEPT ![c] = "reading"]
      /\ UNCHANGED <<task, pc, rest, told, contestants, link, toContestant, toServer, req>>
  BY DEF Accept, session, owner, tasks, wire
<1>2. nego'[c] = "reading" /\ \A d \in Conns \ {c} : nego'[d] = nego[d]
  BY <1>0, <1>1 DEF JoiningOK
<1>3. link[c] = "open" => Entering(c)'
  <2>1. link[c] = "open" => Entering(c)
    BY <1>1 DEF Staged, Stage
  <2>2. QED
    BY <1>1, <1>2, <2>1 DEF Entering, Says, clients, Alive
<1>4. QED
  BY <1>1, <1>2, <1>3, NegotiatedStage DEF Joined

LEMMA HungUpStage ==
  ASSUME Staged, Alive, NEW c \in Conns, HangUp(c), nego[c] \notin {"none", "done"}, UNCHANGED clients,
         UNCHANGED <<task, pc, rest, told, contestants, req>>
  PROVE  /\ \A d \in Conns : Stage(d)'
         /\ \A m \in Joined : Apart(m)
<1>0. WireOK /\ JoiningOK
  BY DEF Staged, PlayTyped, Typed, TypeOK
<1>1. nego'[c] = "done" /\ link'[c] = "closed"
      /\ \A d \in Conns \ {c} : nego'[d] = nego[d] /\ link'[d] = link[d]
  BY <1>0 DEF HangUp, WireOK, JoiningOK
<1>2. UNCHANGED <<toServer, toContestant>>
  BY DEF HangUp
<1>3. QED
  BY <1>1, <1>2, NegotiatedStage DEF Joined

LEMMA RefuseHelloStage ==
  ASSUME Staged, Alive, NEW c \in Conns, RefuseHello(c), UNCHANGED clients
  PROVE  /\ \A d \in Conns : Stage(d)'
         /\ \A m \in Joined : Apart(m)
<1>0. WireOK /\ JoiningOK
  BY DEF Staged, PlayTyped, Typed, TypeOK
<1>1. /\ nego[c] = "replying" /\ UNCHANGED <<task, pc, rest, told, contestants, req>>
      /\ Acceptable(req[c]) => req[c].nick \in Joined
  BY DEF RefuseHello, session, owner, tasks
<1>2. CASE HangUp(c)
  BY <1>1, <1>2, HungUpStage
<1>3. CASE Write(c, Refusal(req[c])) /\ nego' = [nego EXCEPT ![c] = "reading"]
  <2>1. /\ UNCHANGED toServer
        /\ \A d \in Conns \ {c} : link'[d] = link[d] /\ toContestant'[d] = toContestant[d]
        /\ link'[c] = "open" => link[c] = "open"
        /\ link[c] = "open" => toContestant'[c] = Append(toContestant[c], Refusal(req[c]))
    BY <1>0, <1>3, RefusalTyped, WriteAppends
  <2>2. nego'[c] = "reading" /\ \A d \in Conns \ {c} : nego'[d] = nego[d]
    BY <1>0, <1>3 DEF JoiningOK
  <2>3. ASSUME link[c] = "open" PROVE Entering(c)'
    <3>1. Entering(c)
      BY <1>1, <2>3 DEF Staged, Stage
    <3>2. Says(c, "greeting", << >>, << >>) /\ req[c] = Hello("contestant", name[c])
      BY <1>1, <3>1 DEF Entering, Alive
    <3>3. PICK e \in {"NCKDUP", "EMPTYN"} : Refusal(req[c]) = Error(e)
      <4>1. name[c] \in Nicks \cup {NoNick}
        BY DEF Staged, PlayTyped, ClientsOK
      <4>2. req[c] \in Hellos /\ req[c].client = "contestant" /\ req[c] # Garbled
            /\ req[c].nick = name[c]
        BY <3>2, <4>1 DEF Hellos, Hello, Garbled
      <4>3. QED
        BY <4>2 DEF Refusal
    <3>4. toContestant'[c] = <<Error(e)>>
      BY <2>1, <2>3, <3>2, <3>3, AppendsOne DEF Says
    <3>5. QED
      BY <2>1, <2>2, <3>2, <3>4 DEF Entering, Says, clients
  <2>4. QED
    BY <1>1, <2>1, <2>2, <2>3, NegotiatedStage DEF Joined
<1>4. QED
  BY <1>2, <1>3 DEF RefuseHello

LEMMA AdmitContestantStage ==
  ASSUME Staged, Alive, NEW c \in Conns, AdmitContestant(c), UNCHANGED clients
  PROVE  /\ \A d \in Conns : Stage(d)'
         /\ \A m \in Joined : Apart(m)
<1>0. /\ WireOK /\ JoiningOK /\ Shape /\ Registered /\ Joined \subseteq Nicks
      /\ task \in [Nicks -> {"none", "sending", "reading", "scoring", "loading", "storing", "done"}]
  BY DEF Staged, PlayTyped, Typed, TypeOK, SessionOK, TasksOK
<1>1. /\ nego[c] = "replying" /\ UNCHANGED <<task, pc, rest, told, req>>
      /\ Acceptable(req[c]) /\ req[c].nick \notin Joined
  BY DEF AdmitContestant, owner, tasks
<1>2. CASE HangUp(c) /\ UNCHANGED contestants
  BY <1>1, <1>2, HungUpStage
<1>3. CASE /\ Write(c, Ok)
           /\ IF WriteReturns(link[c])
                THEN /\ contestants' = [n \in Joined \cup {req[c].nick} |->
                                          IF n = req[c].nick THEN c ELSE contestants[n]]
                     /\ nego' = [nego EXCEPT ![c] = "done"]
                ELSE UNCHANGED <<contestants, nego>>
  <2>1. /\ UNCHANGED toServer
        /\ \A d \in Conns \ {c} : link'[d] = link[d] /\ toContestant'[d] = toContestant[d]
        /\ link'[c] = "open" => link[c] = "open"
        /\ link[c] = "open" => toContestant'[c] = Append(toContestant[c], Ok)
    BY <1>0, <1>3, WriteAppends DEF FromServer
  <2>2. nego'[c] # "none" /\ \A d \in Conns \ {c} : nego'[d] = nego[d]
    BY <1>0, <1>1, <1>3 DEF JoiningOK
  <2>3. \A n \in Joined : n \in Joined' /\ contestants'[n] = contestants[n]
    BY <1>1, <1>3 DEF Joined
  <2>4. ASSUME link[c] = "open"
        PROVE  nego'[c] = "done" /\ \E n \in Joined' : name[c] = n /\ contestants'[n] = c /\ Talking(c, n)'
    <3>1. Entering(c)
      BY <1>1, <2>4 DEF Staged, Stage
    <3>2. Says(c, "greeting", << >>, << >>) /\ req[c] = Hello("contestant", name[c])
      BY <1>1, <3>1 DEF Entering, Alive
    <3>3. PICK n \in Nicks : n = name[c] /\ n = req[c].nick /\ n \notin Joined
      <4>1. req[c].nick = name[c] /\ req[c].nick # NoNick
        BY <1>1, <3>2 DEF Acceptable, Hello
      <4>2. QED
        BY <1>1, <4>1 DEF Staged, PlayTyped, ClientsOK
    <3>4. contestants'[n] = c /\ n \in Joined' /\ nego'[c] = "done"
      BY <1>0, <1>3, <2>4, <3>3 DEF WriteReturns, WriteResult, Joined, JoiningOK
    <3>5. Idle(n)'
      <4>1. task[n] = "none" /\ state = "STARTING"
        BY <1>0, <1>1, <3>3 DEF Shape, Registered
      <4>2. pc \notin {"acking", "closeack"}
        BY <1>0, <4>1 DEF Shape
      <4>3. QED
        BY <1>1, <4>1, <4>2 DEF Idle, Reading, Owed, Acking, Leaving
    <3>6. toContestant'[c] = <<Ok>> /\ toServer'[c] = << >> /\ client'[c] = "greeting"
      BY <2>1, <2>4, <3>2, AppendsOne DEF Says, clients
    <3>7. Talking(c, n)'
      BY <3>5, <3>6 DEF Talking, Greeted, Says
    <3>8. QED
      BY <3>3, <3>4, <3>7
  <2>5. QED
    BY <1>1, <2>1, <2>2, <2>3, <2>4, NegotiatedStage
<1>4. QED
  BY <1>2, <1>3 DEF AdmitContestant

\* Whom a step of the server speaks with: nobody, or contestant n alone.
Speaks(n) ==
  \/ SendQuestion(n) \/ ReadAnswer(n)
  \/ /\ n = First(rest)
     /\ TellResult \/ ReadResultAck \/ SayBye \/ ReadByeAck

LEMMA ServerStage ==
  ASSUME Staged, ServerStep, UNCHANGED clients
  PROVE  /\ \A c \in Conns : Stage(c)'
         /\ \/ \A m \in Joined : Apart(m)
            \/ \E n \in Joined : Speaks(n) /\ \A m \in Joined \ {n} : Apart(m)
<1>0. Alive /\ Shape
  BY DEF ServerStep, Alive, Staged, PlayTyped, Typed
<1>1. CASE OwnerStep
  <2>1. CASE TellResult \/ ReadResultAck \/ SayBye \/ ReadByeAck
    <3>1. First(rest) \in Joined
      BY <1>0, <2>1, OwnersTurn DEF TellResult, ReadResultAck, SayBye, ReadByeAck, Shape
    <3>2. (\A c \in Conns : Stage(c)') /\ \A m \in Joined \ {First(rest)} : Apart(m)
      BY <1>0, <2>1, TellResultStage, ReadResultAckStage, SayByeStage, ReadByeAckStage
    <3>3. QED
      BY <2>1, <3>1, <3>2 DEF Speaks
  <2>2. QED
    BY <1>0, <1>1, <2>1, QuietOwnerStage DEF OwnerStep
<1>2. CASE WindowEnds
  BY <1>0, <1>2, WindowEndsStage
<1>3. ASSUME NEW c \in Conns, NegotiationStep(c)
      PROVE  (\A d \in Conns : Stage(d)') /\ \A m \in Joined : Apart(m)
  <2>1. CASE HelloLost(c)
    BY <1>0, <2>1, HungUpStage DEF HelloLost, session, owner, tasks
  <2>2. QED
    BY <1>0, <1>3, <2>1, AcceptStage, ReadHelloStage, AdmitContestantStage, RefuseHelloStage
    DEF NegotiationStep
<1>4. ASSUME NEW n \in Nicks, SendQuestion(n) \/ ReadAnswer(n)
      PROVE  /\ \A c \in Conns : Stage(c)'
             /\ n \in Joined /\ Speaks(n) /\ \A m \in Joined \ {n} : Apart(m)
  <2>1. n \in Joined
    BY <1>0, <1>4 DEF SendQuestion, ReadAnswer, Shape
  <2>2. QED
    BY <1>0, <1>4, <2>1, SendQuestionStage, ReadAnswerStage DEF Speaks
<1>5. ASSUME NEW n \in Nicks, IncreaseScore(n) \/ LoadStat(n) \/ StoreStat(n)
      PROVE  (\A c \in Conns : Stage(c)') /\ \A m \in Joined : Apart(m)
  BY <1>0, <1>5, CountingStage
<1>6. QED
  BY <1>1, <1>2, <1>3, <1>4, <1>5 DEF ServerStep, TaskStep

-----------------------------------------------------------------------------
(* The client's side. *)

\* A client that is at "place" now, of which nothing else has to be shown.
LEMMA ClientStage ==
  ASSUME Staged, NEW c \in Conns, ClientStep(c), nego' = nego, nego[c] # "none",
         client'[c] \notin {"start", "confused"}, name'[c] = name[c] \/ client'[c] = "greeting",
         client'[c] \in {"waiting", "choosing", "judging", "done"} => Mine(c),
         link'[c] = "open" =>
           \/ nego[c] # "done" /\ Entering(c)'
           \/ nego[c] = "done" /\ \E n \in Joined : name'[c] = n /\ contestants[n] = c /\ Talking(c, n)'
  PROVE  Stage(c)'
<1>1. UNCHANGED contestants
  BY ClientApart DEF Staged, session
<1>2. QED
  BY <1>1 DEF Stage, Mine, Joined

\* What it reads it does as a client that is not let in, or as a contestant.
LEMMA Reader ==
  ASSUME Staged, NEW c \in Conns, Takes(c)
  PROVE  /\ nego' = nego /\ nego[c] # "none" /\ link[c] = "open" /\ link'[c] = "open"
         /\ toContestant[c] # << >>
         /\ toContestant'[c] \in LeftAfterRead(toContestant[c])
         /\ UNCHANGED <<task, pc, rest, told, process, req>>
         /\ \/ nego[c] # "done" /\ Entering(c)
            \/ nego[c] = "done" /\ \E n \in Joined : name[c] = n /\ contestants[n] = c /\ Talking(c, n)
<1>1. WireOK /\ Stage(c)
  BY DEF Staged, PlayTyped, Typed, TypeOK
<1>2. QED
  BY <1>1, TakesApart DEF Stage, joining, tasks, owner, session

LEMMA TakesOne ==
  ASSUME Staged, NEW c \in Conns, Takes(c), NEW a, toContestant[c] = <<a>>
  PROVE  Head(toContestant[c]) = a /\ toContestant'[c] = << >>
<1>1. toContestant'[c] \in LeftAfterRead(<<a>>)
  BY Reader
<1>2. LeftAfterRead(<<a>>) = {<< >>}
  BY OneLeft
<1>3. QED
  BY <1>1, <1>2

LEMMA TakesTwo ==
  ASSUME Staged, NEW c \in Conns, Takes(c), NEW a, NEW b, toContestant[c] = <<a, b>>
  PROVE  Head(toContestant[c]) = a /\ toContestant'[c] \in {<< >>, <<b>>}
<1>1. toContestant'[c] \in LeftAfterRead(<<a, b>>)
  BY Reader
<1>2. LeftAfterRead(<<a, b>>) = {<< >>, <<b>>}
  BY TwoLeft
<1>3. Head(<<a, b>>) = a
  OBVIOUS
<1>4. QED
  BY <1>1, <1>2, <1>3

LEMMA ConnectsStage ==
  ASSUME Staged, NEW c \in Conns, Connects(c)
  PROVE  Stage(c)'
<1>0. WireOK /\ JoiningOK /\ ClientsOK /\ Stage(c)
  BY DEF Staged, PlayTyped, Typed, TypeOK
<1>1. CASE ContestantConnects(c) /\ Goes(c, "naming")
  BY <1>0, <1>1 DEF ContestantConnects, Goes, Connects, Stage, Silent, Entering, Says, WireOK,
     JoiningOK, ClientsOK
<1>2. CASE Goes(c, "refused") /\ Unserved
  BY <1>0, <1>2 DEF Goes, Unserved, Connects, Stage, Silent, wire, joining, ClientsOK
<1>3. QED
  BY <1>1, <1>2 DEF Connects

LEMMA SendsNameStage ==
  ASSUME Staged, NEW c \in Conns, SendsName(c), ClientStep(c)
  PROVE  Stage(c)'
<1>0. WireOK /\ JoiningOK /\ ClientsOK /\ Stage(c)
  BY DEF Staged, PlayTyped, Typed, TypeOK
<1>1. PICK n \in Nicks \cup {NoNick} : /\ name' = [name EXCEPT ![c] = n]
                                       /\ toServer' = Sent(c, Hello("contestant", n))
  BY <1>0 DEF SendsName, ClientsOK
<1>2. /\ client[c] = "naming" /\ client' = [client EXCEPT ![c] = "greeting"]
      /\ UNCHANGED <<nego, req, link, toContestant, process, contestants>>
  BY DEF SendsName, Goes, joining, session
<1>3. client'[c] = "greeting" /\ name'[c] = n
  BY <1>0, <1>1, <1>2 DEF ClientsOK
<1>4. CASE link[c] # "open"
  BY <1>0, <1>1, <1>2, <1>3, <1>4 DEF Sent, ServerGone, Stage, Silent
<1>5. CASE link[c] = "open"
  <2>1. Says(c, "naming", << >>, << >>) /\ nego[c] \in {"queued", "reading"}
    BY <1>0, <1>2, <1>5 DEF Stage, Entering, Talking, Greeted, Waiting, Answering, Done, Says
  <2>2. Hello("contestant", n) \in FromContestant
    BY DEF FromContestant, Hellos
  <2>3. CASE Alive
    <3>1. toServer'[c] = <<Hello("contestant", name'[c])>>
      BY <1>0, <1>1, <1>3, <1>5, <2>1, <2>2, <2>3, SentTyped, AppendsOne DEF Says, Alive
    <3>2. Entering(c)'
      BY <1>2, <1>3, <2>1, <3>1 DEF Entering, Says
    <3>3. QED
      BY <1>2, <1>3, <2>1, <3>2, ClientStage
  <2>4. CASE ~Alive
    <3>1. toServer'[c] = << >>
      BY <1>0, <1>1, <2>1, <2>2, <2>4, SentTyped DEF Says, Alive
    <3>2. Entering(c)'
      BY <1>2, <1>3, <2>1, <2>4, <3>1 DEF Entering, Says, Alive
    <3>3. QED
      BY <1>2, <1>3, <2>1, <3>2, ClientStage
  <2>5. QED
    BY <2>3, <2>4
<1>6. QED
  BY <1>4, <1>5

LEMMA ReadsHandshakeStage ==
  ASSUME Staged, NEW c \in Conns, ReadsHandshake(c), ClientStep(c)
  PROVE  Stage(c)'
<1>0. PICK m : m = Head(toContestant[c])
  OBVIOUS
<1>1. /\ client[c] = "greeting" /\ Takes(c) /\ UNCHANGED <<toServer, name>>
      /\ client'[c] = IF m = Ok THEN "waiting" ELSE IF TriesAnotherName(m) THEN "naming" ELSE "confused"
  BY <1>0 DEF ReadsHandshake, Goes, Staged, PlayTyped, ClientsOK
<1>2. CASE nego[c] # "done" /\ Entering(c)
  <2>1. PICK e \in {"NCKDUP", "EMPTYN"} : Says(c, "greeting", << >>, <<Error(e)>>) /\ nego[c] = "reading"
    BY <1>1, <1>2, Reader DEF Entering, Says
  <2>2. m = Error(e) /\ toContestant'[c] = << >>
    BY <1>0, <1>1, <2>1, TakesOne DEF Says
  <2>3. client'[c] = "naming"
    BY <1>1, <2>2, Kinds DEF TriesAnotherName
  <2>4. Entering(c)'
    BY <1>1, <2>1, <2>2, <2>3, Reader DEF Entering, Says
  <2>5. QED
    BY <1>1, <1>2, <2>3, <2>4, Reader, ClientStage
<1>3. ASSUME nego[c] = "done", NEW n \in Joined, name[c] = n, contestants[n] = c, Talking(c, n)
      PROVE  Stage(c)'
  <2>1. Greeted(c, n) /\ Placed(n)
    BY <1>1, <1>3, Reader, SamePlace DEF Talking, Waiting, Answering, Done, Says
  <2>2. ASSUME m = Ok, Waiting(c, n)' PROVE Stage(c)'
    <3>1. client'[c] = "waiting" /\ Mine(c) /\ name'[c] = n
      BY <1>1, <1>3, <2>2 DEF Mine
    <3>2. QED
      BY <1>1, <1>3, <2>2, <3>1, Reader, ClientStage DEF Talking
  <2>3. CASE Says(c, "greeting", << >>, <<Ok>>) /\ (Alive => Idle(n))
    <3>1. m = Ok /\ toContestant'[c] = << >>
      BY <1>0, <1>1, <2>3, TakesOne DEF Says
    <3>2. Waiting(c, n)'
      BY <1>1, <2>1, <2>3, <3>1, Reader DEF Waiting, Says, Placed, Alive
    <3>3. QED
      BY <2>2, <3>1, <3>2
  <2>4. ASSUME NEW q \in Questions, Says(c, "greeting", << >>, <<Ok, Question(q)>>), Alive => Reading(n)
        PROVE  Stage(c)'
    <3>1. m = Ok /\ toContestant'[c] \in {<< >>, <<Question(q)>>}
      BY <1>0, <1>1, <2>4, TakesTwo DEF Says
    <3>2. Waiting(c, n)'
      BY <1>1, <2>1, <2>4, <3>1, Reader DEF Waiting, Says, Placed, Alive
    <3>3. QED
      BY <2>2, <3>1, <3>2
  <2>5. CASE Says(c, "greeting", << >>, <<Ok, Bye>>) /\ (Alive => Leaving(n))
    <3>1. m = Ok /\ toContestant'[c] \in {<< >>, <<Bye>>}
      BY <1>0, <1>1, <2>5, TakesTwo DEF Says
    <3>2. Waiting(c, n)'
      BY <1>1, <2>1, <2>5, <3>1, Reader DEF Waiting, Says, Placed, Alive
    <3>3. QED
      BY <2>2, <3>1, <3>2
  <2>6. QED
    BY <2>1, <2>3, <2>4, <2>5 DEF Greeted
<1>4. QED
  BY <1>1, <1>2, <1>3, Reader

LEMMA ReadsQuestionStage ==
  ASSUME Staged, NEW c \in Conns, ReadsQuestion(c), ClientStep(c)
  PROVE  Stage(c)'
<1>0. PICK m : m = Head(toContestant[c])
  OBVIOUS
<1>1. /\ client[c] = "waiting" /\ Takes(c) /\ UNCHANGED <<toServer, name>> /\ m # Bye
      /\ client'[c] = IF IsQuestion(m) THEN "choosing" ELSE "confused"
  BY <1>0 DEF ReadsQuestion, Goes, Staged, PlayTyped, ClientsOK
<1>2. PICK n \in Joined : /\ nego[c] = "done" /\ name[c] = n /\ contestants[n] = c /\ Talking(c, n)
  BY <1>1, Reader DEF Entering, Says
<1>3. PICK q \in Questions : Says(c, "waiting", << >>, <<Question(q)>>) /\ (Alive => Reading(n))
  BY <1>0, <1>1, <1>2, Reader, AppendsOne DEF Talking, Greeted, Waiting, Answering, Done, Says
<1>4. m = Question(q) /\ toContestant'[c] = << >> /\ Placed(n)
  BY <1>0, <1>1, <1>3, TakesOne, Reader, SamePlace DEF Says
<1>5. client'[c] = "choosing" /\ Mine(c)
  BY <1>1, <1>2, <1>4, Kinds DEF Mine
<1>6. Answering(c, n)'
  BY <1>1, <1>3, <1>4, <1>5, Reader DEF Answering, Says, Placed, Alive
<1>7. QED
  BY <1>1, <1>2, <1>5, <1>6, Reader, ClientStage DEF Talking

LEMMA ReadsByeStage ==
  ASSUME Staged, NEW c \in Conns, ReadsBye(c), ClientStep(c)
  PROVE  Stage(c)'
<1>1. /\ client[c] = "waiting" /\ Takes(c) /\ UNCHANGED name /\ Head(toContestant[c]) = Bye
      /\ client'[c] = "done" /\ toServer' = Sent(c, Ack)
  BY DEF ReadsBye, Goes, Staged, PlayTyped, ClientsOK
<1>2. PICK n \in Joined : /\ nego[c] = "done" /\ name[c] = n /\ contestants[n] = c /\ Talking(c, n)
  BY <1>1, Reader DEF Entering, Says
<1>3. Says(c, "waiting", << >>, <<Bye>>) /\ (Alive => Leaving(n))
  BY <1>1, <1>2, Reader, AppendsOne, Kinds DEF Talking, Greeted, Waiting, Answering, Done, Says
<1>4. toContestant'[c] = << >> /\ Placed(n)
  BY <1>1, <1>3, TakesOne, Reader, SamePlace DEF Says
<1>5. (Alive => toServer'[c] = <<Ack>>) /\ Ack \in FromContestant
  <2>1. Ack \in FromContestant /\ WireOK
    BY DEF FromContestant, Staged, PlayTyped, Typed, TypeOK
  <2>2. QED
    BY <1>1, <1>3, <2>1, Reader, SentTyped, AppendsOne DEF Says, Alive
<1>6. Done(c, n)'
  BY <1>1, <1>3, <1>4, <1>5, Reader DEF Done, Says, Placed, Alive
<1>7. QED
  BY <1>1, <1>2, <1>6, Reader, ClientStage DEF Talking, Mine

LEMMA ReadsResultStage ==
  ASSUME Staged, NEW c \in Conns, ReadsResult(c), ClientStep(c)
  PROVE  Stage(c)'
<1>1. client[c] = "judging" /\ Takes(c) /\ UNCHANGED name
  BY DEF ReadsResult
<1>2. PICK n \in Joined : /\ nego[c] = "done" /\ name[c] = n /\ contestants[n] = c /\ Talking(c, n)
  BY <1>1, Reader DEF Entering, Says
<1>3. Says(c, "judging", << >>, <<Result(LastTold(n))>>) /\ (Alive => Acking(n))
  BY <1>1, <1>2, Reader DEF Talking, Greeted, Waiting, Answering, Done, Says
<1>4. toContestant'[c] = << >> /\ Placed(n) /\ Head(toContestant[c]) = Result(LastTold(n))
  BY <1>1, <1>3, TakesOne, Reader, SamePlace DEF Says
<1>5. client'[c] = "waiting" /\ toServer' = Sent(c, Ack)
  BY <1>4, Kinds DEF ReadsResult, Goes, Staged, PlayTyped, ClientsOK
<1>6. IF Alive THEN toServer'[c] = <<Ack>> ELSE toServer'[c] = << >>
  <2>1. Ack \in FromContestant /\ WireOK
    BY DEF FromContestant, Staged, PlayTyped, Typed, TypeOK
  <2>2. QED
    BY <1>1, <1>3, <1>5, <2>1, Reader, SentTyped, AppendsOne DEF Says, Alive
<1>7. Waiting(c, n)'
  BY <1>1, <1>3, <1>4, <1>5, <1>6, Reader DEF Waiting, Says, Placed, Alive
<1>8. QED
  BY <1>1, <1>2, <1>5, <1>7, Reader, ClientStage DEF Talking, Mine

LEMMA ChoosesStage ==
  ASSUME Staged, NEW c \in Conns, NEW a \in Choices \cup {"none"}, Chooses(c, a), ClientStep(c)
  PROVE  Stage(c)'
<1>0. WireOK /\ Stage(c) /\ Answer(a) \in FromContestant
  BY DEF Staged, PlayTyped, Typed, TypeOK, FromContestant, Answers
<1>1. /\ client[c] = "choosing" /\ client'[c] = "judging" /\ toServer' = Sent(c, Answer(a))
      /\ UNCHANGED <<name, nego, link, toContestant, process, task, pc, rest>>
  BY DEF Chooses, Goes, Staged, PlayTyped, ClientsOK, joining, tasks, owner
<1>2. Mine(c) /\ nego[c] = "done"
  BY <1>0, <1>1, Partner DEF Stage, Mine
<1>3. CASE link[c] # "open"
  BY <1>1, <1>2, <1>3, ClientStage
<1>4. CASE link[c] = "open"
  <2>1. PICK n \in Joined : name[c] = n /\ contestants[n] = c /\ Talking(c, n)
    BY <1>0, <1>2, <1>4 DEF Stage
  <2>2. Says(c, "choosing", << >>, << >>) /\ (Alive => Reading(n)) /\ Placed(n)
    BY <1>1, <2>1, SamePlace DEF Talking, Greeted, Waiting, Answering, Done, Says
  <2>3. IF Alive THEN toServer'[c] = <<Answer(a)>> ELSE toServer'[c] = << >>
    BY <1>0, <1>1, <1>4, <2>2, SentTyped, AppendsOne DEF Says, Alive
  <2>4. Answering(c, n)'
    BY <1>1, <2>2, <2>3 DEF Answering, Says, Placed, Alive
  <2>5. QED
    BY <1>1, <1>2, <2>1, <2>4, ClientStage DEF Talking
<1>5. QED
  BY <1>3, <1>4

LEMMA LosesServerStage ==
  ASSUME Staged, NEW c \in Conns, LosesServer(c), ClientStep(c)
  PROVE  Stage(c)'
<1>1. /\ client'[c] = "cut" /\ toContestant[c] = << >> /\ (link[c] = "open" => ~Alive)
      /\ UNCHANGED <<name, nego, link, toContestant, toServer, process, contestants>>
  BY DEF LosesServer, Goes, Unserved, ServerGone, Alive, Staged, PlayTyped, ClientsOK, joining, wire,
     session
<1>2. Stage(c)
  BY DEF Staged
<1>3. link[c] = "open" => Entering(c)' /\ \A n : Done(c, n)'
  BY <1>1 DEF Entering, Done, Alive
<1>4. QED
  BY <1>1, <1>2, <1>3 DEF Stage, Silent, Talking, Joined

LEMMA LeavesStage ==
  ASSUME Staged, NEW c \in Conns, Exits(c) \/ Interrupted(c), ClientStep(c)
  PROVE  Stage(c)'
<1>0. WireOK /\ Stage(c)
  BY DEF Staged, PlayTyped, Typed, TypeOK
<1>1. /\ Leaves(c) /\ UNCHANGED <<name, nego>> /\ link[c] = "open"
      /\ client'[c] \in {client[c], "cut"}
  BY DEF Exits, Interrupted, Leaves, Goes, Staged, PlayTyped, ClientsOK, joining
<1>2. link'[c] \in {"fin", "rst"}
  BY <1>0, <1>1 DEF Leaves, WireOK
<1>3. client[c] # "start" /\ nego[c] # "none"
  BY <1>0, <1>1 DEF Stage
<1>4. QED
  BY <1>0, <1>1, <1>2, <1>3, ClientStage DEF Stage

LEMMA ClientsStage ==
  ASSUME Staged, NEW c \in Conns, ClientStep(c)
  PROVE  \A d \in Conns : Stage(d)'
<1>1. Stage(c)'
  <2>1. CASE SendsChoice(c) \/ SendsInvalidChoice(c)
    BY <2>1, ChoosesStage DEF SendsChoice, SendsInvalidChoice
  <2>2. QED
    BY <2>1, ConnectsStage, SendsNameStage, ReadsHandshakeStage, ReadsQuestionStage, ReadsByeStage,
       ReadsResultStage, LosesServerStage, LeavesStage DEF ClientStep, Reads
<1>2. ASSUME NEW d \in Conns \ {c} PROVE Stage(d)'
  <2>1. UNCHANGED <<contestants, req, task, pc, rest, told, process>> /\ Elsewhere(d)
    BY ClientApart DEF Staged, session, owner, tasks
  <2>2. QED
    BY <2>1, SamePlace, OtherStage DEF Elsewhere, Staged, Joined, Alive
<1>3. QED
  BY <1>1, <1>2

-----------------------------------------------------------------------------
(* The invariant, and what it says of the clients. *)

LEMMA GatheredStep ==
  ASSUME PlayTyped, Registered, Gathered, ServerStep
  PROVE  Gathered'
<1>0. /\ Shape /\ Joined \subseteq Nicks
      /\ task \in [Nicks -> {"none", "sending", "reading", "scoring", "loading", "storing", "done"}]
  BY DEF PlayTyped, Typed, TypeOK, SessionOK, TasksOK
<1>1. CASE OwnerStep
  <2>1. CASE ReadResultAck \/ TellResult
    BY <2>1 DEF ReadResultAck, TellResult, Gathered, Joined, session, tasks
  <2>2. CASE SayBye \/ ReadByeAck \/ PlayRound \/ AllAnswered
    BY <2>2 DEF SayBye, ReadByeAck, PlayRound, AllAnswered, Gathered, Joined, session, tasks
  <2>3. QED
    BY <1>1, <2>1, <2>2 DEF OwnerStep, StartSession, AcceptTimedOut, AcceptFails, JoinThreads,
       RoundOver, TerminateSession, SessionOver, CallRefused, Gathered, Joined, session, tasks, owner
<1>2. CASE WindowEnds
  BY <1>2 DEF WindowEnds, Gathered, Joined, owner, tasks
<1>3. ASSUME NEW c \in Conns, NegotiationStep(c) PROVE Gathered'
  <2>1. state = "STARTING" \/ contestants' = contestants
    BY <1>3 DEF NegotiationStep, Accept, ReadHello, HelloLost, AdmitContestant, RefuseHello, Registered,
       session
  <2>2. UNCHANGED <<pc, rest, task>>
    BY <1>3 DEF NegotiationStep, Accept, ReadHello, HelloLost, AdmitContestant, RefuseHello, owner, tasks
  <2>3. QED
    BY <1>0, <2>1, <2>2 DEF Shape, Gathered, Joined
<1>4. ASSUME NEW n \in Nicks, TaskStep(n) PROVE Gathered'
  <2>1. UNCHANGED <<pc, rest, contestants>> /\ task[n] \notin {"none", "done"}
    BY <1>4 DEF TaskStep, SendQuestion, ReadAnswer, IncreaseScore, LoadStat, StoreStat, owner, session
  <2>2. pc = "playing"
    BY <1>0, <2>1 DEF Shape
  <2>3. QED
    BY <2>1, <2>2 DEF Gathered, Joined
<1>5. QED
  BY <1>1, <1>2, <1>3, <1>4 DEF ServerStep

LEMMA StagedStep == Staged /\ [PlayNext]_playVars => Staged'
<1> SUFFICES ASSUME Staged, [PlayNext]_playVars PROVE Staged'
  OBVIOUS
<1>1. PlayTyped'
  BY PlayTypedStep DEF Staged
<1>2. CASE ServerStep /\ UNCHANGED clients
  <2>1. Registered'
    BY <1>2, RegisteredStep DEF Staged, PlayTyped, Next
  <2>2. Gathered'
    BY <1>2, GatheredStep DEF Staged
  <2>3. QED
    BY <1>1, <1>2, <2>1, <2>2, ServerStage DEF Staged
<1>3. ASSUME NEW c \in Conns, ClientStep(c) PROVE Staged'
  <2>1. UNCHANGED <<contestants, state, task, pc, rest>> /\ (Connects(c) \/ nego' = nego)
    BY <1>3, ClientApart DEF Staged, session, owner, tasks
  <2>2. Registered'
    <3>1. CASE nego' = nego
      BY <2>1, <3>1 DEF Staged, Registered, OneReaderPerConnection, Joined
    <3>2. CASE ContestantConnects(c)
      BY <3>2, RegisteredStep DEF Staged, PlayTyped, Next, ContestantStep
    <3>3. QED
      BY <2>1, <3>1, <3>2 DEF Connects, Unserved, joining
  <2>3. QED
    BY <1>1, <1>3, <2>1, <2>2, ClientsStage DEF Staged, Gathered, Joined
<1>4. CASE UNCHANGED playVars
  <2>1. UNCHANGED <<vars, clients>> /\ UNCHANGED <<session, owner, joining, tasks, told, wire, process>>
    BY <1>4 DEF playVars, vars
  <2>2. Registered' /\ Gathered'
    BY <2>1 DEF Staged, Registered, OneReaderPerConnection, Joined, Gathered, session, owner, joining, tasks
  <2>3. \A c \in Conns : Stage(c)'
    <3>1. UNCHANGED <<contestants, nego, req, task, pc, rest, link, toServer, toContestant>>
      BY <2>1 DEF session, owner, joining, tasks, wire
    <3>2. QED
      BY <2>1, <3>1, SamePlace, OtherStage DEF Staged, clients, Joined, Alive
  <2>4. QED
    BY <1>1, <2>2, <2>3 DEF Staged
<1>5. QED
  BY <1>2, <1>3, <1>4 DEF PlayNext, AllOver, Finished, playVars

LEMMA InitStaged == PlayInit => Staged
<1> SUFFICES ASSUME PlayInit PROVE Staged
  OBVIOUS
<1>1. PlayTyped
  BY InitPlayTyped
<1>2. Registered /\ Gathered
  BY DEF PlayInit, Init, Registered, OneReaderPerConnection, Gathered, Joined
<1>3. \A c \in Conns : Stage(c)
  BY DEF PlayInit, Init, Stage, Silent
<1>4. QED
  BY <1>1, <1>2, <1>3 DEF Staged

LEMMA StagedInvariant == PlaySpec => []Staged
BY InitStaged, StagedStep, PTL DEF PlaySpec

\* However many messages one read takes, however the names collide and wherever the
\* session dies, a client is sent nothing that it cannot take where it is
\* (src/README.md:369; ContestantClient.cpp:45-82, 103-130 against
\* ContestSession.cpp:66-143 and 211-258).
THEOREM ClientsUnderstand == PlaySpec => []NeverConfused
<1>1. Staged => NeverConfused
  BY DEF Staged, Stage, NeverConfused
<1>2. QED
  BY <1>1, StagedInvariant, PTL

\* A client that was let in plays under the name it sent last, and no other client
\* does (ContestSession.cpp:236-256, ContestantClient.cpp:45-85).
THEOREM NamesAreOwned == PlaySpec => []NameIsMine
<1>1. Staged => NameIsMine
  BY DEF Staged, Stage, NameIsMine, Mine
<1>2. QED
  BY <1>1, StagedInvariant, PTL

LEMMA StagesInStep == Staged => InStep
<1> SUFFICES ASSUME Staged, NEW n \in Joined, NEW c \in Conns, c = contestants[n],
                    process = "running", link[c] = "open"
             PROVE  /\ client[c] = "choosing" => task[n] = "reading" /\ toServer[c] = << >>
                    /\ client[c] = "judging" => pc \in {"playing", "telling", "acking", "threw"}
                    /\ client[c] = "done" => pc \in {"closeack", "threw"}
                    /\ client[c] \in {"greeting", "naming"} =>
                         toContestant[c] # << >> /\ Head(toContestant[c]) = Ok
  BY DEF Staged, PlayTyped, Typed, TypeOK, SessionOK, InStep
<1>1. Talking(c, n) /\ Alive /\ Shape /\ n \in Nicks
  BY Partner DEF Staged, PlayTyped, Typed, TypeOK, SessionOK, Alive
<1>2. Reading(n) \/ Owed(n) \/ Acking(n) => pc \in {"playing", "telling", "acking", "threw"}
  BY <1>1 DEF Shape, Reading, Owed, Acking
<1>3. CASE Greeted(c, n)
  <2>1. \A a, b : Head(<<a, b>>) = a /\ <<a, b>> # << >>
    OBVIOUS
  <2>2. QED
    BY <1>3, <2>1, AppendsOne DEF Greeted, Says
<1>4. CASE Waiting(c, n)
  BY <1>4 DEF Waiting, Says
<1>5. CASE Answering(c, n)
  BY <1>1, <1>2, <1>5 DEF Answering, Says, Reading
<1>6. CASE Done(c, n)
  BY <1>1, <1>6 DEF Done, Says, Leaving
<1>7. QED
  BY <1>1, <1>3, <1>4, <1>5, <1>6 DEF Talking

\* A client chooses only while a task waits for its answer, waits for results only in
\* a round, and is done only while the session waits for its leave
\* (ContestSession.cpp:66-143 against ContestantClient.cpp:90-176).
THEOREM PlayedInStep == PlaySpec => []InStep
BY StagesInStep, StagedInvariant, PTL
=============================================================================
