--------------------------- MODULE ContestSession ---------------------------
(***************************************************************************)
(* One contest session of the quiz server (src/src/cserver/ContestSession):*)
(* the thread that calls run(), the timer thread that ends the joining     *)
(* window, one negotiation thread per accepted connection, one task per    *)
(* contestant and round, and the contestants' ends of the connections.     *)
(*                                                                         *)
(* A nickname is a number: std::map walks its keys in ascending order, and *)
(* NoNick is the empty string.  Questions are numbered in the order of the *)
(* keys of questions_set.                                                  *)
(***************************************************************************)
EXTENDS Integers, Sequences, FiniteSets, TcpSocket

CONSTANTS Conns,         \* the connections contestants may open
          Nicks,         \* the nicknames they may ask for
          NumQuestions,  \* how many questions the contest has
          Choices,       \* the letters an answer can be
          Solution,      \* the letter that answers each question
          Scripts,       \* the sequences of calls the owner may make
          Faults         \* what may go wrong, a subset of AllFaults

Questions == 1..NumQuestions
NoNick == 0
AllFaults == {"leave", "reset", "garble", "accept"}

Start     == [op |-> "start",     qId |-> 0]
Play(q)   == [op |-> "play",      qId |-> q]
Terminate == [op |-> "terminate", qId |-> 0]
\* Play(NumQuestions + 1) stands for any id the contest does not have.
Calls == {Start, Terminate} \cup { Play(q) : q \in 1..(NumQuestions + 1) }

\* The calls of run(): start, every question in the order of the map, end.
RunScript ==
  [i \in 1..(NumQuestions + 2) |->
     IF i = 1 THEN Start
     ELSE IF i = NumQuestions + 2 THEN Terminate ELSE Play(i - 1)]

ASSUME NicksAssumption     == Nicks \subseteq Nat \ {NoNick} /\ IsFiniteSet(Nicks)
ASSUME QuestionsAssumption == NumQuestions \in Nat
ASSUME SolutionAssumption  == Solution \in [Questions -> Choices]
ASSUME ScriptsAssumption   == \* no script plays a question twice
  /\ Scripts \subseteq Seq(Calls)
  /\ \A s \in Scripts : \A i, j \in DOMAIN s : s[i].op = "play" /\ s[i] = s[j] => i = j
ASSUME FaultsAssumption    == Faults \subseteq AllFaults
ASSUME ChoicesAssumption   == "none" \notin Choices

----------------------------------------------------------------------------
(* Messages.  An answer that is not one character long is "none"; Garbled  *)
(* is text that the constructor Message(str) rejects with a ProtoExcept.   *)

Hello(client, nick) == [type |-> "n", client |-> client, nick |-> nick]
Answer(a)           == [type |-> "u", answer |-> a]
Ack                 == [type |-> "o"]
Garbled             == [type |-> "garbled"]

Hellos  == { Hello("contestant", n) : n \in Nicks \cup {NoNick} }
             \cup { Hello("contestmeister", NoNick) }
Answers == { Answer(a) : a \in Choices \cup {"none"} }
FromContestant == Hellos \cup Answers \cup {Ack, Garbled}

Ok             == [type |-> "o"]
Error(e)       == [type |-> "e", error |-> e]
Question(q)    == [type |-> "u", question |-> q]
Result(r)      == [type |-> "u", result |-> r]
Bye            == [type |-> "t"]

Verdicts == [correct : BOOLEAN, right : Nat, total : Nat, score : Nat, max : Nat]
FromServer == {Ok, Bye} \cup { Error(e) : e \in {"MSGDSL", "FAILGT", "EMPTYN", "NCKDUP"} }
                \cup { Question(q) : q \in Questions } \cup [type : {"u"}, result : Verdicts]

----------------------------------------------------------------------------
VARIABLES
  \* the session object
  state, lsock, contestants, score, stats, max,
  \* the owner: the calls still to make, where it is, the question of the
  \* round, and the contestants its loop has not finished with
  todo, pc, qid, rest,
  timer,            \* the timeout thread
  nego, req,        \* the negotiation threads, and the message each one read
  task, won, reg,   \* the tasks of a round, their results, their load of stats
  told,             \* what each contestant was told, round after round
  link, toServer, toContestant, greeted,   \* the connections
  process           \* "running", "aborted" (std::terminate), "killed" (SIGPIPE)

session == <<state, lsock, contestants, score, stats, max>>
owner   == <<todo, pc, qid, rest>>
joining == <<timer, nego, req>>
tasks   == <<task, won, reg>>
wire    == <<link, toServer, toContestant, greeted>>
vars    == <<session, owner, joining, tasks, told, wire, process>>

Joined == DOMAIN contestants
First(S) == CHOOSE n \in S : \A m \in S : n <= m
Larger(a, b) == IF a >= b THEN a ELSE b

SessionOK ==
  /\ state \in {"READY", "STARTING", "RUNNING", "TERMINATED"}
  /\ lsock \in {"listening", "shutdown", "closed"}
  /\ Joined \subseteq Nicks /\ contestants \in [Joined -> Conns]
  /\ score \in [Nicks -> Nat] /\ stats \in [Questions -> Nat] /\ max \in Nat

OwnerOK ==
  /\ todo \in Seq(Calls)
  /\ pc \in {"idle", "accepting", "joining", "playing", "telling", "acking",
             "closing", "closeack", "threw"}
  /\ qid \in Questions \cup {0} /\ rest \subseteq Joined

JoiningOK ==
  /\ timer \in {"off", "sleeping", "ended"}
  /\ nego \in [Conns -> {"none", "queued", "reading", "replying", "done"}]
  /\ req \in [Conns -> FromContestant]

TasksOK ==
  /\ task \in [Nicks -> {"none", "sending", "reading", "scoring", "loading",
                         "storing", "done"}]
  /\ won \in [Nicks -> BOOLEAN] /\ reg \in [Nicks -> Nat]

WireOK ==
  /\ link \in [Conns -> LinkStates]
  /\ toServer \in [Conns -> Seq(FromContestant)]
  /\ toContestant \in [Conns -> Seq(FromServer)]
  /\ greeted \in [Conns -> BOOLEAN]

\* The type invariant: messages, records and maps of what the code declares.
TypeOK ==
  /\ SessionOK /\ OwnerOK /\ JoiningOK /\ TasksOK /\ WireOK
  /\ told \in [Nicks -> Seq(Verdicts)]
  /\ process \in {"running", "aborted", "killed"}

\* The constructor: bound, listening, every statistic zero.
Init ==
  /\ state = "READY" /\ lsock = "listening"
  /\ contestants = << >> /\ score = [n \in Nicks |-> 0]
  /\ stats = [q \in Questions |-> 0] /\ max = 0
  /\ todo \in Scripts /\ pc = "idle" /\ qid = 0 /\ rest = {}
  /\ timer = "off" /\ nego = [c \in Conns |-> "none"] /\ req = [c \in Conns |-> Ack]
  /\ task = [n \in Nicks |-> "none"] /\ won = [n \in Nicks |-> FALSE]
  /\ reg = [n \in Nicks |-> 0] /\ told = [n \in Nicks |-> << >>]
  /\ link = [c \in Conns |-> "idle"]
  /\ toServer = [c \in Conns |-> << >>] /\ toContestant = [c \in Conns |-> << >>]
  /\ greeted = [c \in Conns |-> FALSE]
  /\ process = "running"

----------------------------------------------------------------------------
(* What a thread of the server does to a connection.                       *)

\* Conn.write(m): what the caller sees is WriteResult(link[c]).
Write(c, m) ==
  /\ \E l \in LinkAfterWrite(link[c]) : link' = [link EXCEPT ![c] = l]
  /\ toContestant' = IF link[c] = "open"
                       THEN [toContestant EXCEPT ![c] = Append(@, m)] ELSE toContestant
  /\ process' = IF WriteResult(link[c]) = "SIGPIPE" THEN "killed" ELSE process
  /\ UNCHANGED <<toServer, greeted>>

\* Conn.read() returns a message, whose text is what Head(toServer[c]) says.
ReadData(c) ==
  /\ HasData(toServer[c])
  /\ \E s \in LeftAfterRead(toServer[c]) : toServer' = [toServer EXCEPT ![c] = s]
  /\ UNCHANGED <<link, toContestant, greeted>>

\* Conn.read() returns the empty string, which Message(str) rejects.
ReadEof(c) == AtEof(link[c], toServer[c]) /\ UNCHANGED wire

\* Conn.read() raises an Except.
ReadError(c) ==
  /\ ReadFails(link[c], toServer[c])
  /\ link' = [link EXCEPT ![c] = "dead"]
  /\ UNCHANGED <<toServer, toContestant, greeted>>

ReadMalformed(c) ==
  \/ ReadData(c) /\ Head(toServer[c]) = Garbled
  \/ ReadEof(c)

ReadMessage(c) == ReadData(c) /\ Head(toServer[c]) # Garbled

----------------------------------------------------------------------------
(* StartSession: the joining window.                                       *)

StartSession ==
  /\ pc = "idle" /\ todo # << >> /\ Head(todo) = Start /\ state = "READY"
  /\ state' = "STARTING" /\ timer' = "sleeping" /\ pc' = "accepting"
  /\ UNCHANGED <<lsock, contestants, score, stats, max, todo, qid, rest, nego, req,
                 tasks, told, wire, process>>

\* The timeout thread wakes up and shuts the listening socket down; the
\* connections nobody accepted yet are reset.
WindowEnds ==
  /\ timer = "sleeping"
  /\ timer' = "ended" /\ lsock' = "shutdown"
  /\ link' = [c \in Conns |-> IF nego[c] = "queued" THEN "rst" ELSE link[c]]
  /\ UNCHANGED <<state, contestants, score, stats, max, owner, nego, req, tasks, told,
                 toServer, toContestant, greeted, process>>

Accept(c) ==
  /\ pc = "accepting" /\ lsock = "listening" /\ nego[c] = "queued"
  /\ nego' = [nego EXCEPT ![c] = "reading"]
  /\ UNCHANGED <<session, owner, timer, req, tasks, told, wire, process>>

AcceptTimedOut ==
  /\ pc = "accepting" /\ lsock = "shutdown"
  /\ pc' = "joining"
  /\ UNCHANGED <<session, todo, qid, rest, joining, tasks, told, wire, process>>

\* Any other error is thrown past the joinable threads of the window.
AcceptFails ==
  /\ pc = "accepting" /\ lsock = "listening" /\ "accept" \in Faults
  /\ process' = "aborted"
  /\ UNCHANGED <<session, owner, joining, tasks, told, wire>>

\* The thread breaks out of its loop: the socket it owns is closed.
HangUp(c) ==
  /\ nego' = [nego EXCEPT ![c] = "done"]
  /\ link' = [link EXCEPT ![c] = "closed"]
  /\ UNCHANGED <<toServer, toContestant, greeted>>

ReadHello(c) ==
  /\ nego[c] = "reading" /\ ReadData(c)
  /\ req' = [req EXCEPT ![c] = Head(toServer[c])]
  /\ nego' = [nego EXCEPT ![c] = "replying"]
  /\ UNCHANGED <<session, owner, timer, tasks, told, process>>

HelloLost(c) ==
  /\ nego[c] = "reading"
  /\ AtEof(link[c], toServer[c]) \/ ReadFails(link[c], toServer[c])
  /\ HangUp(c)
  /\ UNCHANGED <<session, owner, timer, req, tasks, told, process>>

\* Mutant: the empty nickname is let in.
AcceptableEmpty(m) == m \in Hellos /\ m.client = "contestant"

Acceptable(m) == m \in Hellos /\ m.client = "contestant" /\ m.nick # NoNick

Refusal(m) ==
  CASE m = Garbled -> Error("MSGDSL")
    [] m # Garbled /\ (m \notin Hellos \/ (m \in Hellos /\ m.client # "contestant"))
         -> Error("FAILGT")
    [] m \in Hellos /\ m.client = "contestant" /\ m.nick = NoNick -> Error("EMPTYN")
    [] OTHER -> Error("NCKDUP")

\* Mutant: the thread goes on reading after the handshake (no break).
AdmitAndReadOn(c) ==
  LET m == req[c] IN
  /\ nego[c] = "replying" /\ Acceptable(m) /\ m.nick \notin Joined
  /\ WriteReturns(link[c]) /\ Write(c, Ok)
  /\ contestants' = [n \in Joined \cup {m.nick} |-> IF n = m.nick THEN c ELSE contestants[n]]
  /\ nego' = [nego EXCEPT ![c] = "reading"]
  /\ UNCHANGED <<state, lsock, score, stats, max, owner, timer, req, tasks, told>>

\* Under _contestants_mutex: OK is written first, the contestant registered next.
AdmitContestant(c) ==
  LET m == req[c] IN
  /\ nego[c] = "replying" /\ Acceptable(m) /\ m.nick \notin Joined
  /\ \/ /\ WriteResult(link[c]) \in {"sent", "lost", "SIGPIPE"} /\ Write(c, Ok)
        /\ IF WriteReturns(link[c])
             THEN /\ contestants' = [n \in Joined \cup {m.nick} |->
                                       IF n = m.nick THEN c ELSE contestants[n]]
                  /\ nego' = [nego EXCEPT ![c] = "done"]
             ELSE UNCHANGED <<contestants, nego>>
     \/ /\ WriteResult(link[c]) = "Except" /\ HangUp(c)
        /\ UNCHANGED <<contestants, process>>
  /\ UNCHANGED <<state, lsock, score, stats, max, owner, timer, req, tasks, told>>

\* The write that answers a malformed message stands outside the try block:
\* its Except leaves the thread.
RefuseHello(c) ==
  LET m == req[c] IN
  /\ nego[c] = "replying" /\ (Acceptable(m) => m.nick \in Joined)
  /\ \/ /\ WriteResult(link[c]) # "Except" /\ Write(c, Refusal(m))
        /\ nego' = [nego EXCEPT ![c] = "reading"]
     \/ /\ WriteResult(link[c]) = "Except" /\ HangUp(c)
        /\ process' = IF m = Garbled THEN "aborted" ELSE process
  /\ UNCHANGED <<session, owner, timer, req, tasks, told>>

\* Mutant: the negotiation threads are left to run (detached).
JoinTimerOnly ==
  /\ pc = "joining" /\ timer = "ended"
  /\ state' = "RUNNING" /\ max' = 0 /\ todo' = Tail(todo) /\ pc' = "idle"
  /\ UNCHANGED <<lsock, contestants, score, stats, qid, rest, joining, tasks, told,
                 wire, process>>

\* The owner joins the timer and every negotiation thread; run() resets _max.
JoinThreads ==
  /\ pc = "joining" /\ timer = "ended"
  /\ \A c \in Conns : nego[c] \in {"none", "queued", "done"}
  /\ state' = "RUNNING" /\ max' = 0 /\ todo' = Tail(todo) /\ pc' = "idle"
  /\ UNCHANGED <<lsock, contestants, score, stats, qid, rest, joining, tasks, told,
                 wire, process>>

----------------------------------------------------------------------------
(* PlayRound.                                                              *)

\* Mutant: the results of the last round are kept (rs is a member).
PlayRoundKeeping ==
  /\ pc = "idle" /\ todo # << >> /\ Head(todo).op = "play"
  /\ state = "RUNNING" /\ Head(todo).qId \in Questions
  /\ qid' = Head(todo).qId /\ rest' = Joined /\ pc' = "playing"
  /\ task' = [n \in Nicks |-> IF n \in Joined THEN "sending" ELSE "none"]
  /\ UNCHANGED <<session, todo, joining, won, reg, told, wire, process>>

PlayRound ==
  /\ pc = "idle" /\ todo # << >> /\ Head(todo).op = "play"
  /\ state = "RUNNING" /\ Head(todo).qId \in Questions
  /\ qid' = Head(todo).qId /\ rest' = Joined /\ pc' = "playing"
  /\ task' = [n \in Nicks |-> IF n \in Joined THEN "sending" ELSE "none"]
  /\ won' = [n \in Nicks |-> FALSE]
  /\ UNCHANGED <<session, todo, joining, reg, told, wire, process>>

SendQuestion(n) ==
  LET c == contestants[n] IN
  /\ task[n] = "sending" /\ Write(c, Question(qid))
  /\ task' = [task EXCEPT ![n] = IF WriteResult(link[c]) = "Except" THEN "done" ELSE "reading"]
  /\ UNCHANGED <<session, owner, joining, won, reg, told>>

RightAnswer(n) == LET c == contestants[n] IN
  HasData(toServer[c]) /\ Head(toServer[c]) = Answer(Solution[qid])

\* A wrong, malformed or missing answer loses the round.
ReadAnswer(n) ==
  LET c == contestants[n] IN
  /\ task[n] = "reading" /\ (ReadData(c) \/ ReadEof(c) \/ ReadError(c))
  /\ task' = [task EXCEPT ![n] = IF RightAnswer(n) THEN "scoring" ELSE "done"]
  /\ UNCHANGED <<session, owner, joining, won, reg, told, process>>

\* Mutant: the score is compared before it is raised (c._score++).
IncreaseScoreLate(n) ==
  /\ task[n] = "scoring"
  /\ score' = [score EXCEPT ![n] = @ + 1]
  /\ max' = Larger(score[n], max)
  /\ task' = [task EXCEPT ![n] = "loading"]
  /\ UNCHANGED <<state, lsock, contestants, stats, owner, joining, won, reg, told, wire,
                 process>>

\* Under _contestants_mutex.
IncreaseScore(n) ==
  /\ task[n] = "scoring"
  /\ score' = [score EXCEPT ![n] = @ + 1]
  /\ max' = Larger(score[n] + 1, max)
  /\ task' = [task EXCEPT ![n] = "loading"]
  /\ UNCHANGED <<state, lsock, contestants, stats, owner, joining, won, reg, told, wire,
                 process>>

\* _stats[qId]++ holds no lock: other tasks may run between its load and its store.
LoadStat(n) ==
  /\ task[n] = "loading"
  /\ reg' = [reg EXCEPT ![n] = stats[qid]]
  /\ task' = [task EXCEPT ![n] = "storing"]
  /\ UNCHANGED <<session, owner, joining, won, told, wire, process>>

\* Mutant: the task forgets to return true.
StoreStatOnly(n) ==
  /\ task[n] = "storing"
  /\ stats' = [stats EXCEPT ![qid] = reg[n] + 1]
  /\ task' = [task EXCEPT ![n] = "done"]
  /\ UNCHANGED <<state, lsock, contestants, score, max, owner, joining, won, reg, told, wire,
                 process>>

StoreStat(n) ==
  /\ task[n] = "storing"
  /\ stats' = [stats EXCEPT ![qid] = reg[n] + 1]
  /\ won' = [won EXCEPT ![n] = TRUE]
  /\ task' = [task EXCEPT ![n] = "done"]
  /\ UNCHANGED <<state, lsock, contestants, score, max, owner, joining, reg, told, wire,
                 process>>

\* Mutant: the owner does not wait for the futures.
SomeAnswered ==
  /\ pc = "playing"
  /\ pc' = "telling"
  /\ UNCHANGED <<session, todo, qid, rest, joining, tasks, told, wire, process>>

\* Every future is ready: tell the contestants, in the order of their names.
AllAnswered ==
  /\ pc = "playing" /\ \A n \in Joined : task[n] = "done"
  /\ pc' = "telling"
  /\ UNCHANGED <<session, todo, qid, rest, joining, tasks, told, wire, process>>

\* Mutant: the ratio is taken anew, over those not told yet.
RoundResultsOfRest(n) == [correct |-> won[n], right |-> stats[qid],
                          total |-> Cardinality(rest), score |-> score[n], max |-> max]

RoundResults(n) == [correct |-> won[n], right |-> stats[qid],
                    total |-> Cardinality(Joined), score |-> score[n], max |-> max]

\* Mutant: the acknowledgement is not waited for.
TellResultOnly ==
  /\ pc = "telling" /\ rest # {}
  /\ LET n == First(rest)
     IN  /\ Write(contestants[n], Result(RoundResults(n)))
         /\ told' = [told EXCEPT ![n] = Append(@, RoundResults(n))]
         /\ rest' = rest \ {n} /\ pc' = pc
  /\ UNCHANGED <<session, todo, qid, joining, tasks>>

TellResult ==
  /\ pc = "telling" /\ rest # {}
  /\ LET n == First(rest)
         c == contestants[n]
     IN  /\ Write(c, Result(RoundResults(n)))
         /\ told' = [told EXCEPT ![n] = Append(@, RoundResults(n))]
         /\ IF WriteResult(link[c]) = "Except"
              THEN rest' = rest \ {n} /\ pc' = pc
              ELSE rest' = rest /\ pc' = "acking"
  /\ UNCHANGED <<session, todo, qid, joining, tasks>>

\* Only an Except is ignored here: the ProtoExcept of a text that is no
\* message, or of a closed connection, leaves PlayRound.
ReadResultAck ==
  LET n == First(rest)
      c == contestants[n]
  IN
  /\ pc = "acking"
  /\ \/ (ReadMessage(c) \/ ReadError(c)) /\ rest' = rest \ {n} /\ pc' = "telling"
     \/ ReadMalformed(c) /\ rest' = rest /\ pc' = "threw"
  /\ UNCHANGED <<session, todo, qid, joining, tasks, told, process>>

RoundOver ==
  /\ pc = "telling" /\ rest = {}
  /\ pc' = "idle" /\ todo' = Tail(todo)
  /\ task' = [n \in Nicks |-> "none"]
  /\ UNCHANGED <<session, qid, rest, joining, won, reg, told, wire, process>>

----------------------------------------------------------------------------
(* TerminateSession.                                                       *)

TerminateSession ==
  /\ pc = "idle" /\ todo # << >> /\ Head(todo) = Terminate /\ state = "RUNNING"
  /\ rest' = Joined /\ pc' = "closing"
  /\ UNCHANGED <<session, todo, qid, joining, tasks, told, wire, process>>

SayBye ==
  /\ pc = "closing" /\ rest # {}
  /\ LET n == First(rest)
         c == contestants[n]
     IN  /\ Write(c, Bye)
         /\ IF WriteResult(link[c]) = "Except"
              THEN rest' = rest \ {n} /\ pc' = pc
              ELSE rest' = rest /\ pc' = "closeack"
  /\ UNCHANGED <<session, todo, qid, joining, tasks, told>>

ReadByeAck ==
  LET n == First(rest)
      c == contestants[n]
  IN
  /\ pc = "closeack"
  /\ \/ /\ ReadData(c) /\ Head(toServer[c]) # Garbled /\ Head(toServer[c]) # Ack
        /\ rest' = rest \ {n} /\ pc' = "closing"
     \/ /\ HasData(toServer[c]) /\ Head(toServer[c]) = Ack
        /\ \E s \in LeftAfterRead(toServer[c]) : toServer' = [toServer EXCEPT ![c] = s]
        /\ link' = [link EXCEPT ![c] = "closed"]
        /\ UNCHANGED <<toContestant, greeted>>
        /\ rest' = rest \ {n} /\ pc' = "closing"
     \/ ReadError(c) /\ rest' = rest \ {n} /\ pc' = "closing"
     \/ ReadMalformed(c) /\ rest' = rest /\ pc' = "threw"
  /\ UNCHANGED <<session, todo, qid, joining, tasks, told, process>>

SessionOver ==
  /\ pc = "closing" /\ rest = {}
  /\ lsock' = "closed" /\ state' = "TERMINATED" /\ pc' = "idle" /\ todo' = Tail(todo)
  /\ UNCHANGED <<contestants, score, stats, max, qid, rest, joining, tasks, told, wire,
                 process>>

\* A call the session refuses: an Except about its state, or map::at.
Refuses(call) ==
  \/ call.op = "start" /\ state # "READY"
  \/ call.op = "play" /\ (state # "RUNNING" \/ call.qId \notin Questions)
  \/ call.op = "terminate" /\ state # "RUNNING"

CallRefused ==
  /\ pc = "idle" /\ todo # << >> /\ Refuses(Head(todo))
  /\ pc' = "threw"
  /\ UNCHANGED <<session, todo, qid, rest, joining, tasks, told, wire, process>>

----------------------------------------------------------------------------
(* The contestants.  One speaks when it has been spoken to (OK asks for    *)
(* nothing), and once of its own accord, to say hello; it frames what it   *)
(* reads by the length field, so a read of its own takes one message.      *)

PoliteReply(m) ==
  CASE m.type = "e" -> Hellos
    [] m.type = "t" -> {Ack}
    [] m.type = "u" -> IF "question" \in DOMAIN m THEN Answers ELSE {Ack}
    [] OTHER        -> {}

\* A message of no type, of the wrong type, of the wrong length.
Rude == IF "garble" \in Faults THEN {Garbled, Ack, Answer("none")} ELSE {}
Replies(m) == PoliteReply(m) \cup IF m = Ok THEN {} ELSE Rude

ContestantConnects(c) ==
  /\ lsock = "listening" /\ nego[c] = "none"
  /\ nego' = [nego EXCEPT ![c] = "queued"] /\ link' = [link EXCEPT ![c] = "open"]
  /\ UNCHANGED <<session, owner, timer, req, tasks, told, toServer, toContestant, greeted,
                 process>>

ContestantGreets(c) ==
  /\ link[c] = "open" /\ ~greeted[c]
  /\ \E m \in Hellos \cup Rude :
       toServer' = [toServer EXCEPT ![c] = Append(@, m)]
  /\ greeted' = [greeted EXCEPT ![c] = TRUE]
  /\ UNCHANGED <<session, owner, joining, tasks, told, link, toContestant, process>>

ContestantReplies(c) ==
  /\ link[c] = "open" /\ toContestant[c] # << >>
  /\ toContestant' = [toContestant EXCEPT ![c] = Tail(@)]
  /\ \/ /\ \E m \in Replies(Head(toContestant[c])) :
             toServer' = [toServer EXCEPT ![c] = Append(@, m)]
     \/ Head(toContestant[c]) = Ok /\ UNCHANGED toServer
  /\ UNCHANGED <<session, owner, joining, tasks, told, link, greeted, process>>

\* A contestant that closes with something unread resets the connection.
ContestantLeaves(c) ==
  /\ link[c] = "open"
  /\ \E l \in {"fin", "rst"} :
       /\ l = "fin" => "leave" \in Faults /\ toContestant[c] = << >>
       /\ l = "rst" => "reset" \in Faults
       /\ link' = [link EXCEPT ![c] = l]
  /\ toContestant' = [toContestant EXCEPT ![c] = << >>]
  /\ UNCHANGED <<session, owner, joining, tasks, told, toServer, greeted, process>>

----------------------------------------------------------------------------
OwnerStep ==
  \/ StartSession \/ AcceptTimedOut \/ AcceptFails \/ JoinThreads
  \/ PlayRound \/ AllAnswered \/ TellResult \/ ReadResultAck \/ RoundOver
  \/ TerminateSession \/ SayBye \/ ReadByeAck \/ SessionOver \/ CallRefused

NegotiationStep(c) ==
  Accept(c) \/ ReadHello(c) \/ HelloLost(c) \/ AdmitContestant(c) \/ RefuseHello(c)

TaskStep(n) ==
  SendQuestion(n) \/ ReadAnswer(n) \/ IncreaseScore(n) \/ LoadStat(n) \/ StoreStat(n)

ServerStep ==
  /\ process = "running"
  /\ \/ OwnerStep
     \/ WindowEnds
     \/ \E c \in Conns : NegotiationStep(c)
     \/ \E n \in Nicks : TaskStep(n)

ContestantStep(c) ==
  ContestantConnects(c) \/ ContestantGreets(c) \/ ContestantReplies(c) \/ ContestantLeaves(c)

Finished == (process # "running" \/ pc = "threw" \/ (pc = "idle" /\ todo = << >>))
            /\ UNCHANGED vars

Next == ServerStep \/ (\E c \in Conns : ContestantStep(c)) \/ Finished

Spec == Init /\ [][Next]_vars

\* Threads are scheduled: each one that can take a step takes it.
Running(A) == process = "running" /\ A
ServerFairness ==
  /\ WF_vars(Running(OwnerStep)) /\ WF_vars(Running(WindowEnds))
  /\ \A c \in Conns : WF_vars(Running(NegotiationStep(c)))
  /\ \A n \in Nicks : WF_vars(Running(TaskStep(n)))

\* A contestant that was spoken to answers.
ContestantFairness == \A c \in Conns : WF_vars(ContestantReplies(c))

LiveSpec == Spec /\ ServerFairness /\ ContestantFairness
----------------------------------------------------------------------------
(* Properties.                                                             *)

\* A connection has one reader: the thread that negotiated it has ended when
\* the rounds own it, and no two nicknames share it (the move of cs into the
\* map, ContestSession.cpp:248-256).
OneReaderPerConnection ==
  /\ \A n \in Joined : nego[contestants[n]] = "done"
  /\ \A m, n \in Joined : contestants[m] = contestants[n] => m = n

\* _max is the best score at every moment, although the tasks of a round raise
\* both concurrently (ContestSession.cpp:87-90).
MaxIsBestScore ==
  /\ \A n \in Nicks : score[n] <= max
  /\ max > 0 => \E n \in Joined : score[n] = max

\* The tasks of this round whose right answer has been counted.
Counted == { n \in Nicks : won[n] }

\* The unlocked _stats[qId]++ may lose counts, but it invents none, and it does
\* not lose all of them (ContestSession.cpp:91).
StatsInvented ==
  pc \in {"playing", "telling", "acking"} =>
     /\ stats[qid] <= Cardinality(Counted)
     /\ Counted # {} => stats[qid] > 0

RightIn(rs) == { i \in DOMAIN rs : rs[i].correct }

\* What a contestant is told adds up: the score of each round's results is the
\* number of rounds it was told it had right so far, this one included
\* (ContestSession.cpp:102-109).
ResultsAddUp ==
  \A n \in Nicks : \A i \in DOMAIN told[n] :
     told[n][i].score = Cardinality({ j \in RightIn(told[n]) : j <= i })

\* All contestants are told the same of one round: nothing the results are
\* made of moves while they go out one by one (ContestSession.cpp:101-115).
ResultsAgree ==
  \A m, n \in Nicks : \A i \in DOMAIN told[m] \cap DOMAIN told[n] :
     /\ told[m][i].right = told[n][i].right
     /\ told[m][i].total = told[n][i].total
     /\ told[m][i].max = told[n][i].max

\* The conversation is in lock step: one message at most is under way on a
\* connection, but for the OK of the handshake, which no one acknowledges
\* (ContestSession.cpp:252-253): the next message may catch up with it.
LockStep ==
  \A c \in Conns :
     \/ Len(toServer[c]) + Len(toContestant[c]) <= 1
     \/ /\ toServer[c] = << >> /\ Len(toContestant[c]) = 2
        /\ Head(toContestant[c]) = Ok

\* Once the rounds have begun nobody joins: every negotiation thread was joined
\* before the map was handed over (ContestSession.cpp:273-278).
RosterFrozen == [][state # "STARTING" => contestants' = contestants]_vars

\* The abstract contest this session plays: its players are the nicknames, and
\* a round is judged when the owner finds every future ready
\* (ContestSession.cpp:98): until then the points already given in it are not.
GivenThisRound(n) == pc = "playing" /\ (won[n] \/ task[n] \in {"loading", "storing"})
Phase  == IF state = "RUNNING" THEN "playing"
          ELSE IF state = "TERMINATED" THEN "over" ELSE "open"
Judged == IF pc = "playing" THEN qid - 1 ELSE qid
Points == [n \in Nicks |-> IF GivenThisRound(n) THEN score[n] - 1 ELSE score[n]]

Abstract == INSTANCE QuizContest WITH
  Players <- Nicks, Rounds <- NumQuestions,
  phase <- Phase, joined <- Joined, round <- Judged, points <- Points

\* The session implements the abstract contest: nobody joins late, every
\* question is played once, and nobody gets a point outside a round or two in
\* one (ContestSession.cpp:19-150).
PlaysTheContest == Abstract!Spec

\* A contestant that leaves, resets or garbles does not take the session or the
\* server with it: README.md:472, and ContestSession.cpp:114 and 140-142.
SurvivesLeaving == process = "running" /\ pc # "threw"

\* The statistic told with a round's results is the number of contestants who
\* had it right (ContestSession.cpp:91 and 101, by their comments).
StatsCountRightAnswers ==
  pc = "telling" => stats[qid] = Cardinality(Counted)

\* Once the waiting period has expired the contest starts (README.md:331), or was
\* played by now, as soon as nothing more is said in any handshake.
AllIsSaid == \A c \in Conns : toServer[c] = << >> /\ toContestant[c] = << >>
StartsAfterWindow ==
  <>[]AllIsSaid => (timer = "ended") ~> (state \in {"RUNNING", "TERMINATED"})
=============================================================================
