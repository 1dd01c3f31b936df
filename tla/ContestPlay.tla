---------------------------- MODULE ContestPlay ----------------------------
(***************************************************************************)
(* A contest session played by contestant programs: ContestantClient       *)
(* (src/src/contestant/ContestantClient.cpp) at the other end of every     *)
(* connection of ContestSession, with the streams of TCP between them.     *)
(* The client takes what one read returns for one message, so whatever     *)
(* came along in the same chunk is lost to it.                             *)
(***************************************************************************)
EXTENDS ContestSession

CONSTANT Quitters  \* the clients whose user may interrupt them

ASSUME QuittersAssumption == Quitters \subseteq Conns

VARIABLES client,  \* where each client is
          name,    \* name_buffer: the nickname it last sent
          shown    \* the results it last presented, << >> before the first

clients == <<client, name, shown>>
playVars == <<vars, clients>>

\* "greeting" waits for the answer to the handshake, "waiting" for the next
\* question or the end, "judging" for the results of its answer; a client is
\* "confused" by a message it cannot take, "cut" when its server is gone.
ClientStates == {"start", "naming", "greeting", "waiting", "choosing", "judging",
                 "done", "refused", "confused", "cut"}
Ended(c) == client[c] \in {"done", "refused", "confused", "cut"}

\* The type invariant.
PlayTypeOK ==
  /\ TypeOK
  /\ client \in [Conns -> ClientStates]
  /\ name \in [Conns -> Nicks \cup {NoNick}]
  /\ \A c \in Conns : shown[c] = << >> \/ shown[c] \in Verdicts

PlayInit ==
  /\ Init
  /\ client = [c \in Conns |-> "start"]
  /\ name = [c \in Conns |-> NoNick] /\ shown = [c \in Conns |-> << >>]

----------------------------------------------------------------------------
(* What a client does to its connection.                                   *)

ServerGone(c) == process # "running" \/ link[c] # "open"

\* conn.write(m) of the client: what is written to a server that is gone is lost.
Sent(c, m) == IF ServerGone(c) THEN toServer ELSE [toServer EXCEPT ![c] = Append(@, m)]

Goes(c, place) == client' = [client EXCEPT ![c] = place]

\* The first message of a chunk, which the stream then no longer holds.
Takes(c) ==
  /\ toContestant[c] # << >> /\ link[c] = "open"
  /\ \E s \in LeftAfterRead(toContestant[c]) : toContestant' = [toContestant EXCEPT ![c] = s]
  /\ UNCHANGED <<session, owner, joining, tasks, told, link, greeted, process>>

Unserved == UNCHANGED <<session, owner, joining, tasks, told, wire, process>>

----------------------------------------------------------------------------
(* joinContest                                                             *)

Connects(c) ==
  /\ client[c] = "start"
  /\ IF lsock = "listening" /\ process = "running"
       THEN ContestantConnects(c) /\ Goes(c, "naming")
       ELSE Goes(c, "refused") /\ Unserved
  /\ UNCHANGED <<name, shown>>

\* Mutant: the first name asked for is the one the contestant keeps.
SendsNameOnce(c) ==
  /\ client[c] = "naming" /\ Goes(c, "greeting")
  /\ \E n \in Nicks \cup {name[c]} :
       /\ name' = [name EXCEPT ![c] = IF @ = NoNick THEN n ELSE @]
       /\ toServer' = Sent(c, Hello("contestant", n))
  /\ greeted' = [greeted EXCEPT ![c] = TRUE]
  /\ UNCHANGED <<session, owner, joining, tasks, told, link, toContestant, process, shown>>

\* At the end of the input name_buffer keeps what it held.
SendsName(c) ==
  /\ client[c] = "naming" /\ Goes(c, "greeting")
  /\ \E n \in Nicks \cup {name[c]} :
       /\ name' = [name EXCEPT ![c] = n]
       /\ toServer' = Sent(c, Hello("contestant", n))
  /\ greeted' = [greeted EXCEPT ![c] = TRUE]
  /\ UNCHANGED <<session, owner, joining, tasks, told, link, toContestant, process, shown>>

\* Mutant: an empty name is not forgiven.
TriesAnotherIfTaken(m) == m = Error("NCKDUP")

TriesAnotherName(m) == m \in {Error("NCKDUP"), Error("EMPTYN")}

ReadsHandshake(c) ==
  LET m == Head(toContestant[c]) IN
  /\ client[c] = "greeting" /\ Takes(c)
  /\ Goes(c, IF m = Ok THEN "waiting" ELSE IF TriesAnotherName(m) THEN "naming" ELSE "confused")
  /\ UNCHANGED <<toServer, name, shown>>

----------------------------------------------------------------------------
(* playAllRounds and playRound                                             *)

IsQuestion(m) == m.type = "u" /\ "question" \in DOMAIN m
IsResult(m)   == m.type = "u" /\ "result" \in DOMAIN m

\* Mutant: the question is acknowledged too.
ReadsQuestionAcking(c) ==
  LET m == Head(toContestant[c]) IN
  /\ client[c] = "waiting" /\ Takes(c) /\ m # Bye
  /\ Goes(c, IF IsQuestion(m) THEN "choosing" ELSE "confused")
  /\ toServer' = Sent(c, Ack) /\ UNCHANGED <<name, shown>>

ReadsQuestion(c) ==
  LET m == Head(toContestant[c]) IN
  /\ client[c] = "waiting" /\ Takes(c) /\ m # Bye
  /\ Goes(c, IF IsQuestion(m) THEN "choosing" ELSE "confused")
  /\ UNCHANGED <<toServer, name, shown>>

ReadsBye(c) ==
  /\ client[c] = "waiting" /\ Takes(c) /\ Head(toContestant[c]) = Bye
  /\ toServer' = Sent(c, Ack) /\ Goes(c, "done")
  /\ UNCHANGED <<name, shown>>

Chooses(c, a) ==
  /\ client[c] = "choosing" /\ Goes(c, "judging")
  /\ toServer' = Sent(c, Answer(a))
  /\ UNCHANGED <<session, owner, joining, tasks, told, link, toContestant, greeted, process,
                 name, shown>>

SendsChoice(c) == \E a \in Choices : Chooses(c, a)

\* choice_valid is never initialised: after a letter the question does not have
\* the loop may as well end.
SendsInvalidChoice(c) == Chooses(c, "none")

\* Mutant: the results are not acknowledged.
ReadsResultSilently(c) ==
  LET m == Head(toContestant[c]) IN
  /\ client[c] = "judging" /\ Takes(c)
  /\ IF IsResult(m)
       THEN shown' = [shown EXCEPT ![c] = m.result] /\ Goes(c, "waiting")
       ELSE Goes(c, "confused") /\ UNCHANGED shown
  /\ UNCHANGED <<toServer, name>>

\* Mutant: the first results are shown again.
ReadsResultOnce(c) ==
  LET m == Head(toContestant[c]) IN
  /\ client[c] = "judging" /\ Takes(c)
  /\ IF IsResult(m)
       THEN /\ shown' = [shown EXCEPT ![c] = IF @ = << >> THEN m.result ELSE @]
            /\ toServer' = Sent(c, Ack) /\ Goes(c, "waiting")
       ELSE Goes(c, "confused") /\ UNCHANGED <<toServer, shown>>
  /\ UNCHANGED name

ReadsResult(c) ==
  LET m == Head(toContestant[c]) IN
  /\ client[c] = "judging" /\ Takes(c)
  /\ IF IsResult(m)
       THEN /\ shown' = [shown EXCEPT ![c] = m.result]
            /\ toServer' = Sent(c, Ack) /\ Goes(c, "waiting")
       ELSE Goes(c, "confused") /\ UNCHANGED <<toServer, shown>>
  /\ UNCHANGED name

\* A read from a server that is gone: the empty string, or an Except.
LosesServer(c) ==
  /\ client[c] \in {"greeting", "waiting", "judging"}
  /\ toContestant[c] = << >> /\ ServerGone(c)
  /\ Goes(c, "cut") /\ Unserved /\ UNCHANGED <<name, shown>>

\* The program ends, and its socket with it.
Leaves(c) ==
  /\ link[c] = "open"
  /\ link' = [link EXCEPT ![c] = IF toContestant[c] = << >> THEN "fin" ELSE "rst"]
  /\ toContestant' = [toContestant EXCEPT ![c] = << >>]
  /\ UNCHANGED <<session, owner, joining, tasks, told, toServer, greeted, process, name, shown>>

Exits(c) == Ended(c) /\ Leaves(c) /\ UNCHANGED client

Interrupted(c) == c \in Quitters /\ ~Ended(c) /\ Leaves(c) /\ Goes(c, "cut")

----------------------------------------------------------------------------
Reads(c) == ReadsHandshake(c) \/ ReadsQuestion(c) \/ ReadsBye(c) \/ ReadsResult(c) \/ LosesServer(c)

ClientStep(c) ==
  \/ Connects(c) \/ SendsName(c) \/ Reads(c) \/ SendsChoice(c) \/ SendsInvalidChoice(c)
  \/ Exits(c) \/ Interrupted(c)

AllOver == Finished /\ (\A c \in Conns : Ended(c)) /\ UNCHANGED clients

PlayNext ==
  \/ ServerStep /\ UNCHANGED clients
  \/ \E c \in Conns : ClientStep(c)
  \/ AllOver

PlaySpec == PlayInit /\ [][PlayNext]_playVars

\* Every thread of the server is scheduled, a client reads what has come, and
\* its user chooses among the letters offered.
PlayFairness ==
  /\ WF_playVars(Running(OwnerStep) /\ UNCHANGED clients)
  /\ WF_playVars(Running(WindowEnds) /\ UNCHANGED clients)
  /\ \A c \in Conns : WF_playVars(Running(NegotiationStep(c)) /\ UNCHANGED clients)
  /\ \A n \in Nicks : WF_playVars(Running(TaskStep(n)) /\ UNCHANGED clients)
  /\ \A c \in Conns : WF_playVars(Reads(c)) /\ WF_playVars(SendsChoice(c))

FairPlay == PlaySpec /\ PlayFairness

----------------------------------------------------------------------------
(* Properties.                                                             *)

\* The session and its clients are in step: a client chooses only while the
\* session waits for its answer, waits for results only in a round, and is done
\* only once the session said goodbye (ContestSession.cpp:66-143 against
\* ContestantClient.cpp:90-176).
InStep ==
  \A n \in Joined : LET c == contestants[n] IN
    process = "running" /\ link[c] = "open" =>
      /\ client[c] = "choosing" => task[n] = "reading" /\ toServer[c] = << >>
      /\ client[c] = "judging"  => pc \in {"playing", "telling", "acking", "threw"}
      /\ client[c] = "done"     => pc \in {"closeack", "threw"}
      /\ client[c] \in {"greeting", "naming"} =>
           toContestant[c] # << >> /\ Head(toContestant[c]) = Ok

\* However the reads are cut and the names collide, no client is sent a message
\* it cannot take: the flow of a contest is predetermined (src/README.md:369;
\* ContestantClient.cpp:45-82 and 103-130 against ContestSession.cpp:211-258).
NeverConfused == \A c \in Conns : client[c] # "confused"

\* A client past its handshake owns the name it sent (ContestSession.cpp:250-255,
\* ContestantClient.cpp:71-85).
NameIsMine ==
  \A c \in Conns : client[c] \in {"waiting", "choosing", "judging", "done"} =>
     name[c] \in Joined /\ contestants[name[c]] = c

\* What a client shows is the last thing it was told, or the one before while
\* the last is under way (ContestSession.cpp:102-115, ContestantClient.cpp:164-175).
ShowsWhatItWasTold ==
  \A n \in Joined : LET c == contestants[n]
                        k == Len(told[n])
                    IN shown[c] # << >> =>
                         \/ shown[c] = told[n][k]
                         \/ k > 1 /\ shown[c] = told[n][k - 1]
                            /\ (link[c] = "open" => toContestant[c] = << Result(told[n][k]) >>)

\* Once every contestant has read its OK before the first question goes out,
\* the contest is played to its end and every client has taken its leave, if no
\* user cut it short (ContestSession.cpp:23-28, ContestantClient.cpp:97-131).
PlayedOut ==
  (state = "RUNNING" /\ pc = "idle" /\ \A n \in Joined : toContestant[contestants[n]] = << >>)
     ~> \/ state = "TERMINATED" /\ \A n \in Joined : client[contestants[n]] = "done"
        \/ \E c \in Quitters : client[c] = "cut"

\* A contestant that waits for a question gets it: the session never waits for
\* the answer of a client that never saw what it is to answer (src/README.md:117).
NobodyWaitsInVain ==
  \A n \in Joined : LET c == contestants[n] IN
    ~ /\ task[n] = "reading" /\ link[c] = "open" /\ client[c] = "waiting"
      /\ toServer[c] = << >> /\ toContestant[c] = << >>
=============================================================================
