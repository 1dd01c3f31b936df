--------------------------- MODULE ContestMeister ---------------------------
(***************************************************************************)
(* The server worked by contestmeister programs: ContestmeisterClient      *)
(* (src/src/contestmeister/ContestmeisterClient.cpp) at the other end of   *)
(* every connection of ContestServer.  The server's steps are those of     *)
(* ContestServer; its clients' are replaced by the prompt loop, so that    *)
(* what a program was told can be held against what the server keeps.      *)
(* No contest is played meanwhile, and the machine does not crash: that is *)
(* ContestServer's own.                                                    *)
(***************************************************************************)
EXTENDS ContestServer

CONSTANT Lines  \* for each user, what it may type at the first prompt, the second, ...

\* A line is the request it asks for; bare says that nothing follows the letter.
Line(r, bare) == [req |-> r, bare |-> bare]
AllLines == [req : AllRequests, bare : BOOLEAN]

ASSUME LinesAssumption ==
  /\ Lines \in [Clients -> Seq(SUBSET AllLines)]
  /\ \A c \in Clients : Len(Lines[c]) <= MaxRequests
ASSUME QuietAssumption == Sessions = {} /\ "crash" \notin Mishaps

VARIABLES client,    \* where each program is
          peer,      \* its view of the connection: the server is the other end
          toClient,  \* what the server wrote and the program has not read
          want,      \* the request it waits for the answer of
          told       \* the changes it was told are made, and did not ask to undo

program == <<client, want, told>>
meisterVars == <<vars, peer, toClient, program>>

\* "greeting" waits for the answer to the handshake, "awaiting" for that to a
\* request; a program "spins" when its input has ended, is "refused" when it
\* ends without a session and "crashed" by an exception or a signal.
ClientStates == {"start", "naming", "greeting", "prompt", "awaiting", "spins",
                 "done", "refused", "crashed"}
Ended(c) == client[c] \in {"done", "refused", "crashed"}

Reply(c) == [req |-> IF at[c] = "welcoming" THEN Ask("n", NoId, NoId) ELSE req[c],
             ans |-> ans[c]]
Replying == [req : AllRequests, ans : {"ok", "error", "blank"}]

\* The type invariant; what is made is a question, a contest, or a question in a contest.
MeisterTypeOK ==
  /\ TypeOK
  /\ client \in [Clients -> ClientStates] /\ peer \in [Clients -> LinkStates]
  /\ toClient \in [Clients -> Seq(Replying)] /\ want \in [Clients -> AllRequests]
  /\ \A c \in Clients : told[c] \subseteq { r \in AllRequests : r.op \in {"p", "s", "a"} }

MeisterInit ==
  /\ Init
  /\ client = [c \in Clients |-> "start"] /\ peer = [c \in Clients |-> "idle"]
  /\ toClient = [c \in Clients |-> << >>] /\ want = Fresh.req
  /\ told = [c \in Clients |-> {}]

----------------------------------------------------------------------------
(* What the server's steps do to its clients' ends of the connections.     *)

\* An answer arrives; a connection the server closes, or its end closes for it,
\* is finished, or reset where the server has not read everything.
Delivered ==
  /\ toClient' = [c \in Clients |->
       IF at[c] \in {"welcoming", "answering"} /\ link[c] = "open" /\ at'[c] # at[c]
         THEN Append(toClient[c], Reply(c)) ELSE toClient[c]]
  /\ peer' = [c \in Clients |->
       IF peer[c] = "open" /\ (process' # "up" \/ link'[c] = "closed")
         THEN IF toServer'[c] = << >> /\ at[c] # "queued" THEN "fin" ELSE "rst"
         ELSE peer[c]]

Serves(A) == process = "up" /\ A /\ Delivered /\ UNCHANGED program

----------------------------------------------------------------------------
(* The program.                                                            *)

Moves(c, place) == client' = [client EXCEPT ![c] = place]

\* _sock.write: the program goes on at `next`, or at `failed` on an Except.
Sends(c, r, next, failed) ==
  /\ toServer' = IF peer[c] = "open" THEN [toServer EXCEPT ![c] = Append(@, r)] ELSE toServer
  /\ \E l \in LinkAfterWrite(peer[c]) : peer' = [peer EXCEPT ![c] = l]
  /\ Moves(c, IF WriteReturns(peer[c]) THEN next
              ELSE IF WriteResult(peer[c]) = "Except" THEN failed ELSE "crashed")
  /\ UNCHANGED <<main, memory, disk, at, buf, asking, playing, link, toClient>>

\* _sock.read: the first message of the chunk.
Hears(c) ==
  /\ HasData(toClient[c])
  /\ \E rest \in LeftAfterRead(toClient[c]) : toClient' = [toClient EXCEPT ![c] = rest]
  /\ UNCHANGED <<vars, peer>>

\* The program is started, and once more with a server that was started again.
Dials(c) ==
  /\ client[c] = "start" \/ (Ended(c) /\ peer[c] \in {"idle", "closed"} /\ process = "up")
  /\ \/ Connects(c) /\ Moves(c, "naming") /\ peer' = [peer EXCEPT ![c] = "open"]
     \/ /\ process # "up" \/ lsock # "listening"
        /\ Moves(c, "refused") /\ UNCHANGED <<vars, peer>>
  /\ UNCHANGED <<toClient, want, told>>

\* connect() handles an Except and nothing else.
SaysHello(c) ==
  /\ client[c] = "naming" /\ Sends(c, Ask("n", NoId, NoId), "greeting", "refused")
  /\ UNCHANGED <<asked, want, told>>

HearsHello(c) ==
  /\ client[c] = "greeting" /\ Hears(c)
  /\ Moves(c, IF Head(toClient[c]).ans = "ok" THEN "prompt" ELSE "refused")
  /\ UNCHANGED <<want, told>>

HearsNoHello(c) ==
  /\ client[c] = "greeting"
  /\ \/ AtEof(peer[c], toClient[c]) /\ Moves(c, "crashed")  \* "" is no message
     \/ ReadFails(peer[c], toClient[c]) /\ Moves(c, "refused")
  /\ UNCHANGED <<vars, peer, toClient, want, told>>

\* std::stoul of no number, and substr(2) of a lone letter, raise what no
\* handler takes; of p, whose id is parsed in a try block, it is another prompt.
Trips(l) ==
  \/ l.req.op \in {"d", "g", "s"} /\ l.req.q = NoId /\ l.req.c = NoId
  \/ l.req.op \in {"a", "b", "r"} /\ l.bare
  \/ l.req.op = "P"   \* the question is parsed before it is sent
Rejected(l) == l.req.op = "p" /\ l.req.q = NoId

Typed(c) == IF asked[c] < Len(Lines[c]) THEN Lines[c][asked[c] + 1] ELSE {}

TripsOver(c) ==
  /\ client[c] = "prompt" /\ \E l \in Typed(c) : Trips(l)
  /\ Moves(c, "crashed") /\ UNCHANGED <<vars, peer, toClient, want, told>>

\* The changes a request, once sent, may undo.
Undone(r) == { m \in AllRequests : r.op = "d" /\ m.op = "p" /\ m.q = r.q }

\* Mutant: the prompt comes back before the answer.
RequestsOnly(c) ==
  /\ client[c] = "prompt" /\ asked' = [asked EXCEPT ![c] = @ + 1]
  /\ \E l \in Typed(c) :
       /\ ~Trips(l) /\ ~Rejected(l)
       /\ Sends(c, l.req, IF l.req.op = "r" THEN "prompt" ELSE "awaiting", "crashed")
       /\ want' = [want EXCEPT ![c] = l.req]
       /\ told' = [told EXCEPT ![c] = @ \ Undone(l.req)]

TypesRequest(c) ==
  /\ client[c] = "prompt" /\ asked' = [asked EXCEPT ![c] = @ + 1]
  /\ \E l \in Typed(c) :
       /\ ~Trips(l) /\ ~Rejected(l) /\ Sends(c, l.req, "awaiting", "crashed")
       /\ want' = [want EXCEPT ![c] = l.req]
       /\ told' = [told EXCEPT ![c] = @ \ Undone(l.req)]

\* A quitting program does not look at the answer, a killing one does.
Leaving(c, a) == want[c].op = "q" \/ (want[c].op = "k" /\ a = "ok")

\* Mutant: an error is taken for an OK.
HearsAnswerAsOk(c) ==
  LET a == Head(toClient[c]).ans IN
  /\ client[c] = "awaiting" /\ Hears(c)
  /\ Moves(c, IF Leaving(c, a) THEN "done" ELSE "prompt")
  /\ told' = [told EXCEPT ![c] = IF want[c].op \in {"p", "s", "a"} THEN @ \cup {want[c]} ELSE @]
  /\ want' = [want EXCEPT ![c] = Fresh.req[c]]

\* Mutant: the answer to a question that was got is taken for a post's.
HearsAnyOk(c) ==
  LET a == Head(toClient[c]).ans IN
  /\ client[c] = "awaiting" /\ Hears(c)
  /\ Moves(c, IF Leaving(c, a) THEN "done" ELSE "prompt")
  /\ told' = [told EXCEPT ![c] = IF a = "ok" THEN @ \cup {want[c]} ELSE @]
  /\ want' = [want EXCEPT ![c] = Fresh.req[c]]

HearsAnswer(c) ==
  LET a == Head(toClient[c]).ans IN
  /\ client[c] = "awaiting" /\ Hears(c)
  /\ Moves(c, IF Leaving(c, a) THEN "done" ELSE "prompt")
  /\ told' = [told EXCEPT ![c] =
       IF a = "ok" /\ want[c].op \in {"p", "s", "a"} THEN @ \cup {want[c]} ELSE @]
  /\ want' = [want EXCEPT ![c] = Fresh.req[c]]

\* An empty read is reported, and the prompt comes back; an Except ends it all.
HearsNothing(c) ==
  /\ client[c] = "awaiting"
  /\ \/ /\ AtEof(peer[c], toClient[c])
        /\ Moves(c, IF Leaving(c, "none") THEN "done" ELSE "prompt")
     \/ ReadFails(peer[c], toClient[c]) /\ Moves(c, "crashed")
  /\ want' = [want EXCEPT ![c] = Fresh.req[c]]
  /\ UNCHANGED <<vars, peer, toClient, told>>

\* At the end of its input the loop reads an empty line for ever.
InputEnds(c) ==
  /\ client[c] = "prompt" /\ Moves(c, "spins")
  /\ UNCHANGED <<vars, peer, toClient, want, told>>

Interrupted(c) ==
  /\ "leave" \in Mishaps /\ ~Ended(c) /\ Moves(c, "crashed")
  /\ want' = [want EXCEPT ![c] = Fresh.req[c]]
  /\ UNCHANGED <<vars, peer, toClient, told>>

\* The kernel closes the socket of a program that ended.
HangsUp(c) ==
  /\ Ended(c) /\ peer[c] \notin {"idle", "closed"}
  /\ peer' = [peer EXCEPT ![c] = "closed"] /\ toClient' = [toClient EXCEPT ![c] = << >>]
  /\ link' = IF peer[c] = "open"
               THEN [link EXCEPT ![c] = IF toClient[c] = << >> THEN "fin" ELSE "rst"] ELSE link
  /\ UNCHANGED <<main, memory, disk, at, buf, asking, playing, toServer, asked, program>>

Listens(c) == HearsHello(c) \/ HearsNoHello(c) \/ HearsAnswer(c) \/ HearsNothing(c)

ProgramStep(c) ==
  \/ Dials(c) \/ SaysHello(c) \/ Listens(c) \/ TripsOver(c) \/ TypesRequest(c)
  \/ InputEnds(c) \/ Interrupted(c) \/ HangsUp(c)

MeisterNext ==
  \/ Serves(MainThread) \/ Serves(Collide)
  \/ \E c \in Clients : Serves(ClientThread(c))
  \/ Restarts /\ UNCHANGED <<peer, toClient, program>>
  \/ \E c \in Clients : ProgramStep(c)

MeisterSpec == MeisterInit /\ [][MeisterNext]_meisterVars

\* The server's threads are scheduled, a program reads what has come, and the
\* kernel closes what it left open.
MeisterFairness ==
  /\ WF_meisterVars(Serves(MainThread))
  /\ \A c \in Clients : WF_meisterVars(Serves(ClientThread(c)))
  /\ \A c \in Clients : WF_meisterVars(Listens(c)) /\ WF_meisterVars(HangsUp(c))

FairMeister == MeisterSpec /\ MeisterFairness

----------------------------------------------------------------------------
(* Properties.                                                             *)

\* An answer belongs to the request it is read for: at most one is under way,
\* whatever the server could not handle, dropped or did not survive
\* (ContestmeisterClient.cpp:78-104 against ContestServer.cpp:93-118).
AnswersMatch ==
  \A c \in Clients : peer[c] = "open" =>
    /\ Len(toServer[c]) + Len(toClient[c]) <= 1
    /\ client[c] = "prompt" => toServer[c] = << >> /\ toClient[c] = << >>
    /\ client[c] = "awaiting" /\ toClient[c] # << >> => Head(toClient[c]).req = want[c]

Made(r, qs, cs) ==
  CASE r.op = "p" -> r.q \in qs
    [] r.op = "s" -> r.c \in DOMAIN cs
    [] r.op = "a" -> r.c \in DOMAIN cs /\ r.q \in DOMAIN cs[r.c].qs

\* What a program was told is made, is in memory while the server is up and in
\* the bank files while nothing is saved, through kills, aborts and restarts
\* (src/README.md:466; ContestServer.cpp:136-137, 150-151, 206-210, 234-237).
\* It speaks of a user who is the only one so far.
ToldIsMade ==
  \A c \in Clients : (\A d \in Clients \ {c} : client[d] = "start") =>
    \A r \in told[c] :
      /\ process = "up" => Made(r, book, contests)
      /\ (\A b \in Banks : Settled(b)) => Made(r, qfile, cfile)

\* A program is never left waiting: an answer comes, or the end of the connection
\* (ContestServer.cpp:28-68, 93-121; ContestmeisterClient.cpp:55-63, 82-86).
NeverLeftWaiting ==
  \A c \in Clients : client[c] \in {"greeting", "awaiting"}
                       ~> client[c] \notin {"greeting", "awaiting"}

\* The thread of a program that ended comes to its end as well, unless the
\* server itself does (ContestServer.cpp:45-49, 97-120; src/README.md:253).
ThreadsEnd ==
  \A c \in Clients : Ended(c) ~> (at[c] \in {"none", "gone"} \/ process # "up" \/ ~Ended(c))
=============================================================================
