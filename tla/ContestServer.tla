--------------------------- MODULE ContestServer ---------------------------
(***************************************************************************)
(* The quiz server (src/src/cserver/ContestServer.cpp): the main thread    *)
(* that accepts connections, one detached thread per contestmeister client *)
(* that answers its requests, one detached thread per contest that was     *)
(* begun, the question book and the contests they share without a lock,    *)
(* the two bank files each change is written to, and what is left of them  *)
(* when the process ends and is started again.                             *)
(*                                                                         *)
(* A session is what ContestSession does, seen from here: it runs, and it  *)
(* ends with statistics or takes the process down.                         *)
(***************************************************************************)
EXTENDS Naturals, Sequences, FiniteSets, TcpSocket

CONSTANTS Clients,      \* the connections contestmeister clients may open
          Sessions,     \* the sessions there are ports and memory for
          QIds, CIds,   \* the ids of questions and of contests
          FirstBook,    \* the questions the bank holds at the first start
          Dotted,       \* the questions whose line of tags is a dot
          Requests,     \* what a client may ask for
          MaxRequests,  \* how many requests a client makes
          MaxRestarts,  \* how often the server is started again
          Mishaps       \* what may go wrong, a subset of AllMishaps

AllMishaps == {"leave", "reset", "garble", "session", "crash"}

NoId == 0   \* an id that is no number
\* The types of messages: the requests, where "P" posts a question that does not
\* parse and "x" is a type without a handler, the handshake "n" of a
\* contestmeister, and "garbled" for text that is no message.
Ops == {"n", "p", "P", "d", "g", "s", "a", "b", "l", "r", "q", "k", "x", "garbled"}
Ask(op, q, c) == [op |-> op, q |-> q, c |-> c]
AllRequests == [op : Ops, q : QIds \cup {NoId}, c : CIds \cup {NoId}]

ASSUME IdsAssumption      == QIds \cup CIds \subseteq Nat /\ NoId \notin QIds /\ NoId \notin CIds
ASSUME ThreadsAssumption  == Clients \cap Sessions = {}
ASSUME RequestsAssumption == Requests \subseteq AllRequests
ASSUME BookAssumption     == FirstBook \subseteq QIds /\ Dotted \subseteq QIds
ASSUME BoundsAssumption   == MaxRequests \in Nat /\ MaxRestarts \in Nat
ASSUME MishapsAssumption  == Mishaps \subseteq AllMishaps

\* What a client may say first.
Hellos ==
  { Ask(op, NoId, NoId) : op \in {"n"} \cup IF "garble" \in Mishaps THEN {"x", "garbled"} ELSE {} }

VARIABLES
  process, reqkill, lsock, restarts,  \* the process and its main thread
  book, contests,                     \* _qb and _contests
  qfile, cfile,                       \* the bank files: what they hold,
  torn, overlapped,                   \* is it no bank, was the last save disturbed
  at, buf,                            \* each thread: where it is, its save under way
  req, ans,                           \* each client's request and its answer
  playing,                            \* each session's contest and questions
  link, toServer, asked               \* the connections

main   == <<process, reqkill, lsock, restarts>>
memory == <<book, contests>>
disk   == <<qfile, cfile, torn, overlapped>>
asking == <<req, ans>>
net    == <<link, toServer, asked>>
vars   == <<main, memory, disk, at, buf, asking, playing, net>>

Threads == Clients \cup Sessions
Banks   == {"questions", "contests"}

\* stats is the set of questions that have a statistic; qs counts for each
\* question of the contest the lines its title gained by being read back.
NewContest == [qs |-> << >>, run |-> FALSE, stats |-> {}]
ContestValues ==
  [qs : UNION { [Q -> 0..MaxRestarts] : Q \in SUBSET QIds }, run : BOOLEAN,
   stats : SUBSET QIds]
ContestSets == UNION { [C -> ContestValues] : C \in SUBSET CIds }

\* The type invariant; its bounds say that a title gains one line a start.
TypeOK ==
  /\ process \in {"up", "exited", "aborted", "crashed", "unusable"}
  /\ reqkill \in BOOLEAN /\ lsock \in {"listening", "shutdown"} /\ restarts \in 0..MaxRestarts
  /\ book \in SUBSET QIds /\ contests \in ContestSets
  /\ qfile \in SUBSET QIds /\ cfile \in ContestSets
  /\ torn \in [Banks -> BOOLEAN] /\ overlapped \in [Banks -> BOOLEAN]
  /\ \A c \in Clients : at[c] \in {"none", "queued", "greeting", "welcoming", "reading", "deciding",
                                   "changing", "opening", "copying", "tallying", "flushing",
                                   "answering", "spinning", "gone"}
  /\ \A s \in Sessions : at[s] \in {"free", "running", "flagging", "recording",
                                    "opening", "copying", "tallying", "flushing"}
  /\ buf \in [Threads -> [book : SUBSET QIds, contests : ContestSets,
                          here : QIds \cup CIds \cup {NoId}]]
  /\ req \in [Clients -> AllRequests] /\ ans \in [Clients -> {"ok", "error", "blank"}]
  /\ playing \in [Sessions -> [c : CIds \cup {NoId}, on : SUBSET QIds]]
  /\ link \in [Clients -> LinkStates] /\ toServer \in [Clients -> Seq(AllRequests)]
  /\ asked \in [Clients -> 0..MaxRequests]

\* What a save has copied of its bank, and where its iterator stands.
NoText == [book |-> {}, contests |-> << >>, here |-> NoId]

\* No thread but main, and no connection.
Fresh ==
  [at   |-> [t \in Threads |-> IF t \in Clients THEN "none" ELSE "free"],
   buf  |-> [t \in Threads |-> NoText],
   req  |-> [c \in Clients |-> Ask("q", NoId, NoId)],
   ans  |-> [c \in Clients |-> "ok"],
   link |-> [c \in Clients |-> "idle"],
   toServer |-> [c \in Clients |-> << >>],
   playing  |-> [s \in Sessions |-> [c |-> NoId, on |-> {}]]]

\* The first start, with a bank of questions and no contests.
Init ==
  /\ process = "up" /\ restarts = 0 /\ reqkill = FALSE /\ lsock = "listening"
  /\ at = Fresh.at /\ buf = Fresh.buf /\ req = Fresh.req /\ ans = Fresh.ans
  /\ link = Fresh.link /\ toServer = Fresh.toServer /\ playing = Fresh.playing
  /\ book = FirstBook /\ contests = << >> /\ qfile = FirstBook /\ cfile = << >>
  /\ torn = [b \in Banks |-> FALSE] /\ overlapped = [b \in Banks |-> FALSE]
  /\ asked = [c \in Clients |-> 0]

----------------------------------------------------------------------------
(* Threads and files.                                                      *)

Goes(t, place) == at' = [at EXCEPT ![t] = place]

\* The bank a thread saves.
BankOf(t) == IF t \in Clients /\ req[t].op \in {"p", "d"} THEN "questions" ELSE "contests"
Walking   == {"copying", "tallying"}
Walkers(b) == { t \in Threads : at[t] \in Walking /\ BankOf(t) = b }
Saving(b)  == { t \in Threads : at[t] \in Walking \cup {"flushing"} /\ BankOf(t) = b }

\* What a start reads of a bank, if it reads it at all, where t's save was done in
\* part (module Bank): the first questions; all contests, the last of them perhaps
\* without statistics, or none.
Heads(qs)  == { { q \in qs : q <= n } : n \in QIds \cup {NoId} }
LastId(cs) == CHOOSE i \in DOMAIN cs : \A j \in DOMAIN cs : j <= i
Whole(cs)  == {<< >>, cs} \cup IF cs = << >> THEN {} ELSE { [cs EXCEPT ![LastId(cs)].stats = {}] }

\* Where the save was disturbed, lines of two saves are in the file, or of a bank
\* before and after a change: any of them may stand under any contest.
Values(f)  == { f[i] : i \in DOMAIN f }
Blends(vs) ==
  { v \in ContestValues :
      /\ \A q \in DOMAIN v.qs : \E u \in vs : q \in DOMAIN u.qs /\ v.qs[q] = u.qs[q]
      /\ \E u \in vs : v.run = u.run
      /\ v.stats \subseteq UNION { u.stats : u \in vs } }
Mixes(f, g) ==
  UNION { [D -> Blends(Values(f) \cup Values(g))] : D \in SUBSET (DOMAIN f \cup DOMAIN g) }

QReads(t) == IF overlapped["questions"] THEN SUBSET (qfile \cup buf[t].book) ELSE Heads(buf[t].book)
CReads(t) ==
  (IF at[t] = "flushing" THEN Whole(buf[t].contests) ELSE {<< >>})
    \cup (IF overlapped["contests"] THEN Mixes(buf[t].contests, cfile) ELSE {})

\* The process ends, with whatever its threads were doing: a write under way
\* may be done in part.
Dies(how) ==
  /\ process' = how
  /\ \E cut \in SUBSET { b \in Banks : Saving(b) # {} } :
       torn' = [b \in Banks |-> torn[b] \/ b \in cut]
  /\ qfile' \in {qfile} \cup UNION { QReads(t) : t \in Saving("questions") }
  /\ cfile' \in {cfile} \cup UNION { CReads(t) : t \in Saving("contests") }
  /\ UNCHANGED <<reqkill, lsock, restarts, memory, overlapped, at, buf, asking, playing, net>>

\* t's save has `text` so far; its iterator goes on to the least of ids, or to the end.
GoesOn(t, text, ids) ==
  \/ \E i \in ids : /\ \A j \in ids : i <= j
                   /\ Goes(t, "copying") /\ buf' = [buf EXCEPT ![t] = [text EXCEPT !.here = i]]
  \/ /\ ids = {}
     /\ Goes(t, "flushing") /\ buf' = [buf EXCEPT ![t] = [text EXCEPT !.here = NoId]]

\* writeQuestions and writeContests: the file is truncated ...
Opens(t) ==
  LET b == BankOf(t) IN
  /\ at[t] = "opening"
  /\ IF b = "questions"
       THEN GoesOn(t, NoText, book) /\ qfile' = {} /\ UNCHANGED cfile
       ELSE GoesOn(t, NoText, DOMAIN contests) /\ cfile' = << >> /\ UNCHANGED qfile
  /\ torn' = [torn EXCEPT ![b] = FALSE]
  /\ overlapped' = [overlapped EXCEPT ![b] = Saving(b) # {}]
  /\ UNCHANGED <<main, memory, asking, playing, net>>

\* ... and the bank put into the stream one by one, read without a lock: what the
\* iterator points at, be it erased meanwhile, and then the next there is by now.
CopiesQuestion(t) ==
  LET text == buf[t] IN
  /\ at[t] = "copying" /\ BankOf(t) = "questions" /\ text.here \in QIds
  /\ GoesOn(t, [text EXCEPT !.book = @ \cup {text.here}], { q \in book : q > text.here })
  /\ UNCHANGED <<main, memory, disk, asking, playing, net>>

With(f, k, v) == [i \in DOMAIN f \cup {k} |-> IF i = k THEN v ELSE f[i]]

\* Contest::serialize: of each contest first the run mark and the questions, then
\* the statistics.
CopiesContest(t) ==
  LET i == buf[t].here IN
  /\ at[t] = "copying" /\ BankOf(t) = "contests" /\ i \in DOMAIN contests
  /\ Goes(t, "tallying")
  /\ buf' = [buf EXCEPT ![t].contests = With(@, i, [contests[i] EXCEPT !.stats = {}])]
  /\ UNCHANGED <<main, memory, disk, asking, playing, net>>

CopiesStats(t) ==
  LET text == buf[t]
      i    == text.here
  IN
  /\ at[t] = "tallying" /\ i \in DOMAIN contests
  /\ GoesOn(t, [text EXCEPT !.contests[i].stats = contests[i].stats],
            { j \in DOMAIN contests : j > i })
  /\ UNCHANGED <<main, memory, disk, asking, playing, net>>

\* A change under those who walk over the bank: what they write is anything.
Disturbs(b, walkers) == overlapped' = [overlapped EXCEPT ![b] = @ \/ walkers # {}]

\* The stream goes to the file by the line, up to close(): undisturbed it is the copy.
Flushes(t) ==
  LET b == BankOf(t) IN
  /\ at[t] = "flushing" /\ Goes(t, IF t \in Clients THEN "answering" ELSE "free")
  /\ buf' = [buf EXCEPT ![t] = NoText]
  /\ IF b = "questions"
       THEN qfile' \in {buf[t].book} \cup (IF overlapped[b] THEN QReads(t) ELSE {}) /\ UNCHANGED cfile
       ELSE cfile' \in {buf[t].contests} \cup (IF overlapped[b] THEN CReads(t) ELSE {}) /\ UNCHANGED qfile
  /\ \E mixed \in {FALSE, overlapped[b]} : torn' = [torn EXCEPT ![b] = mixed]
  /\ UNCHANGED <<main, memory, overlapped, asking, playing, net>>

Saves(t) == Opens(t) \/ CopiesQuestion(t) \/ CopiesContest(t) \/ CopiesStats(t) \/ Flushes(t)

\* The maps are shared without a lock.  What a thread's next step does to one:
Reads(t, b) ==
  \/ at[t] \in {"opening"} \cup Walking /\ BankOf(t) = b
  \/ /\ at[t] = "deciding"
     /\ req[t].op \in IF b = "questions" THEN {"p", "P", "d", "g", "a"}
                                         ELSE {"s", "a", "b", "l", "r"}
Writes(t, b) ==
  \/ at[t] = "changing" /\ BankOf(t) = b
  \/ at[t] \in {"flagging", "recording"} /\ b = "contests"

\* Two steps at once on one map, one of them a write, are undefined, and so is to
\* walk on from an erased question: the process may not outlive them.
Collide ==
  /\ \/ \E b \in Banks : \E t, u \in Threads :
          t # u /\ Writes(t, b) /\ (Reads(u, b) \/ Writes(u, b))
     \/ \E t \in Walkers("questions") : buf[t].here \notin book
  /\ Dies("aborted")

\* An element that is inserted while the tree is changed by another may be lost.
SameTree(r, o) ==
  \/ {r.op, o.op} \subseteq {"p", "d"} \/ {r.op, o.op} = {"s"}
  \/ {r.op, o.op} = {"a"} /\ r.c = o.c
Contended(c) == \E u \in Clients \ {c} : at[u] = "changing" /\ SameTree(req[c], req[u])

----------------------------------------------------------------------------
(* The main thread, and the handshake.                                     *)

\* getpeername fails once the connection was reset: where the name is logged
\* outside a try block, in the thread's own handler, that ends the process.
NoPeer(l) == l \in {"rst", "dead"}

\* The request and the answer are locals of the loop's body.
Forgets(c) == /\ req' = [req EXCEPT ![c] = Fresh.req[c]]
              /\ ans' = [ans EXCEPT ![c] = Fresh.ans[c]]

\* Mutant: the socket outlives the thread.
DropsOpen(c, l) ==
  IF NoPeer(l) THEN Dies("aborted") ELSE
    /\ Goes(c, "gone") /\ Forgets(c)
    /\ UNCHANGED <<main, memory, disk, buf, playing, net>>

\* The thread ends on an exception, which its handler logs.
Drops(c, l) ==
  IF NoPeer(l) THEN Dies("aborted") ELSE
    /\ Goes(c, "gone") /\ Forgets(c) /\ link' = [link EXCEPT ![c] = "closed"]
    /\ UNCHANGED <<main, memory, disk, buf, playing, toServer, asked>>

Accepts(c) ==
  /\ lsock = "listening" /\ at[c] = "queued"
  /\ IF NoPeer(link[c]) THEN Goes(c, "gone") ELSE Goes(c, "greeting")
  /\ UNCHANGED <<main, memory, disk, buf, asking, playing, net>>

\* Accept fails with EINVAL: run() returns, and main() exits.
Stops == lsock = "shutdown" /\ Dies("exited")

Takes(c) == \E rest \in LeftAfterRead(toServer[c]) : toServer' = [toServer EXCEPT ![c] = rest]

ReadsHello(c) ==
  /\ at[c] = "greeting" /\ HasData(toServer[c])
  /\ LET m == Head(toServer[c]) IN
     IF m.op = "garbled" THEN Dies("aborted") ELSE
       /\ Takes(c) /\ ans' = [ans EXCEPT ![c] = IF m.op = "n" THEN "ok" ELSE "error"]
       /\ Goes(c, "welcoming")
       /\ UNCHANGED <<main, memory, disk, buf, req, playing, link, asked>>

\* The empty string is no message, and the ProtoExcept it raises is no
\* std::exception: nothing catches it.
HelloMissing(c) ==
  /\ at[c] = "greeting" /\ (AtEof(link[c], toServer[c]) \/ ReadFails(link[c], toServer[c]))
  /\ Dies("aborted")

\* conn.write(m) of c's thread, after which it stands at `next`; the peer's
\* name is logged, and a failure of either ends the thread.
WritesThen(c, next, logs) ==
  \/ /\ WriteReturns(link[c])
     /\ \E l \in LinkAfterWrite(link[c]) :
          IF logs /\ NoPeer(l) THEN Dies("aborted") ELSE
            /\ link' = [link EXCEPT ![c] = IF next = "gone" THEN "closed" ELSE l]
            /\ Goes(c, next) /\ Forgets(c)
            /\ UNCHANGED <<main, memory, disk, buf, playing, toServer, asked>>
  \/ WriteResult(link[c]) = "Except" /\ Drops(c, link[c])
  \/ WriteResult(link[c]) = "SIGPIPE" /\ Dies("aborted")

AnswersHello(c) ==
  /\ at[c] = "welcoming"
  /\ WritesThen(c, IF ans[c] = "error" THEN "gone" ELSE IF reqkill THEN "gone" ELSE "reading", TRUE)

----------------------------------------------------------------------------
(* The request loop and the handlers.                                      *)

\* The "blank" message for a type without a handler has a zero byte for its type,
\* which its reader takes for the end of the text: it reads as the empty string.
ReadsRequest(c) ==
  /\ at[c] = "reading" /\ HasData(toServer[c]) /\ Takes(c)
  /\ LET m == Head(toServer[c]) IN
     /\ req' = [req EXCEPT ![c] = m]
     /\ ans' = [ans EXCEPT ![c] = IF m.op = "x" THEN "blank" ELSE "error"]
     /\ Goes(c, IF m.op \in {"x", "garbled"} THEN "answering" ELSE "deciding")
  /\ UNCHANGED <<main, memory, disk, buf, playing, link, asked>>

\* Mutant: an empty read is read again.
ClientReset(c) ==
  /\ at[c] = "reading" /\ ReadFails(link[c], toServer[c])
  /\ Drops(c, link[c])

ClientDropped(c) ==
  /\ at[c] = "reading" /\ (AtEof(link[c], toServer[c]) \/ ReadFails(link[c], toServer[c]))
  /\ Drops(c, link[c])

Replies(c, a) == ans' = [ans EXCEPT ![c] = a] /\ Goes(c, "answering")

\* std::stoul of an id that is no number: p, s and r catch an Except only.
Escapes(r) ==
  \/ r.op \in {"p", "P"} /\ r.q = NoId
  \/ r.op \in {"s", "r"} /\ r.c = NoId

\* A question that was added to the contest after it was begun has no
\* statistic to present.
Presentable(c) == contests[c].run => DOMAIN contests[c].qs \subseteq contests[c].stats

HandlerFails(c) ==
  LET r == req[c] IN
  /\ at[c] = "deciding"
  /\ \/ Escapes(r)
     \/ r.op = "r" /\ r.c \in DOMAIN contests /\ ~Presentable(r.c)
     \/ r.op = "k" /\ lsock = "shutdown"   \* the second shutdown() of the socket fails
  /\ Drops(c, link[c])

Found(r) ==
  CASE r.op \in {"d", "g"} -> r.q \in book
    [] r.op = "a"          -> r.c \in DOMAIN contests /\ r.q \in book
    [] r.op \in {"b", "r"} -> r.c \in DOMAIN contests
    [] r.op = "p"          -> r.q \notin book
    [] r.op = "s"          -> r.c \notin DOMAIN contests
    [] r.op = "P"          -> FALSE
    [] OTHER               -> TRUE

\* The title of a posted question that has no end is looked for until the memory is
\* used up.
LooksForEver(c) ==
  /\ at[c] = "deciding" /\ req[c].op = "P" /\ ~Escapes(req[c]) /\ req[c].q \notin book
  /\ Goes(c, "spinning")
  /\ UNCHANGED <<main, memory, disk, buf, asking, playing, net>>

RunsOutOfMemory(c) == at[c] = "spinning" /\ (Drops(c, link[c]) \/ Dies("crashed"))

\* The look-up that opens a handler: what is missing, or there already, is an
\* error; what changes a bank goes on; the rest answers.
Decides(c) ==
  LET r == req[c] IN
  /\ at[c] = "deciding" /\ ~Escapes(r) /\ r.op \notin {"b", "k"}
  /\ r.op = "r" /\ Found(r) => Presentable(r.c)
  /\ IF ~Found(r) THEN Replies(c, "error")
     ELSE IF r.op \in {"p", "d", "s", "a"} THEN Goes(c, "changing") /\ UNCHANGED ans
     ELSE Replies(c, "ok")
  /\ UNCHANGED <<main, memory, disk, buf, req, playing, net>>

\* emplace and erase, which look again.
PostsQuestion(c) ==
  LET q == req[c].q IN
  /\ at[c] = "changing" /\ req[c].op = "p"
  /\ IF q \in book THEN Replies(c, "error") /\ UNCHANGED <<book, overlapped>>
     ELSE /\ \/ book' = book \cup {q}
             \/ Contended(c) /\ UNCHANGED book
          /\ ans' = [ans EXCEPT ![c] = "ok"] /\ Goes(c, "opening")
          /\ Disturbs("questions", Walkers("questions"))
  /\ UNCHANGED <<main, contests, qfile, cfile, torn, buf, req, playing, net>>

\* Mutant: no callback on a deletion.
DeletesQuestionOnly(c) ==
  LET q == req[c].q IN
  /\ at[c] = "changing" /\ req[c].op = "d"
  /\ IF q \notin book THEN Replies(c, "error") /\ UNCHANGED book
     ELSE book' = book \ {q} /\ Replies(c, "ok")
  /\ UNCHANGED <<main, contests, disk, buf, req, playing, net>>

DeletesQuestion(c) ==
  LET q == req[c].q IN
  /\ at[c] = "changing" /\ req[c].op = "d"
  /\ IF q \notin book THEN Replies(c, "error") /\ UNCHANGED <<book, overlapped>>
     ELSE /\ book' = book \ {q} /\ ans' = [ans EXCEPT ![c] = "ok"] /\ Goes(c, "opening")
          /\ Disturbs("questions", Walkers("questions"))
  /\ UNCHANGED <<main, contests, qfile, cfile, torn, buf, req, playing, net>>

\* Mutant: the contest is assigned, not emplaced.
SetsContestAnew(c) ==
  /\ at[c] = "changing" /\ req[c].op = "s"
  /\ contests' = With(contests, req[c].c, NewContest)
  /\ ans' = [ans EXCEPT ![c] = "ok"] /\ Goes(c, "opening")
  /\ UNCHANGED <<main, book, disk, buf, req, playing, net>>

\* emplace leaves a contest that is there by now as it is; what it returns is
\* not looked at.
SetsContest(c) ==
  LET id == req[c].c IN
  /\ at[c] = "changing" /\ req[c].op = "s"
  /\ \/ contests' = IF id \in DOMAIN contests THEN contests ELSE With(contests, id, NewContest)
     \/ Contended(c) /\ UNCHANGED contests
  /\ Disturbs("contests", IF id \in DOMAIN contests THEN {} ELSE Walkers("contests"))
  /\ ans' = [ans EXCEPT ![c] = "ok"] /\ Goes(c, "opening")
  /\ UNCHANGED <<main, book, qfile, cfile, torn, buf, req, playing, net>>

\* The question is a copy: it may be deleted from the book meanwhile.
AddsQuestion(c) ==
  LET id == req[c].c
      q  == req[c].q
      qs == contests[id].qs
  IN
  /\ at[c] = "changing" /\ req[c].op = "a"
  /\ \/ contests' = [contests EXCEPT ![id].qs = IF q \in DOMAIN qs THEN qs ELSE With(qs, q, 0)]
     \/ Contended(c) /\ UNCHANGED contests
  /\ Disturbs("contests", { t \in Walkers("contests") : at[t] = "copying" /\ buf[t].here = id })
  /\ ans' = [ans EXCEPT ![c] = "ok"] /\ Goes(c, "opening")
  /\ UNCHANGED <<main, book, qfile, cfile, torn, buf, req, playing, net>>

\* A session and its thread for a copy of the contest, or no port for one.
BeginsContest(c) ==
  LET id == req[c].c IN
  /\ at[c] = "deciding" /\ req[c].op = "b"
  /\ \/ /\ id \in DOMAIN contests
        /\ \E s \in Sessions :
             /\ at[s] = "free"
             /\ playing' = [playing EXCEPT ![s] = [c |-> id, on |-> DOMAIN contests[id].qs]]
             /\ at' = [at EXCEPT ![s] = "running", ![c] = "answering"]
        /\ ans' = [ans EXCEPT ![c] = "ok"]
     \/ /\ id \in DOMAIN contests => \A s \in Sessions : at[s] # "free"
        /\ Replies(c, "error") /\ UNCHANGED playing
  /\ UNCHANGED <<main, memory, disk, buf, req, net>>

\* Mutant: the listening socket is not shut down.
KillsServerLater(c) ==
  /\ at[c] = "deciding" /\ req[c].op = "k"
  /\ reqkill' = TRUE /\ Replies(c, "ok")
  /\ UNCHANGED <<process, lsock, restarts, memory, disk, buf, req, playing, net>>

KillsServer(c) ==
  /\ at[c] = "deciding" /\ req[c].op = "k" /\ lsock = "listening"
  /\ reqkill' = TRUE /\ lsock' = "shutdown" /\ Replies(c, "ok")
  /\ UNCHANGED <<process, restarts, memory, disk, buf, req, playing, net>>

\* The answer, and the loop's condition.
Answers(c) ==
  LET leaves == req[c].op \in {"q", "k"} \/ reqkill IN
  /\ at[c] = "answering" /\ WritesThen(c, IF leaves THEN "gone" ELSE "reading", leaves)

----------------------------------------------------------------------------
(* The thread of a contest.                                                *)

SessionEnds(s) ==
  /\ at[s] = "running" /\ Goes(s, "flagging")
  /\ UNCHANGED <<main, memory, disk, buf, asking, playing, net>>

SessionTakesAllDown(s) == at[s] = "running" /\ "session" \in Mishaps /\ Dies("aborted")

\* Mutant: the contest is not marked.
SetsRunNot(s) ==
  /\ at[s] = "flagging" /\ Goes(s, "recording")
  /\ UNCHANGED <<main, memory, disk, buf, asking, playing, net>>

SetsRun(s) ==
  /\ at[s] = "flagging" /\ Goes(s, "recording")
  /\ contests' = [contests EXCEPT ![playing[s].c].run = TRUE]
  /\ UNCHANGED <<main, book, disk, buf, asking, playing, net>>

SetsStats(s) ==
  /\ at[s] = "recording" /\ Goes(s, "opening")
  /\ contests' = [contests EXCEPT ![playing[s].c].stats = playing[s].on]
  /\ Disturbs("contests",
              { t \in Walkers("contests") : at[t] = "tallying" /\ buf[t].here = playing[s].c })
  /\ UNCHANGED <<main, book, qfile, cfile, torn, buf, asking, playing, net>>

----------------------------------------------------------------------------
(* The clients, the machine, and the next start.                           *)

Connects(c) ==
  /\ process = "up" /\ lsock = "listening" /\ at[c] = "none"
  /\ Goes(c, "queued") /\ link' = [link EXCEPT ![c] = "open"]
  /\ UNCHANGED <<main, memory, disk, buf, asking, playing, toServer, asked>>

Greets(c) ==
  /\ process = "up" /\ at[c] \in {"queued", "greeting"}
  /\ link[c] = "open" /\ toServer[c] = << >>
  /\ \E m \in Hellos : toServer' = [toServer EXCEPT ![c] = <<m>>]
  /\ UNCHANGED <<main, memory, disk, at, buf, asking, playing, link, asked>>

\* A client asks once it has its last answer.
AsksFor(c) ==
  /\ process = "up" /\ at[c] = "reading" /\ link[c] = "open" /\ toServer[c] = << >>
  /\ asked[c] < MaxRequests /\ asked' = [asked EXCEPT ![c] = @ + 1]
  /\ \E r \in Requests : toServer' = [toServer EXCEPT ![c] = <<r>>]
  /\ UNCHANGED <<main, memory, disk, at, buf, asking, playing, link>>

ClientLeaves(c) ==
  /\ process = "up" /\ link[c] = "open"
  /\ \/ "leave" \in Mishaps /\ link' = [link EXCEPT ![c] = "fin"]
     \/ "reset" \in Mishaps /\ link' = [link EXCEPT ![c] = "rst"]
  /\ UNCHANGED <<main, memory, disk, at, buf, asking, playing, toServer, asked>>

Crashes == "crash" \in Mishaps /\ Dies("crashed")

\* Mutant: and the end of the next one.
WornTwice(cs) == [i \in DOMAIN cs |->
                    [cs[i] EXCEPT !.qs = [q \in DOMAIN cs[i].qs |-> cs[i].qs[q] + 2]]]

\* Contest::deserialize leaves the end of the id's line in the stream: the title
\* of each question comes back with one more line, which held its tags the first
\* time and is empty later.
Worn(cs) == [i \in DOMAIN cs |->
               [cs[i] EXCEPT !.qs = [q \in DOMAIN cs[i].qs |-> cs[i].qs[q] + 1]]]

\* The end of the id's line comes back as a question's tags, and its own tags, the
\* first time, as the first line of its title.  A dot there ends the title, and a
\* title that is empty is refused.
Unreadable(cs) == \E i \in DOMAIN cs : \E q \in DOMAIN cs[i].qs : q \in Dotted /\ cs[i].qs[q] = 0

\* Mutant: the contests are not loaded.
RestartsWithQuestions ==
  /\ process \in {"exited", "aborted", "crashed"} /\ restarts < MaxRestarts
  /\ \A b \in Banks : ~torn[b]
  /\ restarts' = restarts + 1
  /\ process' = "up" /\ reqkill' = FALSE /\ lsock' = "listening"
  /\ at' = Fresh.at /\ buf' = Fresh.buf /\ req' = Fresh.req /\ ans' = Fresh.ans
  /\ link' = Fresh.link /\ toServer' = Fresh.toServer /\ playing' = Fresh.playing
  /\ book' = qfile /\ contests' = << >> /\ overlapped' = [b \in Banks |-> FALSE]
  /\ UNCHANGED <<qfile, cfile, torn, asked>>

\* The constructor reads the banks; one it cannot read it throws on, or reads for ever.
Restarts ==
  /\ process \in {"exited", "aborted", "crashed"} /\ restarts < MaxRestarts
  /\ restarts' = restarts + 1
  /\ \/ /\ \A b \in Banks : ~torn[b]
        /\ ~Unreadable(cfile)
        /\ process' = "up" /\ reqkill' = FALSE /\ lsock' = "listening"
        /\ at' = Fresh.at /\ buf' = Fresh.buf /\ req' = Fresh.req /\ ans' = Fresh.ans
        /\ link' = Fresh.link /\ toServer' = Fresh.toServer /\ playing' = Fresh.playing
        /\ book' = qfile /\ contests' = Worn(cfile)
        /\ overlapped' = [b \in Banks |-> FALSE]
     \/ /\ Unreadable(cfile) \/ \E b \in Banks : torn[b]
        /\ process' = "unusable"
        /\ UNCHANGED <<reqkill, lsock, memory, overlapped, at, buf, asking, playing, link, toServer>>
  /\ UNCHANGED <<qfile, cfile, torn, asked>>

ClientThread(c) ==
  \/ ReadsHello(c) \/ HelloMissing(c) \/ AnswersHello(c)
  \/ ReadsRequest(c) \/ ClientDropped(c) \/ HandlerFails(c) \/ Decides(c)
  \/ LooksForEver(c) \/ RunsOutOfMemory(c)
  \/ PostsQuestion(c) \/ DeletesQuestion(c) \/ SetsContest(c) \/ AddsQuestion(c)
  \/ BeginsContest(c) \/ KillsServer(c) \/ Saves(c) \/ Answers(c)

SessionThread(s) ==
  SessionEnds(s) \/ SessionTakesAllDown(s) \/ SetsRun(s) \/ SetsStats(s) \/ Saves(s)

MainThread == Stops \/ \E c \in Clients : Accepts(c)

ServerStep ==
  /\ process = "up"
  /\ \/ MainThread \/ Collide \/ Crashes
     \/ \E c \in Clients : ClientThread(c)
     \/ \E s \in Sessions : SessionThread(s)

Next ==
  \/ ServerStep \/ Restarts
  \/ \E c \in Clients : Connects(c) \/ Greets(c) \/ AsksFor(c) \/ ClientLeaves(c)

Spec == Init /\ [][Next]_vars

\* The threads are scheduled.
Running(A) == process = "up" /\ A
Fairness ==
  /\ WF_vars(Running(MainThread))
  /\ \A c \in Clients : WF_vars(Running(ClientThread(c)))
  /\ \A s \in Sessions : WF_vars(Running(SessionThread(s)))

LiveSpec == Spec /\ Fairness
----------------------------------------------------------------------------
(* Properties.                                                             *)

\* The threads whose change to a bank is not in its file yet.
Unsaved(b) ==
  { t \in Threads :
      BankOf(t) = b /\ at[t] \in {"recording", "opening", "flushing"} \cup Walking }
Settled(b) == Unsaved(b) = {} /\ ~overlapped[b]

Plain(cs) == [i \in DOMAIN cs |-> [cs[i] EXCEPT !.qs = DOMAIN cs[i].qs]]

\* The banks are written through (src/README.md:466): when no change is on its
\* way to a file, the file holds what the memory holds, unless the last saves
\* overlapped (ContestServer.cpp:321-342, which no lock keeps apart).
WrittenThrough ==
  /\ Settled("questions") => ~torn["questions"] /\ qfile = book
  /\ Settled("contests")  => ~torn["contests"] /\ Plain(cfile) = Plain(contests)

\* Statistics of its own questions only, and only of a contest that was run.
Own(v) == v.stats \subseteq DOMAIN v.qs /\ (v.stats # {} => v.run)

\* While the server is up no step gives a contest statistics that are not its own or
\* that it was not run for, or takes from it what makes them so: the session that
\* hands them over played a copy, and others change the contest meanwhile
\* (ContestServer.cpp:268-271).  The file may hold such a contest, and a start take
\* it over, where a save came between the two setters (Contest.cpp:50 and 56).
StatsAreOfTheContest ==
  [][process = "up" /\ process' = "up" =>
       \A i \in DOMAIN contests' :
          (i \in DOMAIN contests => Own(contests[i])) => Own(contests'[i])]_vars

\* While the server is up no contest is lost, emptied or unmarked, although two
\* clients may set the same one at once (ContestServer.cpp:203-206).
ContestsOnlyGrow ==
  [][process = "up" /\ process' = "up" =>
       \A i \in DOMAIN contests :
          /\ i \in DOMAIN contests'
          /\ DOMAIN contests[i].qs \subseteq DOMAIN contests'[i].qs
          /\ contests[i].run => contests'[i].run]_vars

\* A server that stopped between two changes, for whatever reason, starts again
\* with all it knew (ContestServer.cpp:3-13 and 305-342), or, if a question that
\* was put into a contest since the last start has a dot for its tags
\* (Contest.cpp:76-78, QuestionTitle.cpp:55-57), not at all: never with a part.
SurvivesRestart ==
  [][restarts' # restarts /\ (\A b \in Banks : Settled(b)) =>
       IF Unreadable(contests)
         THEN process' = "unusable"
         ELSE process' = "up" /\ book' = book /\ Plain(contests') = Plain(contests)]_vars

\* A kill request takes the server down (ContestServer.cpp:188-195 and 28-68).
KillStops == reqkill ~> (process # "up")

\* No data is lost in a crash (src/README.md:466): a question that is in the
\* book, and that nobody is posting or deleting, is there after the next start.
NobodyTouches(q) ==
  \A c \in Clients :
    at[c] \in {"changing", "opening", "flushing"} \cup Walking => req[c].q # q
NoDataLoss ==
  [][restarts' # restarts => \A q \in book : NobodyTouches(q) => q \in book']_vars
=============================================================================
