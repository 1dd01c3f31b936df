# A verification of quiznet-v2

This directory holds TLA+ models of the quiz network in `src/` (a server, a
client for contestants, a client for contestmeisters), the TLC configurations
that check them, and TLAPS proofs about them. All paths below are relative to
the repository, whose code is under `src/src` and `src/include`.

## The system

`cserver` keeps a **question book** and a set of **contests** in memory and in
two bank files. A *contestmeister* client posts, reads and deletes questions,
sets contests, adds questions to them, begins, lists and reviews them, and may
kill the server. Beginning a contest opens a **contest session** on a port of
its own: for a minute contestants may join under a nickname, then the questions
are played one round at a time, each round ending with results for everybody,
and the session says goodbye. Its statistics are stored with the contest.

| Component | State | Operations | Talks to |
|---|---|---|---|
| `ContestSession` (`cserver/ContestSession.cpp`) | phase, listening socket, contestants with connection and score, `_stats`, `_max` | `StartSession`, `PlayRound`, `TerminateSession`, `run`, the getters | contestants over TCP; a timer thread, a thread per negotiation, a task per contestant and round |
| `ContestServer` (`cserver/ContestServer.cpp`) | `_qb`, `_contests`, `_reqkill`, listening socket, two bank files | accept loop, handshake, request loop, handlers `p d g q k s a b l r`, load and save | contestmeisters over TCP, one detached thread each; a detached thread per session |
| `ContestantClient` (`contestant/ContestantClient.cpp`) | connection, nickname | `joinContest`, `playAllRounds`, `playRound` | a session |
| `ContestmeisterClient` (`contestmeister/ContestmeisterClient.cpp`) | connection, `_running` | a prompt loop with a handler per request | the server |
| `TcpSocket` (`network/TcpSocket.cpp`) | a file descriptor | `Bind Listen Accept Connect read write Shutdown Close peer` | the kernel |
| `Message`, `Body`, `ProtoError` | none | parse and print | everybody |
| `Contest`, `ContestStats`, `RoundResults` | questions, run mark, counts | change, parse, print, present | server, session |
| `QuizBook` | questions by id, three callbacks | insert, delete, look up, clear, parse, print, compare | server |
| question models (`models/`) | texts | parse, print, present | book, contest, session |
| `Host`, `misc/`, `Except`, the three `main`s | none or the options | resolve, escape, report | everybody |

### What is hard in it

* **Concurrency without locks.** `_stats[qId]++` is executed by the tasks of all
  contestants outside the lock that guards the scores; book and contests are
  shared by all threads of the server with no lock at all; two threads may save
  one bank at once.
* **Exceptions that escape.** `ProtoExcept` does not derive from `std::exception`
  or `Except`; where only those are caught, a peer that closes its connection
  ends the process. `send` is called without `MSG_NOSIGNAL`, so a write to a
  reset connection raises `SIGPIPE`. Asking a reset connection for its peer's
  name throws as well, once inside the handler of an exception.
* **Streams, not messages.** A read returns what has come; the first message is
  parsed and the rest of the chunk dropped.
* **No timeouts** but the joining window: a silent contestant stalls a session.
* **Persistence by truncation.** Each change rewrites a whole bank file.
* **Parsers that go on.** A body may be shorter than its length says; the end of a
  question's title is looked for behind the end of the file, without an end;
  numbers that are missing are taken from what was read before; what separates
  two lines is skipped in one reader and not in another.

The hazards are listed, with their lines, in `PROJECT.json`.

### What makes each component correct

* **Session.** A nickname belongs to one connection and a connection to one
  thread; nobody joins once the rounds began; a round is judged once, for all
  contestants at once; scores, top score and statistics agree with the answers;
  all contestants are told the same; the conversation stays in lock step; with
  contestants that answer, the contest ends; a contestant that leaves does not
  take the session with it (this one does not hold).
* **Client and session together.** The client never meets a message it cannot
  take, never answers what it was not asked, owns the name it sent and shows
  what it was told; both reach the end (unless the first question is lost).
* **Contestmeister and server together.** Each answer meets its request; what a
  program was told is made stays; it is never left waiting, and the server's
  thread ends with it.
* **Server.** File and memory agree when nothing is under way; statistics are
  those of the contest's questions; contests never shrink; what was there comes
  back after a stop between two changes, or, where a question has a dot for its
  tags, nothing does and the server does not start; a kill request ends the
  process; no data is lost in a crash and no client ends the server (these two do
  not hold).
* **Wire.** A connection is a queue of messages as long as no read ends within
  one; each message comes out as it went in, no two are put together, and what is
  sent is read; an error is read as it was raised (this does not hold of one whose
  texts have a dot or an end of line).
* **Banks.** What was saved whole is loaded: the book as it was, the contests with
  their tags moved into their titles. Of a file that was cut the start takes
  whole questions, or whole contests, or fails: it makes nothing up.

## The modules

| Module | What it is |
|---|---|
| `TcpSocket` | what a write and a read do on a connection whose other end is there, closed or reset; which part of a stream one read takes |
| `QuizContest` | the abstract contest: join, begin, judge a round for everybody at once, end |
| `ContestSession` | one session and the contestants' ends of its connections |
| `MCContestSession` | its instances for TLC |
| `ContestSessionProofs` | its types, who owns what, the scores and what is told of them, and the abstract contest it implements |
| `ContestSessionTurns` | its conversations are in lock step |
| `ContestPlay` | `ContestantClient` composed with a session: it reuses the session's actions for the server's side and replaces the free contestants by the client's code |
| `MCContestPlay` | its instances |
| `ContestPlayProofs` | client and session: types, places, names, and that no client is confused |
| `ContestPlayResults` | what a client shows is what it was told |
| `ContestServer` | the server: main thread, client threads, session threads, banks, crash and restart |
| `MCContestServer` | its instances |
| `ContestServerProofs` | its types, that the banks are written through, and what its contests keep |
| `ContestMeister` | `ContestmeisterClient` composed with the server: it reuses the server's actions and replaces its free clients by the prompt loop |
| `MCContestMeister` | its instances |
| `ContestMeisterProofs` | types, answers that belong, and that what is told is made |
| `Message` | the text of a message and its parser, over bytes |
| `ProtoError` | the text of an error and its parser |
| `Channel` | the abstract connection: a queue of messages, up to the first read that ends within one |
| `Wire` | `TcpSocket::write` and `read` over a stream of bytes that arrive in any parts |
| `MCWire` | its instance |
| `WireProofs` | its types, that it is a channel, and that errors are read back |
| `BankText` | the texts of the two banks, written and read over words, blanks and ends of lines |
| `Bank` | changes, saves, the end of the process and the next start, over these texts |
| `MCBank` | its instance |
| `BankProofs` | what is read of a book, and of contests, that were written, whole or in part |

### ContestSession

One action per step of a thread that another thread can observe: a write, a
read, a critical section, the load and the store of `_stats[qId]++`, the join of
the threads. `pc` is the place of the thread that called `run()`, `nego[c]` of
the negotiation of connection `c`, `task[n]` of the task of contestant `n` in
this round, `timer` of the thread that ends the window. `todo` is the sequence
of public calls still to make, so that calls in the wrong state are modelled as
well as `run()`. `process` says whether an exception that leaves a negotiation
thread, or a signal, ended the process; an exception that leaves `PlayRound` or
`TerminateSession` leaves the owner at `"threw"`. A contestant may join, answer
anything or nothing, acknowledge, send what the server cannot parse, leave or
reset, as `Faults` allows.

`QuizContest` is what the session promises. `PlaysTheContest` maps the session
to it: a round is judged at the step at which the owner has found every future
ready; until then the points that its tasks have given already are taken off.

### ContestPlay

`client[c]` is the place of the program of connection `c`, `name` its
`name_buffer`, `shown` the results it printed last. What the user types is
nondeterministic; the uninitialised `choice_valid` lets the loop end on any
letter. A client may be interrupted (`Quitters`).

### ContestServer

`at[t]` is the place of a client's or session's thread. A handler is split where
another thread may come between: the look-up (`Decides`), the change
(`PostsQuestion`, `DeletesQuestion`, `SetsContest`, `AddsQuestion`, `SetsRun`,
`SetsStats`), the save (`Saves`), the answer (`Answers`). A save truncates the file
(`Opens`), walks over the bank, and closes the stream (`Flushes`). The walk has a
step per question (`CopiesQuestion`) and two per contest, since
`Contest::serialize` reads the run mark and the questions first (`CopiesContest`)
and the statistics last (`CopiesStats`), and no lock keeps a session from setting
both in between. `buf[t].here` is what the walk's iterator points at.
Two such steps at once on one map, one of them a write, are undefined: the
process may abort (`Collide`, which is also where a walk goes on from a question
that was erased), and an insertion may be lost (`Contended`).
A posted question whose title has no end keeps its thread busy until the memory
is used up (`LooksForEver`, `RunsOutOfMemory`). `Dies` ends the process wherever
its threads are; of a bank that was being written the next start may read a
part, as `Bank` shows (`Heads`, `Whole`), or nothing at all (`torn`).
`overlapped[b]` is true from the moment a save of bank `b` began while another was
under way, or the part of the bank a save stood at was changed (`Disturbs`), until
one begins alone. Such a save leaves a mixture (`QReads`, `CReads`), since
`std::endl` flushes and the lines of two saves alternate in the file: any of the
questions, the run mark and the statistics of what was saved may stand under any of
the contests (`Blends`, `Mixes`), and the bank may be unreadable.
`Restarts` is the next start. It does not succeed if a bank is `torn`, or if a
question that was put into a contest since the last start has a dot for its tags
(`Unreadable`; `Dotted` are these questions): its tags are read for its title then,
which an empty title is refused for, as `Bank` shows. A session is seen from
outside: it runs, and ends with statistics or takes the process down.

### ContestMeister

`client[c]` is the place of the program at the other end of connection `c`,
`peer[c]` and `toClient[c]` its view of that connection, `want[c]` the request it
waits for the answer of, `told[c]` what it was told is made. `Delivered` says what
a step of the server does to the clients' ends: an answer arrives, a connection
is closed. `Trips` are the lines on which the program ends before it sends
anything: `std::stoul` of what is no number, `substr(2)` of a lone letter, a
question that does not parse. No contest is played meanwhile and the machine
does not crash, so that `told` can be held against the banks; both are the
business of `server`.

### Message, ProtoError, Wire and Channel

A text is a sequence of bytes, so that a read may end anywhere. `stream` holds the
bytes ever written; `arrived`, `taken` and `start` are positions in it: how far
the kernel delivered, what the reader took, and where the read under way began.
`Receives` is one `recv` of at most `Buf` bytes, cut at a zero byte as the C
string it is turned into; a chunk that fills the buffer is not the last one.
`received` is what the reads were parsed to, up to the first that ended within a
message (`cut`).

`Channel` is what the other modules rely on: a read takes the first message
that is pending and may lose whole messages behind it, which is `LeftAfterRead`
of `TcpSocket`. `ChannelSpec` shows that `Wire` implements it until a read ends
within a message; that read returns the message's type with a part of its body,
or of the digits of its length (the parser takes the text after the type for the
body when no end of line came), or no message at all. After it, nothing is
promised, and nothing can be: the rest of the message is read as the next one.
The composed modules therefore describe conversations whose messages are not
split; their messages are short, and TCP does not split what one `send` wrote
into an empty window, but the code does not guarantee it.

### BankText and Bank

A text of a bank is a sequence of words, blanks and ends of lines, the things
`getline` and `>>` tell apart. Reading returns what was read and the stream's
position, or how it ended otherwise: with an exception, or not at all. `Then`
chains the readers in the order of the constructors: a question is tags, title,
choices and solution. `Bank` makes one change after another; `Saves` leaves the
file whole, or its head, at any word, with the process ended. `saved` and `how`
remember what was saved and how that went, so that the properties can say of each
file what the next start would make of it.

What it shows: a book that was saved is loaded as it was, whatever was posted; of
a book that was cut, the start takes the first questions unaltered, or it throws
or does not come to an end. The contests lose the tags of their questions to the
titles at the first load and get one empty line more in front at each further one,
since `Contest::deserialize` does not skip the end of the id's line; a question
whose line of tags is a single dot makes the bank unreadable, since an empty title
is refused. Contests that were cut in the line of their count load as none, without
a word; cut in the last statistics they may load with made up ones, because a
number that is missing is taken to be the one before; in between they throw, or
the search for a title does not end.

## The runs

| Run | Expected | Properties |
|---|---|---|
| `session` | pass | `TypeOK`, `OneReaderPerConnection`, `MaxIsBestScore`, `StatsInvented`, `ResultsAddUp`, `ResultsAgree`, `LockStep`, `RosterFrozen`, `PlaysTheContest` |
| `session_leave` | violation | `SurvivesLeaving`: a contestant that leaves ends session and server |
| `session_count` | violation | `StatsCountRightAnswers`: the unlocked counter loses a right answer |
| `session_stall` | violation | `StartsAfterWindow`: a connection that was accepted and stays silent delays the contest for ever |
| `play` | pass | `PlayTypeOK`, `InStep`, `NeverConfused`, `NameIsMine`, `ShowsWhatItWasTold`, `PlayedOut` |
| `play_lost` | violation | `NobodyWaitsInVain`: OK and first question in one read |
| `server` | pass | `TypeOK`, `WrittenThrough`, `StatsAreOfTheContest`, `ContestsOnlyGrow`, `SurvivesRestart` |
| `server_lost` | violation | `NoDataLoss`: a crash between truncation and write |
| `meister` | pass | `MeisterTypeOK`, `AnswersMatch`, `ToldIsMade`, `NeverLeftWaiting`, `ThreadsEnd`, `KillStops`, `SurvivesRestart` |
| `wire` | pass | `WireTypeOK`, `PlainErrorsSurvive`, `ChannelSpec`, `ReadsCatchUp` |
| `wire_errors` | violation | `ErrorsSurvive`: the extra text behind a message that ends with a dot is lost |
| `bank` | pass | `BankTypeOK`, `WholeBookLoads`, `CutBookLoadsInPart`, `WholeContestsLoad`, `CutContestsLoadWhole` |

`WrittenThrough` and `SurvivesRestart` speak of the moments in which no thread
has a change on its way to a file and the last save was neither overlapped by
another nor disturbed by a change: otherwise memory and file differ by design, or
may differ until the next save, as no lock keeps two threads apart.
`StatsAreOfTheContest` is about the memory of one process: a file that was saved
between `SetsRun` and `SetsStats`, by a thread that had read the run mark before and
reads the statistics after them, has statistics of a contest that was not run, and a
start may take it over if the process ends before the session saves.

`StartsAfterWindow` speaks of behaviours in which nothing more is said on any
connection from some moment on (`AllIsSaid`), so that it is not refuted by a nickname
that is refused and asked for again without an end, and is content with a session that
runs and with one that was ended. What refutes it is a connection that was accepted
inside the window, whose negotiation reads for ever.

### Bounds

* `session`: two connections, two nicknames (so that they may collide), two
  questions (so that what a round leaves behind meets the next one), two
  letters, every fault, and the misuses of the public calls. Connections are
  interchangeable, hence the symmetry.
* `play`: two clients, two nicknames (which they may both ask for, so that one is
  refused for as long as it likes), two questions; one may be interrupted.
* `server`: two clients with two requests each, two session threads, one
  question, one contest, one restart, every mishap. Every race needs two threads and
  one element; the longest story of interest (set, add, begin, add or review while
  the session ends, crash, restart) takes four requests. Clients and sessions
  are interchangeable. `FirstBook` is what the bank holds at the first start, so
  that the requests are spent on what follows. `OneMishap` bounds what may go wrong at
  once: a client that left is followed to the end of its thread only where the other is
  not there, while sessions go on; what leaves do to one another, and to requests under
  way, is the business of `meister`. No tags are a dot here.
* `meister`: two programs, one with two requests (something is made, then undone,
  added to, looked at or left, or the server killed), one that looks or kills the server
  whatever the other is doing, both interrupted at any time, one restart. There are two
  questions, the second of which has a dot for its tags and may be put into the contest:
  a start then finds all, or does not succeed. `ToldIsMade` speaks of the states in
  which only one program was started so far: of two, either may undo what the
  other was told.
* `wire`: a buffer of four bytes instead of 4096, and messages of one, two and more
  buffers, so that chunks fill it exactly, fall short of it and end with it; two
  messages, the second of which may be written before the first was read; an
  empty body, the message with the zero byte, one whose body begins with a digit,
  an error whose message ends with a dot, as two of the server's do, and one with plain
  texts. `wire_errors` is the same with one message.
* `bank`: five changes and two starts are enough to post two questions, set a
  contest, add a question and store its statistics, or to load what was loaded
  before. One question as the tests write it, one with no tags and a number and an
  empty line in its title, one with a dot for its tags and three choices; every
  head of a question as a post's body, and bodies with a line missing. Every cut
  at a word. Numbers stay below ten.
* A run that is expected to be violated is the smallest that shows it.

`CHECK_DEADLOCK FALSE` stands where the system may really stop: a server whose
clients have no requests left, a session that lost its first question, a bank
whose changes and starts are used up.

### Fairness

Weak fairness for every thread of a server that is up: threads are scheduled,
and a blocking call that can return does. `LiveSpec` of the session adds that a
contestant that was spoken to answers, since the code has no timeout and
promises nothing otherwise; `FairPlay` asks of a client that it reads what has
come and of its user that a letter is chosen. `FairMeister` asks of a program that
it reads what has come and of the kernel that it closes what an ended program
left open; nobody need type anything. `LiveSpec` of `Wire` asks that bytes arrive or
are read as long as either is possible, which neither can go on with alone for
ever; the writer may stop. Nothing is assumed of clients that
connect, leave or ask, of mishaps, or of restarts.

## The proofs

Every theorem holds for all values of the constants that satisfy the named
assumptions, which TLC evaluates in every run: any number of connections,
nicknames, questions, contests, threads, requests and restarts, any script of calls
and any set of faults. The nicknames must be finitely many; nothing else is bounded.
`Wire` is proved for messages and numbers of any length and a buffer of any size. It
assumes of what is written that a body is text, without a zero byte
(`TextAssumption`), and that errors are those of `ProtoError::Types`
(ProtoError.cpp:111-127): their symbol is one line, and their message has a dot at
its end or nowhere (`RaisedAssumption`). A message's type may be any byte, zero too.
`Bank` is proved for any books, contests and posted texts. It assumes that numbers are
written as words of which no two are the same (`WordAssumption`), and that those there
are to write, ids, counts, scores, and how many questions and contests there are, are
not above the largest, as those of the code are not above 32 bits
(`NumbersAssumption`).

| Module | Theorem | States |
|---|---|---|
| `ContestSessionProofs` | `TypeCorrect` | `Spec => []TypeOK` |
| | `ConnectionsOwned` | `Spec => []OneReaderPerConnection` |
| | `NobodyJoinsLate` | `Spec => RosterFrozen` |
| | `MaxCorrect` | `Spec => []MaxIsBestScore` |
| | `StatsCorrect` | `Spec => []StatsInvented` |
| | `RunPlaysTheContest` | a session driven by `run()` implements `QuizContest` |
| | `ScoresToldAddUp` | `Spec => []ResultsAddUp` |
| | `ResultsToldAgree` | `Spec => []ResultsAgree` |
| `ContestSessionTurns` | `ConversationInLockStep` | `Spec => []LockStep` |
| `ContestPlayProofs` | `PlayTypeCorrect` | `PlaySpec => []PlayTypeOK` |
| | `ClientsUnderstand` | `PlaySpec => []NeverConfused` |
| | `NamesAreOwned` | `PlaySpec => []NameIsMine` |
| | `PlayedInStep` | `PlaySpec => []InStep` |
| `ContestPlayResults` | `ShownIsTold` | `PlaySpec => []ShowsWhatItWasTold` |
| `ContestServerProofs` | `TypeCorrect` | `Spec => []TypeOK` |
| | `BanksWrittenThrough` | `Spec => []WrittenThrough` |
| | `RestartGivesAllOrNothing` | `Spec => SurvivesRestart` |
| | `NoContestShrinks` | `Spec => ContestsOnlyGrow` |
| | `StatsBelong` | `Spec => StatsAreOfTheContest` |
| `ContestMeisterProofs` | `MeisterTypeCorrect` | `MeisterSpec => []MeisterTypeOK` |
| | `AnswersBelong` | `MeisterSpec => []AnswersMatch` |
| | `WhatIsToldIsMade` | `MeisterSpec => []ToldIsMade` |
| `WireProofs` | `WireTypeCorrect` | `Spec => []WireTypeOK` |
| | `WireIsChannel` | `Spec => ChannelSpec`: `Wire` implements `Channel` |
| | `ErrorsReadBack` | `Spec => []PlainErrorsSurvive` |
| `BankProofs` | `WholeBooksLoad` | `Spec => []WholeBookLoads` |
| | `CutBooksLoadInPart` | `Spec => []CutBookLoadsInPart` |
| | `BankTypes` | `Spec => []BankTypeOK` |
| | `WholeContestsAreLoaded` | `Spec => []WholeContestsLoad` |
| | `CutContestsLoad` | `Spec => []CutContestsLoadWhole` |

Two of them are narrower than the rest. `RunPlaysTheContest` assumes that the
only script is the one of `run()`. The theorems of `ContestMeister` carry its
`QuietAssumption`: no contest is played meanwhile and the machine does not crash.

### The session

`TypeOK` is not inductive: `_stats[qid]` is only a count if `qid` is a question
while a task runs. `Shape` says which places of the owner go with which phase,
call and tasks; `Typed == TypeOK /\ Shape` is inductive (one lemma per action). The
other invariants are proved on top of it, each with its own strengthening:

* `Registered` adds to `OneReaderPerConnection` that a thread still negotiating
  does so in the window, that is while the session is starting: the only step
  that adds a reader therefore happens when no round reads.
* `Scores` adds to `MaxIsBestScore` that all scores are zero before the rounds.
* `Counts` adds to `StatsInvented` that a task which has loaded the unlocked
  counter and not yet stored it holds at most the number of those that are
  counted (and is not counted itself), that no question is played twice, and that
  the statistic of a question still to be played is zero: a lost increment
  lowers a count, nothing raises it.
* `Program`, for the refinement, says that between two calls those still to make
  are the tail of `run()`'s script that begins with the next question.
* `Turns`, for `LockStep`, says whose turn it is: while the session does not wait
  for a contestant, nothing is under way on its connection but perhaps the OK of
  the handshake. Without it a write might find an older message still there.
* `Ledger` adds to `ResultsAddUp` that a score is the number of rounds told as
  right, plus one for a round that was judged and not told yet: the score is
  raised by a task, long before the results go out.
* `Chorus` adds to `ResultsAgree` that all contestants were told equally often, or
  once more if the owner's loop has passed them, and that the results told last are
  made of what the next ones will be made of. That the loop may stop half way, at
  `"threw"`, is why the equality of the lists themselves is no invariant.

### The contestant's program

`Staged` is the conversation itself: for each place of the client (`naming`,
`greeting`, `waiting`, `choosing`, `judging`, `done`), what is on its way on either
side of the connection, and where its contestant stands with the session, whether
its task reads (`Reading`), the owner owes it the results (`Owed`), waits for it to
take them (`Acking`) or for its leave (`Leaving`), or wants nothing (`Idle`). All of
`NeverConfused`, `NameIsMine` and `InStep` follow from it. It is needed whole: that a
client is not confused by the next message depends on what the session sends, that
on where its owner is, and that on what the client said before. The proof shows that a
step of the server is `Apart` from all contestants but the one it speaks with, and
treats that one connection action by action; a client's step is treated likewise.

`Following` adds to `Staged` what was told: a client that is there shows the last results
but for those under way. The difficulty is the client that left. It may be one
behind only where the session waits for its acknowledgement and will find the
connection closed, or where the session knows already that it is dead
(`Unheard`): in either case the next write to it ends the process, or the
next read the contest, so that it never falls behind by two.

### The server and the contestmeister

* `WellTyped` adds to `TypeOK` that a thread changes a bank only for a request that
  names what it changes (`Known`). A title has at most as many lines too many as there
  were restarts.
* `Through` adds to `WrittenThrough` that saves nothing disturbed come one after the
  other, and that what the last has copied is the part of the bank its walk has been
  through (`UpToDate`), unless a change made since is about to be saved (`Opening`).
  Which thread changed the bank does not matter, which one opened the file last does.
  It also says that the file has a contest no start can read exactly if the memory has,
  which `SurvivesRestart` needs: `Unreadable` is asked of the file by the start, and of
  the memory by the property.
* `ContestsOnlyGrow` needs the types alone: each way to change the map is monotone
  (`KeptIn`), a lost insertion too, since what is lost was not in the map yet.
* `Recorded`, for `StatsAreOfTheContest`, says of a session that its contest is there,
  has all the questions it was begun with, and is marked as run when the statistics
  come (`Played`). That contests only grow is what keeps it true while a session plays.
  Nothing of the kind can be said of files and buffers, where a save may have met the
  contest between the two setters.
* `Conversing`, for `AnswersMatch`, relates the two ends of each connection: the
  program's request is in one stream, in its thread or answered in the other,
  and in one of them only; to a program at its prompt nothing is on its way.
* `Relied`, for `ToldIsMade`, follows an OK from the change to the reading
  (`Honest`), a deletion from the sending to the change (`Withdrawn`), and says that
  while one program only was started no saves overlap and no file is torn
  (`Undisturbed`), so that a restart gives everything back.

### The connection

The first half is about texts. `NumberOfDecimal` says that the digits written for the
length of a body are read as that number, which is an induction over numbers;
`LeastNatural` and `Induction` say it of sets of numbers, so that no theorem with an
operator for its parameter is needed. `WholeIsRead` concludes that a message followed
by anything is read as itself, since the parser takes as many bytes as the length
says, and `PartIsShort` that of a message cut anywhere the parser makes the type and
a head of the body, or of the length's digits, or no message. `ErrorIsRead` walks
through the fields of an error with the parser and says what is left of any of them
(`Shown`: each text up to its first dot or end of line, and no extra text behind a message
that was cut); `PlainErrorIsRead` concludes that plain texts are left whole.

The second half is about steps. `IInv` adds to `WireTypeOK`

* `Laid`, that message `i` lies in the stream where `ends` says, and that `ends` grows:
  without it nothing is known of the bytes a read takes;
* `NoZeros`, that what a read took before its last chunk has no zero byte. A chunk
  is taken as a C string, and a read goes on only if that string filled the buffer.
  A zero byte can therefore only be the type of a message in the last chunk, and the
  text is cut there: what is in front of it are whole messages or nothing;
* `InOrder`, that until a read ended within a message every read began where one
  begins, which is what makes `TakenMessages` the number of messages gone;
* `Told`, that until then each message received is one that may be sent or none at
  all, which `PlainErrorsSurvive` needs.

For the refinement the messages behind `start` are those pending in the channel. A
step that arrives, or goes on reading, stutters; a read that ends where a message
ends is `Take`, whatever it drops behind the first; one that ends elsewhere is
`TakePart`; after it `AnythingGoes`.

### The banks

The readers are loops over lines, entries or pairs; each is a function of how often
the loop was entered, and what is proved of a loop is proved for every number of times
by the induction over sets of numbers that the connection uses. The lemmas come in pairs:

* *Where things are.* `Layout` and `BookLayout` say at which place of the text each
  part of a question and each entry of a book is. `Flattened` gives the offsets of
  texts put one behind the other.
* *What is made of them.* The lemmas on reading take any text `s` that agrees with the
  one that was written up to the end of `s`: a file that was cut. `TitleIsRead`,
  `ChoicesRead` and `QuestionIsRead` conclude that the part is read as it was if its last
  word is there, and not at all otherwise. The exception is the title: if it was cut
  just behind a line that is a dot by chance, it is read, with nothing left behind
  it (`TitleIsCut`), and the choices are then missing.

That a title has no line with a dot is not assumed: `TitleTypes` and `QuestionTypes` say
of every text that what is read from it has the form the writers need (`Questions`), so
that whatever a post was accepted with, and whatever a start made of a file, is written
in a way that is read back. `BookInv` carries that through the steps: memory and what
was saved are `Books`, the file is the text of what was saved, or begins it.
`WholeBookIsRead` and `CutBookIsPart` then are the two theorems of the book.

The contests are read otherwise: every loop is told a number first, and counts. It goes
on to count when the text has ended, and a number that is missing may be the one before.
So of each part there are two lemmas:

* *The words are there*: `OneQuestionRead`, `QuestionsRead`, `PairsRead`, `StatsRead`,
  `OneContestRead` and `ContestsRead` give what is read and where the next reader
  begins, by the offsets of the text (`LaidFrom`, `StatsAt`, `ContestLies`,
  `ContestsLie`). The value is worn: the end of the id's line is read as an empty
  line of tags, so that what is read is the question whose text is that end and the text
  written (`WornText`). It is a question again unless the tags are a dot (`WornTypes`),
  and the same is therefore true at every further start.
* *Words are missing*: no question is read whose last word is missing, so that a loop
  over questions never ends in "read" with one too few. Statistics may be read none the
  less (`StatsTypes`, `AgainReads`), but then the text has ended, and a contest behind it
  ends its reader (`ContestCutEarly`, `NoContest`): only the last contest of a file that
  is loaded may have statistics nobody stored.

`ContestsLoad` joins both for the whole text, an empty file and a missing count
included. `BankInv` is `BookInv` with `ContestsInv`, the same of the contests, and
`IdsInv`, that no id is in a book but those there are; a start needs for the second
that what it loads of a file that was cut are again contests (`WhatLoads`), with counts
that can be written, which no store checks. `BankTypeOK` follows from it by `QuestionsOK`.

### What is left to TLC

* Liveness (`PlayedOut`, `KillStops`, `NeverLeftWaiting`, `ThreadsEnd`,
  `ReadsCatchUp`): the backends do not reason about `ENABLED`.
* The six properties that the code does not have, each of which TLC refutes.

## What is not modelled

* Texts that are only shown: listings, reviews, results, menus and logs, with the
  averages and percentages in them; the text of a `RoundResults`, which is a record.
* Words that are cut: a file is cut between two words. A number cut within leaves
  another number: of a book the last question then has no text behind its id, of
  contests the count or the last statistic is a smaller one.
* What lines of two overlapping saves make of a bank, beyond which questions, contests,
  run marks and statistics may be in it: a mixture may read as a question nobody wrote.
* Operations nothing in the programs calls: `QuizBook::findFreeId`,
  `getRandomQuestion` and `clear` with a callback (which would save the book before
  it is emptied), the comparisons (`QuizBook::operator==` returns true for books that
  differ, QuizBook.cpp:180), `TcpSocket::write` of a stream, constructors from strings.
* Ids are numbers of any size: that one above 32 bits is cut is left out.
* `Host` and `misc/`: no state, no protocol. The options of the three `main`s. The
  tests and their harness.
* Memory exhaustion but for the search that has no end, full disks, and threads
  that cannot be made.
* The thread of a contest refers to the handler's `cid` after the handler returned
  (ContestServer.cpp:262-273): what it reads goes into two log lines only.
* The error `UNKREQ` is built for a request without a handler and not sent; what is
  sent instead is modelled (`ReadsRequest` of `ContestServer`, `NoMessage` in `Wire`).

## Plan

1. *(done)* `ContestSession`, its abstract contest, its first proofs.
2. *(done)* `ContestPlay`: the contestant's program against the session.
3. *(done)* `ContestServer`: threads, banks, crash, restart, kill.
4. *(done)* `ContestMeister`: the contestmeister's prompt loop composed with the server.
5. *(done)* `Wire`: `Message`, `Body`, `ProtoError` and `TcpSocket::read` over
   streams of bytes, and the channel they implement.
6. *(done)* `Bank`: the bank formats and the question parsers over words.
7. *(done)* Proofs about the session, the contestant's program, the server and the
   contestmeister: all of their safety properties.
8. *(done)* Proofs about `Wire`: what is written comes out as it went in, and the
   channel it implements.
9. *(done)* Proofs about `Bank`: its types, and what the next start makes of a book and
   of contests, whole or cut.
10. The *store* (below), and that the server implements it.

Abstract specifications: the contest and the channel (done); a *store* of questions
and contests with atomic operations and a durable copy, which the server implements
where its saves do not overlap.
