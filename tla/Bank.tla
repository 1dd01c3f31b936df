-------------------------------- MODULE Bank --------------------------------
(***************************************************************************)
(* What the two bank files hold, word by word, and what the next start     *)
(* makes of it (src/src/cserver/ContestServer.cpp:305-342 over the texts   *)
(* of BankText).  ContestServer has the threads, and says of a file only   *)
(* which questions and contests it holds and whether it is whole; here one *)
(* change follows another, and a save is done, or cut by the end of the    *)
(* process; saves that overlap are left to ContestServer.                  *)
(***************************************************************************)
EXTENDS BankText

CONSTANTS QIds, CIds,              \* the ids of questions and of contests
          Posted,                  \* the posts: an id and the text behind it
          Counts,                  \* how many contestants a contest had, or answered right
          MaxChanges, MaxStarts    \* how often a bank is saved, the server started again

\* No number there is to write is too large.
ASSUME NumbersAssumption ==
  /\ QIds \cup CIds \cup Counts \subseteq 0..MaxNumber
  /\ Cardinality(QIds) <= MaxNumber /\ Cardinality(CIds) <= MaxNumber
  /\ \A k \in Counts : \A n \in 0..Cardinality(QIds) : k * n <= MaxNumber
ASSUME PostsAssumption == \A post \in Posted : post[1] \in QIds /\ post[2] \in Seq(Range(post[2]))
ASSUME BoundsAssumption  == MaxChanges \in Nat /\ MaxStarts \in Nat

VARIABLES process,         \* "up", "ended", or "failed" to start
          changes, starts,
          book, contests,  \* _qb and _contests
          file,            \* the two files
          saved, how       \* history: what was saved last, and how that went

vars == <<process, changes, starts, book, contests, file, saved, how>>

Banks  == {"questions", "contests"}
Memory == [questions |-> book, contests |-> contests]
Text(bank, value) == IF bank = "questions" THEN BookText(value) ELSE ContestsText(value)
Empty == [b \in Banks |-> << >>]

\* The type invariant.  Every question has two or more choices and the letter of
\* one of them, and a title that is read back as it is: nothing else is ever
\* accepted, by a post or a start.
BankTypeOK ==
  /\ process \in {"up", "ended", "failed"} /\ changes \in 0..MaxChanges /\ starts \in 0..MaxStarts
  /\ DOMAIN book \subseteq QIds /\ DOMAIN contests \subseteq CIds
  /\ \A c \in DOMAIN contests : DOMAIN contests[c].qs \subseteq QIds
  /\ \A q \in { book[i] : i \in DOMAIN book }
             \cup UNION { { contests[c].qs[i] : i \in DOMAIN contests[c].qs } : c \in DOMAIN contests } :
       /\ q.choices \in 2..Len(Letters) /\ \E k \in 1..q.choices : q.solution = Letters[k]
       /\ TitleFrom(q.title \o <<EOL, Dot, EOL>>, 1) = Read(q.title, Len(q.title) + 4)
  /\ how \in [Banks -> {"none", "whole", "cut", "read"}]

\* The first start, in an empty directory.
Init ==
  /\ process = "up" /\ changes = 0 /\ starts = 0 /\ book = << >> /\ contests = << >>
  /\ file = Empty /\ saved = Empty /\ how = [b \in Banks |-> "none"]

Leaves(bank, text, kind) == file' = [file EXCEPT ![bank] = text] /\ how' = [how EXCEPT ![bank] = kind]

\* writeQuestions and writeContests: the file is truncated and written.  The
\* process may end when only the head is in it.
Saves(bank, value) ==
  LET text == Text(bank, value) IN
  /\ changes < MaxChanges /\ changes' = changes + 1 /\ saved' = [saved EXCEPT ![bank] = value]
  /\ \/ Leaves(bank, text, "whole") /\ UNCHANGED process
     \/ \E k \in 0..(Len(text) - 1) : Leaves(bank, SubSeq(text, 1, k), "cut") /\ process' = "ended"

----------------------------------------------------------------------------
(* The handlers, and the end of a contest.                                 *)

\* p: an id that is in use, and a body that is no question, change nothing; one
\* whose title has no end keeps the handler busy for ever.
Posts(id, body) ==
  LET q == QuestionFrom(body, 1) IN
  /\ process = "up"
  /\ IF id \notin DOMAIN book /\ q.end = "read"
       THEN book' = Emplaced(book, id, q.value) /\ Saves("questions", book')
       ELSE UNCHANGED <<process, changes, book, file, saved, how>>
  /\ UNCHANGED <<starts, contests>>

Without(f, k) == [i \in DOMAIN f \ {k} |-> f[i]]

\* d
Deletes(id) ==
  /\ process = "up" /\ id \in DOMAIN book
  /\ book' = Without(book, id) /\ Saves("questions", book')
  /\ UNCHANGED <<starts, contests>>

\* s
SetsContest(c) ==
  /\ process = "up" /\ c \notin DOMAIN contests
  /\ contests' = Emplaced(contests, c, [qs |-> << >>, run |-> FALSE, stats |-> NoStats])
  /\ Saves("contests", contests')
  /\ UNCHANGED <<starts, book>>

\* a
AddsQuestion(c, id) ==
  /\ process = "up" /\ c \in DOMAIN contests /\ id \in DOMAIN book
  /\ contests' = [contests EXCEPT ![c].qs = Emplaced(@, id, book[id])]
  /\ Saves("contests", contests')
  /\ UNCHANGED <<starts, book>>

\* The thread of a contest that was begun with all its questions.
StoresStats(c, n, k) ==
  /\ process = "up" /\ c \in DOMAIN contests /\ k <= n
  /\ contests' = [contests EXCEPT ![c].run = TRUE,
       ![c].stats = [contestants |-> n, highest |-> k * Cardinality(DOMAIN contests[c].qs),
                     set |-> [q \in DOMAIN contests[c].qs |-> k]]]
  /\ Saves("contests", contests')
  /\ UNCHANGED <<starts, book>>

Ends == process = "up" /\ process' = "ended" /\ UNCHANGED <<changes, starts, book, contests, file, saved, how>>

\* The constructor: loadQuestions, then loadContests; an exception leaves main,
\* and a title without an end is looked for until the memory is used up.
Starts ==
  LET qs == ReadBook(file["questions"])
      cs == ReadContests(file["contests"])
  IN /\ process = "ended" /\ starts < MaxStarts /\ starts' = starts + 1
     /\ IF qs.end = "read" /\ cs.end = "read"
          THEN /\ process' = "up" /\ book' = qs.value /\ contests' = cs.value
               /\ how' = [b \in Banks |-> "read"]
               /\ saved' = [questions |-> qs.value, contests |-> cs.value]
          ELSE process' = "failed" /\ UNCHANGED <<book, contests, how, saved>>
     /\ UNCHANGED <<changes, file>>

Next ==
  \/ \E post \in Posted : Posts(post[1], post[2])
  \/ \E id \in QIds : Deletes(id) \/ \E c \in CIds : AddsQuestion(c, id)
  \/ \E c \in CIds : SetsContest(c) \/ \E n, k \in Counts : StoresStats(c, n, k)
  \/ Ends \/ Starts

Spec == Init /\ [][Next]_vars
----------------------------------------------------------------------------
(* Properties: of each file, what the next start would make of it.         *)

LoadedBook     == ReadBook(file["questions"])
LoadedContests == ReadContests(file["contests"])

\* The book that was saved is the one that is loaded (QuizBook.cpp:94-134),
\* whatever a post was accepted with.
WholeBookLoads ==
  how["questions"] = "whole" => LoadedBook.end = "read" /\ LoadedBook.value = saved["questions"]

\* Of a book whose file was cut the start takes the first questions, as they
\* were, or it fails: none is altered, none is made up (QuestionTitle.cpp:49-70,
\* ChoiceCollection.cpp:92-126).
CutBookLoadsInPart ==
  how["questions"] = "cut" /\ LoadedBook.end = "read" =>
    LET old == saved["questions"] IN
    \E n \in 0..Cardinality(DOMAIN old) :
      LoadedBook.value = [i \in { Keys(old)[k] : k \in 1..n } |-> old[i]]

\* What one more load makes of a contest: its questions lose their tags to their
\* titles.
WornQuestion(q) == [q EXCEPT !.tags = << >>, !.title = q.tags \o <<EOL>> \o @]
Worn(cs) == [c \in DOMAIN cs |-> [cs[c] EXCEPT !.qs = [i \in DOMAIN @ |-> WornQuestion(@[i])]]]
Unreadable(cs) == \E c \in DOMAIN cs : \E i \in DOMAIN cs[c].qs : cs[c].qs[i].tags = <<Dot>>

\* Contests that were saved are loaded, with the tags in front of the titles
\* (Contest.cpp:76-78), unless a question has a dot for its tags: the server does
\* not start with these.
WholeContestsLoad ==
  how["contests"] = "whole" =>
    IF Unreadable(saved["contests"]) THEN LoadedContests.end = "threw"
    ELSE LoadedContests.end = "read" /\ LoadedContests.value = Worn(saved["contests"])

\* Contests whose file was cut are none at all, or all of them, of which the last
\* may miss its statistics: never a part of them (ContestServer.cpp:305-319,
\* ContestStats.cpp:31-66).
LastOf(cs) == Keys(cs)[Cardinality(DOMAIN cs)]
CutContestsLoadWhole ==
  how["contests"] = "cut" /\ LoadedContests.end = "read" =>
    LET old == Worn(saved["contests"]) IN
    \/ LoadedContests.value = << >>
    \/ \E stats \in { LoadedContests.value[c].stats : c \in DOMAIN LoadedContests.value } :
         LoadedContests.value = [old EXCEPT ![LastOf(old)].stats = stats]
=============================================================================
