------------------------------ MODULE BankText ------------------------------
(***************************************************************************)
(* The texts the server keeps its banks in, written and read as the models *)
(* of src/src/models, QuizBook.cpp and Contest.cpp do.  A text is a        *)
(* sequence of words, blanks and ends of lines: what getline and >> tell   *)
(* apart.  Reading ends well, with an exception, or not at all: the loop   *)
(* that looks for the end of a title does not look for the end of the      *)
(* file.                                                                   *)
(***************************************************************************)
EXTENDS Naturals, Sequences, FiniteSets, SequencesExt

CONSTANTS MaxNumber,   \* the largest number in a text
          Word         \* numbers, as they are written

EOL == "\n"
Sp  == " "
Dot == "."
Letters == <<"a", "b", "c">>
Choice(k) == <<"(a) x", "(b) y", "(c) z">>[k]   \* a letter in brackets and its text

\* Numbers are told apart, from each other and from what separates them.
ASSUME WordAssumption ==
  /\ MaxNumber \in Nat /\ DOMAIN Word = 0..MaxNumber
  /\ \A n \in DOMAIN Word : Word[n] \notin {EOL, Sp} /\ \A k \in DOMAIN Word : Word[n] = Word[k] => n = k

Numbers     == { Word[n] : n \in DOMAIN Word }
NumberOf(w) == CHOOSE n \in DOMAIN Word : Word[n] = w

\* A question: the line of its tags, its title with the ends of lines in it, how
\* many choices it has, the letter of its solution.
Question(tags, title, choices, solution) ==
  [tags |-> tags, title |-> title, choices |-> choices, solution |-> solution]

\* A contest's statistics, before it was run.
NoStats == [contestants |-> 0, highest |-> 0, set |-> << >>]

----------------------------------------------------------------------------
(* Writing.                                                                *)

\* The keys of a map, in their order.
Keys(f) == CHOOSE keys \in [1..Cardinality(DOMAIN f) -> DOMAIN f] :
             \A i, j \in DOMAIN keys : i < j => keys[i] < keys[j]
ForAll(f, Text(_)) == FlattenSeq([i \in DOMAIN Keys(f) |-> Text(Keys(f)[i])])

\* TagCollection, QuestionTitle, ChoiceCollection and SolvedQuestion::serialize.
QuestionText(q) ==
  q.tags \o <<EOL>> \o q.title \o <<EOL, Dot, EOL>>
    \o FlattenSeq([k \in 1..q.choices |-> <<Choice(k), EOL, Dot, EOL>>]) \o <<Dot, EOL>>
    \o <<q.solution, EOL>>

\* QuizBook::serialize: an empty line between the questions.
BookText(book) ==
  LET One(id) == <<EOL, Word[id], EOL>> \o QuestionText(book[id])
  IN IF book = << >> THEN << >> ELSE Tail(ForAll(book, One))

\* ContestStats::serialize.
StatsText(stats) ==
  LET Pair(id) == <<Word[id], Sp, Word[stats.set[id]], EOL>>
  IN <<Word[stats.contestants], EOL, Word[stats.highest], EOL,
       Word[Cardinality(DOMAIN stats.set)], EOL>> \o ForAll(stats.set, Pair)

\* Mutant: a contest that was not run is written without statistics.
ContestTextInPart(id, c) ==
  LET One(q) == <<Word[q], EOL>> \o QuestionText(c.qs[q])
  IN <<Word[id], EOL, Word[Cardinality(DOMAIN c.qs)], EOL, IF c.run THEN "true" ELSE "false", EOL>>
       \o ForAll(c.qs, One) \o IF c.run THEN StatsText(c.stats) ELSE << >>

\* Contest::serialize.
ContestText(id, c) ==
  LET One(q) == <<Word[q], EOL>> \o QuestionText(c.qs[q])
  IN <<Word[id], EOL, Word[Cardinality(DOMAIN c.qs)], EOL, IF c.run THEN "true" ELSE "false", EOL>>
       \o ForAll(c.qs, One) \o StatsText(c.stats)

\* ContestServer::writeContests.
ContestsText(cs) ==
  LET One(id) == ContestText(id, cs[id])
  IN <<Word[Cardinality(DOMAIN cs)], EOL>> \o ForAll(cs, One)

----------------------------------------------------------------------------
(* Reading: `next` is where the stream stands afterwards; behind the end   *)
(* it has failed, and every further getline or >> leaves its string alone. *)

\* The first place from p on that is so, or the end of the text.
First(s, p, Here(_)) ==
  IF p > Len(s) THEN p
  ELSE CHOOSE e \in p..(Len(s) + 1) : (e > Len(s) \/ Here(e)) /\ \A k \in p..(e - 1) : ~Here(k)

LineEnd(s, p)  == First(s, p, LAMBDA k : s[k] = EOL)
Line(s, p)     == SubSeq(s, p, LineEnd(s, p) - 1)
NextLine(s, p) == LineEnd(s, p) + 1
NextWord(s, p) == First(s, p, LAMBDA k : s[k] \notin {EOL, Sp})

IsThere(s, p)  == p <= Len(s)

Threw == [end |-> "threw"]
Spins == [end |-> "spins"]
Read(value, next) == [end |-> "read", value |-> value, next |-> next]

\* The first line with a dot.
DotLine(s, p) == First(s, p, LAMBDA k : (k = p \/ s[k - 1] = EOL) /\ Line(s, k) = <<Dot>>)

\* QuestionTitle::deserialize: up to a line with a dot, which must not be the
\* first one; getline fails for ever where there is none.
TitleFrom(s, p) ==
  LET dot == DotLine(s, p) IN
  IF ~IsThere(s, dot) THEN Spins
  ELSE IF dot = p THEN Threw
  ELSE Read(SubSeq(s, p, dot - 2), NextLine(s, dot))

\* What is read after something that was read.
Then(r, Rest(_)) == IF r.end = "read" THEN Rest(r) ELSE r

\* One more line of the choices: a letter and its text, in order, or a dot.
\* Behind the end the last line is taken again: a choice is repeated, and after
\* a dot the solution is missing.
ChoiceLine(s, c) ==
  LET line == Line(s, c.next) IN
  IF ~IsThere(s, c.next) THEN Threw
  ELSE IF line = <<Dot>> THEN Read([c.value EXCEPT !.dots = @ + 1], NextLine(s, c.next))
  ELSE IF c.value.n < Len(Letters) /\ line = <<Choice(c.value.n + 1)>>
    THEN Read([n |-> c.value.n + 1, dots |-> 0], NextLine(s, c.next))
  ELSE Threw

\* ChoiceCollection::deserializeAllChoices: at least two, up to a second line
\* with a dot; there is one dot at most in front of each.
ChoicesFrom(s, p) ==
  LET lines == 2 * Len(Letters) + 2
      after[k \in 0..lines] ==
        IF k = 0 THEN Read([n |-> 0, dots |-> 0], p)
        ELSE Then(after[k - 1], LAMBDA c : IF c.value.dots = 2 THEN c ELSE ChoiceLine(s, c))
  IN Then(after[lines], LAMBDA c : IF c.value.n < 2 THEN Threw ELSE Read(c.value.n, c.next))

\* Mutant: the solution is not looked up.
SolvedByAny(s, tags, title, choices) ==
  LET line == Line(s, choices.next) IN
  IF Len(line) # 1 THEN Threw
  ELSE Read(Question(tags, title.value, choices.value, line[1]), NextLine(s, choices.next))

\* Mutant: a solution that is missing is the first choice.
SolvedByDefault(s, tags, title, choices) ==
  IF Line(s, choices.next) \notin { <<Letters[k]>> : k \in 1..choices.value }
    THEN Read(Question(tags, title.value, choices.value, Letters[1]), NextLine(s, choices.next))
    ELSE Read(Question(tags, title.value, choices.value, s[choices.next]), NextLine(s, choices.next))

\* SolvedQuestion and Question: tags, title, choices, and the letter of one of them.
Solved(s, tags, title, choices) ==
  IF Line(s, choices.next) \notin { <<Letters[k]>> : k \in 1..choices.value } THEN Threw
  ELSE Read(Question(tags, title.value, choices.value, s[choices.next]), NextLine(s, choices.next))

QuestionFrom(s, p) ==
  Then(TitleFrom(s, NextLine(s, p)), LAMBDA title :
    Then(ChoicesFrom(s, title.next), LAMBDA choices :
      Solved(s, Line(s, p), title, choices)))

\* emplace: the first value of a key stays.
Emplaced(f, k, v) == [i \in DOMAIN f \cup {k} |-> IF i \in DOMAIN f THEN f[i] ELSE v]

\* Mutant: what follows the id is not skipped.
EntryAtOnce(s, word) ==
  IF s[word] \in Numbers THEN QuestionFrom(s, word + 1) ELSE Threw

\* QuizBook::readFrom: entries up to the end of the file; get() skips what
\* follows the id.
Entry(s, word) ==
  IF s[word] \in Numbers THEN QuestionFrom(s, word + 2) ELSE Threw

OneEntry(s, book) ==
  IF ~IsThere(s, book.next) THEN book
  ELSE Then(Entry(s, book.next), LAMBDA q :
         Read(Emplaced(book.value, NumberOf(s[book.next]), q.value), NextWord(s, q.next)))
ReadBook(s) ==
  LET after[k \in 0..Len(s)] ==
        IF k = 0 THEN Read(<< >>, NextWord(s, 1))
        ELSE Then(after[k - 1], LAMBDA book : OneEntry(s, book))
  IN after[Len(s)]

\* >> into a number: zero when there is none.
NumberAt(s, word) ==
  IF IsThere(s, word) /\ s[word] \in Numbers THEN Read(NumberOf(s[word]), word + 1)
                                             ELSE Read(0, Len(s) + 1)
NumberFrom(s, p) == NumberAt(s, NextWord(s, p))

\* The questions of a contest.  What follows the id on its line is not skipped:
\* it is read as the tags, and the line of the tags becomes the title's first.
ContestQuestion(s, qs) ==
  Then(NumberFrom(s, qs.next), LAMBDA id :
    Then(QuestionFrom(s, id.next), LAMBDA q :
      Read(Emplaced(qs.value, id.value, q.value), q.next)))
ContestQuestionsFrom(s, p, n) ==
  LET after[k \in 0..n] ==
        IF k = 0 THEN Read(<< >>, p)
        ELSE Then(after[k - 1], LAMBDA qs : ContestQuestion(s, qs))
  IN after[n]

\* ContestStats::deserialize: a number that is missing is the one before it,
\* which is still in the buffer; a pair may lack its count, not its blank.
Reached(s, r) == IF IsThere(s, r.next) THEN r ELSE Threw
OnePair(s, set) ==
  Then(Reached(s, set), LAMBDA there :
    Then(Reached(s, NumberFrom(s, there.next)), LAMBDA id :
      Then(NumberFrom(s, id.next), LAMBDA count :
        Read(Emplaced(set.value, id.value, count.value), count.next))))
PairsFrom(s, p, n) ==
  LET after[k \in 0..n] ==
        IF k = 0 THEN Read(<< >>, p)
        ELSE Then(after[k - 1], LAMBDA set : OnePair(s, set))
  IN after[n]

Again(s, word, before) ==
  IF IsThere(s, word) THEN NumberAt(s, word) ELSE Read(before.value, word)

\* Mutant: statistics that are missing are those of a contest that was not run.
StatsFromOrNone(s, word) ==
  IF ~IsThere(s, word) THEN Read(NoStats, word)
  ELSE Then(NumberAt(s, word), LAMBDA contestants :
         Then(Again(s, NextWord(s, contestants.next), contestants), LAMBDA highest :
           Then(Again(s, NextWord(s, highest.next), highest), LAMBDA n :
             Then(PairsFrom(s, n.next, n.value), LAMBDA set :
               Read([contestants |-> contestants.value, highest |-> highest.value,
                     set |-> set.value], set.next)))))

StatsFrom(s, word) ==
  IF ~IsThere(s, word) THEN Threw
  ELSE Then(NumberAt(s, word), LAMBDA contestants :
         Then(Again(s, NextWord(s, contestants.next), contestants), LAMBDA highest :
           Then(Again(s, NextWord(s, highest.next), highest), LAMBDA n :
             Then(PairsFrom(s, n.next, n.value), LAMBDA set :
               Read([contestants |-> contestants.value, highest |-> highest.value,
                     set |-> set.value], set.next)))))

\* Contest::deserialize and ContestServer::loadContests.
RunAt(s, word) == Read(IsThere(s, word) /\ s[word] = "true", word + 1)
OneContest(s, cs) ==
  Then(NumberFrom(s, cs.next), LAMBDA id :
    Then(NumberFrom(s, id.next), LAMBDA count :
      Then(RunAt(s, NextWord(s, count.next)), LAMBDA run :
        Then(ContestQuestionsFrom(s, run.next, count.value), LAMBDA qs :
          Then(StatsFrom(s, NextWord(s, qs.next)), LAMBDA stats :
            Read(Emplaced(cs.value, id.value,
                   [qs |-> qs.value, run |-> run.value, stats |-> stats.value]), stats.next))))))
ContestsFrom(s, p, n) ==
  LET after[k \in 0..n] ==
        IF k = 0 THEN Read(<< >>, p)
        ELSE Then(after[k - 1], LAMBDA cs : OneContest(s, cs))
  IN after[n]
ReadContests(s) == Then(NumberFrom(s, 1), LAMBDA n : ContestsFrom(s, n.next, n.value))
=============================================================================
