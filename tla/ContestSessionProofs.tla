----------------------- MODULE ContestSessionProofs -----------------------
(* Theorems about ContestSession, for every number of connections,         *)
(* nicknames and questions, every script and every set of faults.          *)
EXTENDS ContestSession, FiniteSetTheorems, WellFoundedInduction, SequenceTheorems,
        TLAPS

\* Which parts of a round or of the closing exist at which place of the owner:
\* the tasks belong to contestants and to a question that is in play, and the
\* loops that wait for an acknowledgement have somebody to wait for.
Shape ==
  /\ pc \in {"accepting", "joining"} =>
       state = "STARTING" /\ todo # << >>
  /\ pc \in {"playing", "telling", "acking"} =>
       state = "RUNNING" /\ todo # << >> /\ Head(todo) = Play(qid) /\ qid \in Questions
  /\ pc \in {"closing", "closeack"} => state = "RUNNING" /\ todo # << >>
  /\ pc \in {"acking", "closeack"} => rest # {}
  /\ \A n \in Nicks : task[n] # "none" =>
       /\ n \in Joined /\ qid \in Questions /\ state = "RUNNING"
       /\ pc \in {"playing", "telling", "acking", "threw"}
  /\ pc # "playing" => \A n \in Nicks : task[n] \in {"none", "done"}

Typed == TypeOK /\ Shape

-----------------------------------------------------------------------------
(* Lemmas about the operators of the model. *)

\* The least of some natural numbers is one of them (CHOOSE in First).
LEMMA FirstIsMember ==
  ASSUME NEW S, S \subseteq Nat, S # {}
  PROVE  First(S) \in S
<1>1. PICK n \in S : \A m \in S : <<m, n>> \notin OpToRel(<, Nat)
  BY NatLessThanWellFounded, WFMin
<1>2. \A m \in S : ~(m < n)
  BY <1>1 DEF OpToRel
<1>3. \A m \in S : n <= m
  BY <1>2
<1>4. QED
  BY <1>3, Zenon DEF First

LEMMA LinkAfterWriteTyped ==
  ASSUME NEW l \in LinkStates
  PROVE  LinkAfterWrite(l) \subseteq LinkStates
BY DEF LinkAfterWrite, LinkStates

ProcessOK == process \in {"running", "aborted", "killed"}

LEMMA WriteTyped ==
  ASSUME WireOK, ProcessOK, NEW c \in Conns, NEW m \in FromServer, Write(c, m)
  PROVE  WireOK' /\ ProcessOK'
<1>1. PICK l \in LinkAfterWrite(link[c]) : link' = [link EXCEPT ![c] = l]
  BY DEF Write
<1>2. l \in LinkStates
  BY <1>1, LinkAfterWriteTyped DEF WireOK
<1>3. link' \in [Conns -> LinkStates]
  BY <1>1, <1>2 DEF WireOK
<1>4. toContestant' \in [Conns -> Seq(FromServer)]
  BY DEF Write, WireOK
<1>5. QED
  BY <1>3, <1>4 DEF Write, WireOK, ProcessOK

\* What a read leaves in the stream is a stream.
LEMMA LeftAfterReadTyped ==
  ASSUME NEW M, NEW s \in Seq(M)
  PROVE  LeftAfterRead(s) \subseteq Seq(M)
<1>1. SUFFICES ASSUME NEW k \in 1..Len(s)
               PROVE  SubSeq(s, k + 1, Len(s)) \in Seq(M)
  BY DEF LeftAfterRead
<1>2. \A i \in (k + 1)..Len(s) : s[i] \in M
  OBVIOUS
<1>3. QED
  BY <1>2, SubSeqProperties

LEMMA ReadDataTyped ==
  ASSUME WireOK, NEW c \in Conns, ReadData(c)
  PROVE  WireOK' /\ Head(toServer[c]) \in FromContestant
<1>1. PICK s \in LeftAfterRead(toServer[c]) : toServer' = [toServer EXCEPT ![c] = s]
  BY DEF ReadData
<1>2. toServer[c] \in Seq(FromContestant) /\ toServer[c] # << >>
  BY DEF WireOK, ReadData, HasData
<1>3. s \in Seq(FromContestant)
  BY <1>1, <1>2, LeftAfterReadTyped
<1>4. Head(toServer[c]) \in FromContestant
  BY <1>2
<1>5. QED
  BY <1>1, <1>3, <1>4 DEF ReadData, WireOK

LEMMA ReadTyped ==
  ASSUME WireOK, NEW c \in Conns, ReadData(c) \/ ReadEof(c) \/ ReadError(c)
  PROVE  WireOK'
<1>1. CASE ReadData(c)
  BY <1>1, ReadDataTyped
<1>2. CASE ReadEof(c)
  BY <1>2 DEF ReadEof, wire, WireOK
<1>3. CASE ReadError(c)
  BY <1>3 DEF ReadError, WireOK, LinkStates
<1>4. QED
  BY <1>1, <1>2, <1>3

LEMMA RefusalTyped == \A m : Refusal(m) \in FromServer
BY DEF Refusal, FromServer

LEMMA QuestionTyped == \A q \in Questions : Question(q) \in FromServer
BY DEF FromServer

LEMMA ResultsTyped ==
  ASSUME SessionOK, TasksOK, qid \in Questions, NEW n \in Nicks
  PROVE  RoundResults(n) \in Verdicts /\ Result(RoundResults(n)) \in FromServer
<1>1. Cardinality(Joined) \in Nat
  BY NicksAssumption, FS_Subset, FS_CardinalityType DEF SessionOK
<1>2. RoundResults(n) \in Verdicts
  BY <1>1 DEF SessionOK, TasksOK, RoundResults, Verdicts
<1>3. QED
  BY <1>2 DEF Result, FromServer

-----------------------------------------------------------------------------
(* Every action keeps the types and the shape. *)

LEMMA InitTyped == Init => Typed
BY ScriptsAssumption DEF Init, Typed, Shape, TypeOK, SessionOK, OwnerOK, JoiningOK, TasksOK,
   WireOK, Joined, LinkStates, FromContestant, Ack

LEMMA StartSessionTyped == Typed /\ StartSession => Typed'
BY DEF StartSession, Typed, Shape, TypeOK, SessionOK, OwnerOK, JoiningOK,
   TasksOK, WireOK, session, owner, joining, tasks, wire, Joined

LEMMA WindowEndsTyped == Typed /\ WindowEnds => Typed'
BY DEF WindowEnds, LinkStates, Typed, Shape, TypeOK, SessionOK, OwnerOK, JoiningOK,
   TasksOK, WireOK, session, owner, joining, tasks, wire, Joined

LEMMA AcceptTimedOutTyped == Typed /\ AcceptTimedOut => Typed'
BY DEF AcceptTimedOut, Typed, Shape, TypeOK, SessionOK, OwnerOK, JoiningOK,
   TasksOK, WireOK, session, owner, joining, tasks, wire, Joined

LEMMA AcceptFailsTyped == Typed /\ AcceptFails => Typed'
BY DEF AcceptFails, Typed, Shape, TypeOK, SessionOK, OwnerOK, JoiningOK,
   TasksOK, WireOK, session, owner, joining, tasks, wire, Joined

LEMMA JoinThreadsTyped == Typed /\ JoinThreads => Typed'
BY DEF JoinThreads, Typed, Shape, TypeOK, SessionOK, OwnerOK, JoiningOK,
   TasksOK, WireOK, session, owner, joining, tasks, wire, Joined

LEMMA PlayRoundTyped == Typed /\ PlayRound => Typed'
BY DEF PlayRound, Play, Calls, Start, Terminate, Questions, Typed, Shape, TypeOK, SessionOK, OwnerOK, JoiningOK,
   TasksOK, WireOK, session, owner, joining, tasks, wire, Joined

LEMMA AllAnsweredTyped == Typed /\ AllAnswered => Typed'
BY DEF AllAnswered, Typed, Shape, TypeOK, SessionOK, OwnerOK, JoiningOK,
   TasksOK, WireOK, session, owner, joining, tasks, wire, Joined

LEMMA RoundOverTyped == Typed /\ RoundOver => Typed'
BY DEF RoundOver, Typed, Shape, TypeOK, SessionOK, OwnerOK, JoiningOK,
   TasksOK, WireOK, session, owner, joining, tasks, wire, Joined

LEMMA TerminateSessionTyped == Typed /\ TerminateSession => Typed'
BY DEF TerminateSession, Typed, Shape, TypeOK, SessionOK, OwnerOK, JoiningOK,
   TasksOK, WireOK, session, owner, joining, tasks, wire, Joined

LEMMA SessionOverTyped == Typed /\ SessionOver => Typed'
BY DEF SessionOver, Typed, Shape, TypeOK, SessionOK, OwnerOK, JoiningOK,
   TasksOK, WireOK, session, owner, joining, tasks, wire, Joined

LEMMA CallRefusedTyped == Typed /\ CallRefused => Typed'
BY DEF CallRefused, Typed, Shape, TypeOK, SessionOK, OwnerOK, JoiningOK,
   TasksOK, WireOK, session, owner, joining, tasks, wire, Joined

LEMMA AcceptTyped ==
  ASSUME Typed, NEW c \in Conns, Accept(c)
  PROVE  Typed'
BY DEF Accept, Typed, Shape, TypeOK, SessionOK, OwnerOK, JoiningOK,
   TasksOK, WireOK, session, owner, joining, tasks, wire, Joined

LEMMA ReadHelloTyped ==
  ASSUME Typed, NEW c \in Conns, ReadHello(c)
  PROVE  Typed'
<1>1. WireOK' /\ Head(toServer[c]) \in FromContestant
  BY ReadDataTyped DEF ReadHello, Typed, TypeOK
<1>2. JoiningOK'
  BY <1>1 DEF ReadHello, Typed, TypeOK, JoiningOK
<1>3. QED
  BY <1>1, <1>2 DEF ReadHello, Typed, Shape, TypeOK, SessionOK, OwnerOK, TasksOK, session,
     owner, tasks, Joined

LEMMA HelloLostTyped ==
  ASSUME Typed, NEW c \in Conns, HelloLost(c)
  PROVE  Typed'
BY DEF HelloLost, HangUp, LinkStates, Typed, Shape, TypeOK, SessionOK, OwnerOK, JoiningOK,
   TasksOK, WireOK, session, owner, joining, tasks, wire, Joined

LEMMA RefuseHelloTyped ==
  ASSUME Typed, NEW c \in Conns, RefuseHello(c)
  PROVE  Typed'
<1>1. WireOK' /\ ProcessOK' /\ JoiningOK'
  <2>1. CASE WriteResult(link[c]) # "Except" /\ Write(c, Refusal(req[c]))
             /\ nego' = [nego EXCEPT ![c] = "reading"]
    <3>1. WireOK' /\ ProcessOK'
      BY <2>1, WriteTyped, RefusalTyped DEF Typed, TypeOK, ProcessOK
    <3>2. QED
      BY <2>1, <3>1 DEF RefuseHello, Typed, TypeOK, JoiningOK
  <2>2. CASE HangUp(c) /\ process' = IF req[c] = Garbled THEN "aborted" ELSE process
    BY <2>2 DEF RefuseHello, HangUp, LinkStates, Typed, TypeOK, ProcessOK, JoiningOK, WireOK
  <2>3. QED
    BY <2>1, <2>2 DEF RefuseHello
<1>2. QED
  BY <1>1 DEF RefuseHello, ProcessOK, Typed, Shape, TypeOK, SessionOK, OwnerOK, TasksOK,
     session, owner, tasks, Joined

LEMMA AdmitContestantTyped ==
  ASSUME Typed, NEW c \in Conns, AdmitContestant(c)
  PROVE  Typed'
<1> DEFINE m == req[c]
<1>1. m.nick \in Nicks
  BY DEF AdmitContestant, Acceptable, Hellos, Hello
<1>2. CASE Write(c, Ok) /\ WriteReturns(link[c])
  <2>1. WireOK' /\ ProcessOK'
    BY <1>2, WriteTyped DEF Typed, TypeOK, ProcessOK, FromServer
  <2>2. contestants' = [n \in Joined \cup {m.nick} |-> IF n = m.nick THEN c ELSE contestants[n]]
        /\ nego' = [nego EXCEPT ![c] = "done"]
    BY <1>2 DEF AdmitContestant, WriteReturns
  <2>3. Joined' = Joined \cup {m.nick}
    BY <2>2 DEF Joined
  <2>4. contestants' \in [Joined' -> Conns]
    BY <2>2, <2>3 DEF Typed, TypeOK, SessionOK
  <2>5. QED
    BY <1>1, <2>1, <2>2, <2>3, <2>4 DEF AdmitContestant, ProcessOK, Typed, Shape, TypeOK,
       SessionOK, OwnerOK, JoiningOK, TasksOK, owner, tasks
<1>3. CASE Write(c, Ok) /\ ~WriteReturns(link[c]) /\ WriteResult(link[c]) # "Except"
  <2>1. WireOK' /\ ProcessOK'
    BY <1>3, WriteTyped DEF Typed, TypeOK, ProcessOK, FromServer
  <2>2. UNCHANGED <<contestants, nego>>
    BY <1>3 DEF AdmitContestant, WriteReturns
  <2>3. QED
    BY <2>1, <2>2 DEF AdmitContestant, ProcessOK, Typed, Shape, TypeOK,
       SessionOK, OwnerOK, JoiningOK, TasksOK, owner, tasks, Joined
<1>4. CASE HangUp(c) /\ UNCHANGED <<contestants, process>>
  BY <1>4 DEF AdmitContestant, HangUp, LinkStates, Typed, Shape, TypeOK, SessionOK, OwnerOK,
     JoiningOK, TasksOK, WireOK, owner, tasks, Joined
<1>5. QED
  BY <1>2, <1>3, <1>4 DEF AdmitContestant

LEMMA SendQuestionTyped ==
  ASSUME Typed, NEW n \in Nicks, SendQuestion(n)
  PROVE  Typed'
<1> DEFINE c == contestants[n]
<1>1. n \in Joined /\ qid \in Questions /\ c \in Conns
  BY DEF SendQuestion, Typed, TypeOK, SessionOK, Shape
<1>2. WireOK' /\ ProcessOK'
  BY <1>1, WriteTyped, QuestionTyped DEF SendQuestion, Typed, TypeOK, ProcessOK
<1>3. TasksOK'
  BY DEF SendQuestion, Typed, TypeOK, TasksOK
<1>4. Shape'
  BY <1>1 DEF SendQuestion, Typed, TypeOK, Shape, TasksOK, session, owner, Joined
<1>5. QED
  BY <1>2, <1>3, <1>4 DEF SendQuestion, ProcessOK, Typed, TypeOK, SessionOK, OwnerOK, JoiningOK,
     session, owner, joining, Joined

LEMMA ReadAnswerTyped ==
  ASSUME Typed, NEW n \in Nicks, ReadAnswer(n)
  PROVE  Typed'
<1>1. n \in Joined /\ contestants[n] \in Conns
  BY DEF ReadAnswer, Typed, TypeOK, SessionOK, Shape
<1>2. WireOK'
  BY <1>1, ReadTyped DEF ReadAnswer, Typed, TypeOK
<1>3. TasksOK'
  BY DEF ReadAnswer, Typed, TypeOK, TasksOK
<1>4. Shape'
  BY <1>1 DEF ReadAnswer, Typed, TypeOK, Shape, TasksOK, session, owner, Joined
<1>5. QED
  BY <1>2, <1>3, <1>4 DEF ReadAnswer, Typed, TypeOK, SessionOK, OwnerOK, JoiningOK,
     session, owner, joining, Joined

LEMMA IncreaseScoreTyped ==
  ASSUME Typed, NEW n \in Nicks, IncreaseScore(n)
  PROVE  Typed'
<1>1. SessionOK'
  BY DEF IncreaseScore, Larger, Typed, TypeOK, SessionOK, TasksOK, Shape, session, Joined
<1>2. TasksOK'
  BY DEF IncreaseScore, Larger, Typed, TypeOK, TasksOK, SessionOK, Shape
<1>3. Shape'
  BY DEF IncreaseScore, Larger, Typed, TypeOK, TasksOK, Shape, session, owner, Joined
<1>4. QED
  BY <1>1, <1>2, <1>3 DEF IncreaseScore, Typed, TypeOK, SessionOK, OwnerOK, JoiningOK, WireOK,
     session, owner, joining, wire, Joined

LEMMA LoadStatTyped ==
  ASSUME Typed, NEW n \in Nicks, LoadStat(n)
  PROVE  Typed'
<1>1. SessionOK'
  BY DEF LoadStat, Typed, TypeOK, SessionOK, TasksOK, Shape, session, Joined
<1>2. TasksOK'
  BY DEF LoadStat, Typed, TypeOK, TasksOK, SessionOK, Shape
<1>3. Shape'
  BY DEF LoadStat, Typed, TypeOK, TasksOK, Shape, session, owner, Joined
<1>4. QED
  BY <1>1, <1>2, <1>3 DEF LoadStat, Typed, TypeOK, SessionOK, OwnerOK, JoiningOK, WireOK,
     session, owner, joining, wire, Joined

LEMMA StoreStatTyped ==
  ASSUME Typed, NEW n \in Nicks, StoreStat(n)
  PROVE  Typed'
<1>1. SessionOK'
  BY DEF StoreStat, Typed, TypeOK, SessionOK, TasksOK, Shape, session, Joined
<1>2. TasksOK'
  BY DEF StoreStat, Typed, TypeOK, TasksOK, SessionOK, Shape
<1>3. Shape'
  BY DEF StoreStat, Typed, TypeOK, TasksOK, Shape, session, owner, Joined
<1>4. QED
  BY <1>1, <1>2, <1>3 DEF StoreStat, Typed, TypeOK, SessionOK, OwnerOK, JoiningOK, WireOK,
     session, owner, joining, wire, Joined

LEMMA TellResultTyped ==
  ASSUME Typed, TellResult
  PROVE  Typed'
<1> DEFINE n == First(rest)
           c == contestants[n]
<1>1. n \in rest /\ n \in Joined /\ n \in Nicks /\ c \in Conns
  BY FirstIsMember, NicksAssumption DEF TellResult, Typed, Shape, TypeOK, SessionOK, OwnerOK
<1>2. RoundResults(n) \in Verdicts /\ Result(RoundResults(n)) \in FromServer
  BY <1>1, ResultsTyped DEF TellResult, Typed, Shape, TypeOK
<1>3. WireOK' /\ ProcessOK'
  BY <1>1, <1>2, WriteTyped DEF TellResult, Typed, TypeOK, ProcessOK
<1>4. told' \in [Nicks -> Seq(Verdicts)]
  <2>1. told[n] \in Seq(Verdicts)
    BY <1>1 DEF Typed, TypeOK
  <2>2. Append(told[n], RoundResults(n)) \in Seq(Verdicts)
    BY <1>2, <2>1
  <2>3. told' = [told EXCEPT ![n] = Append(told[n], RoundResults(n))]
    BY DEF TellResult
  <2>4. QED
    BY <2>2, <2>3 DEF Typed, TypeOK
<1>5. OwnerOK' /\ Shape'
  BY <1>1 DEF TellResult, Typed, TypeOK, OwnerOK, Shape, session, joining, tasks, Joined
<1>6. QED
  BY <1>3, <1>4, <1>5 DEF TellResult, ProcessOK, Typed, TypeOK, SessionOK, JoiningOK,
     TasksOK, session, joining, tasks, Joined

LEMMA ReadResultAckTyped ==
  ASSUME Typed, ReadResultAck
  PROVE  Typed'
<1> DEFINE n == First(rest)
           c == contestants[n]
<1>1. n \in rest /\ n \in Joined /\ n \in Nicks /\ c \in Conns
  BY FirstIsMember, NicksAssumption DEF ReadResultAck, Typed, Shape, TypeOK, SessionOK, OwnerOK
<1>2. WireOK'
  BY <1>1, ReadTyped DEF ReadResultAck, ReadMessage, ReadMalformed, Typed, TypeOK
<1>3. OwnerOK' /\ Shape'
  BY <1>1 DEF ReadResultAck, Typed, TypeOK, OwnerOK, Shape, session, joining, tasks, Joined
<1>4. QED
  BY <1>2, <1>3 DEF ReadResultAck, Typed, TypeOK, SessionOK, JoiningOK,
     TasksOK, session, joining, tasks, Joined

LEMMA SayByeTyped ==
  ASSUME Typed, SayBye
  PROVE  Typed'
<1> DEFINE n == First(rest)
           c == contestants[n]
<1>1. n \in rest /\ n \in Joined /\ n \in Nicks /\ c \in Conns
  BY FirstIsMember, NicksAssumption DEF SayBye, Typed, Shape, TypeOK, SessionOK, OwnerOK
<1>2. WireOK' /\ ProcessOK'
  BY <1>1, WriteTyped DEF SayBye, FromServer, Typed, TypeOK, ProcessOK
<1>3. OwnerOK' /\ Shape'
  BY <1>1 DEF SayBye, Typed, TypeOK, OwnerOK, Shape, session, joining, tasks, Joined
<1>4. QED
  BY <1>2, <1>3 DEF SayBye, ProcessOK, Typed, TypeOK, SessionOK, JoiningOK,
     TasksOK, session, joining, tasks, Joined

LEMMA ReadByeAckTyped ==
  ASSUME Typed, ReadByeAck
  PROVE  Typed'
<1> DEFINE n == First(rest)
           c == contestants[n]
<1>1. n \in rest /\ n \in Joined /\ n \in Nicks /\ c \in Conns
  BY FirstIsMember, NicksAssumption DEF ReadByeAck, Typed, Shape, TypeOK, SessionOK, OwnerOK
<1>2. WireOK'
  <2>1. CASE ReadData(c) \/ ReadEof(c) \/ ReadError(c)
    BY <1>1, <2>1, ReadTyped DEF Typed, TypeOK
  <2>2. CASE /\ HasData(toServer[c])
             /\ \E s \in LeftAfterRead(toServer[c]) : toServer' = [toServer EXCEPT ![c] = s]
             /\ link' = [link EXCEPT ![c] = "closed"]
             /\ UNCHANGED <<toContestant, greeted>>
    <3>1. LeftAfterRead(toServer[c]) \subseteq Seq(FromContestant)
      BY <1>1, LeftAfterReadTyped DEF Typed, TypeOK, WireOK
    <3>2. QED
      BY <2>2, <3>1 DEF Typed, TypeOK, WireOK, LinkStates
  <2>3. QED
    BY <2>1, <2>2 DEF ReadByeAck, ReadMalformed
<1>3. OwnerOK' /\ Shape'
  BY <1>1 DEF ReadByeAck, Typed, TypeOK, OwnerOK, Shape, session, joining, tasks, Joined
<1>4. QED
  BY <1>2, <1>3 DEF ReadByeAck, Typed, TypeOK, SessionOK, JoiningOK,
     TasksOK, session, joining, tasks, Joined

LEMMA RepliesTyped == \A m : Replies(m) \subseteq FromContestant
BY DEF Replies, Rude, PoliteReply, FromContestant, Hellos, Answers, Ack, Garbled

LEMMA ContestantConnectsTyped ==
  ASSUME Typed, NEW c \in Conns, ContestantConnects(c)
  PROVE  Typed'
BY DEF ContestantConnects, LinkStates, Typed, Shape, TypeOK, SessionOK, OwnerOK, JoiningOK,
   TasksOK, WireOK, session, owner, joining, tasks, wire, Joined

LEMMA ContestantGreetsTyped ==
  ASSUME Typed, NEW c \in Conns, ContestantGreets(c)
  PROVE  Typed'
<1>1. Hellos \cup Rude \subseteq FromContestant
  BY DEF FromContestant, Rude, Answers
<1>2. WireOK'
  BY <1>1 DEF ContestantGreets, Typed, TypeOK, WireOK
<1>3. QED
  BY <1>2 DEF ContestantGreets, Typed, Shape, TypeOK, SessionOK, OwnerOK, JoiningOK,
     TasksOK, session, owner, joining, tasks, Joined

LEMMA ContestantRepliesTyped ==
  ASSUME Typed, NEW c \in Conns, ContestantReplies(c)
  PROVE  Typed'
<1>1. WireOK'
  <2>1. toContestant' \in [Conns -> Seq(FromServer)]
    <3>1. Tail(toContestant[c]) \in Seq(FromServer)
      BY DEF ContestantReplies, Typed, TypeOK, WireOK
    <3>2. QED
      BY <3>1 DEF ContestantReplies, Typed, TypeOK, WireOK
  <2>2. toServer' \in [Conns -> Seq(FromContestant)]
    <3>1. ASSUME NEW m \in FromContestant, toServer' = [toServer EXCEPT ![c] = Append(@, m)]
          PROVE  toServer' \in [Conns -> Seq(FromContestant)]
      BY <3>1 DEF Typed, TypeOK, WireOK
    <3>2. CASE UNCHANGED toServer
      BY <3>2 DEF Typed, TypeOK, WireOK
    <3>3. QED
      BY <3>1, <3>2, RepliesTyped DEF ContestantReplies
  <2>3. QED
    BY <2>1, <2>2 DEF ContestantReplies, Typed, TypeOK, WireOK
<1>2. QED
  BY <1>1 DEF ContestantReplies, Typed, Shape, TypeOK, SessionOK, OwnerOK, JoiningOK,
     TasksOK, session, owner, joining, tasks, Joined

LEMMA ContestantLeavesTyped ==
  ASSUME Typed, NEW c \in Conns, ContestantLeaves(c)
  PROVE  Typed'
BY DEF ContestantLeaves, LinkStates, Typed, Shape, TypeOK, SessionOK, OwnerOK, JoiningOK,
   TasksOK, WireOK, session, owner, joining, tasks, wire, Joined

LEMMA NextTyped == Typed /\ [Next]_vars => Typed'
<1> SUFFICES ASSUME Typed, [Next]_vars PROVE Typed'
  OBVIOUS
<1>1. CASE OwnerStep
  BY <1>1, StartSessionTyped, AcceptTimedOutTyped, AcceptFailsTyped, JoinThreadsTyped,
     PlayRoundTyped, AllAnsweredTyped, TellResultTyped, ReadResultAckTyped, RoundOverTyped,
     TerminateSessionTyped, SayByeTyped, ReadByeAckTyped, SessionOverTyped, CallRefusedTyped
  DEF OwnerStep
<1>2. CASE WindowEnds
  BY <1>2, WindowEndsTyped
<1>3. ASSUME NEW c \in Conns, NegotiationStep(c) PROVE Typed'
  BY <1>3, AcceptTyped, ReadHelloTyped, HelloLostTyped, AdmitContestantTyped, RefuseHelloTyped
  DEF NegotiationStep
<1>4. ASSUME NEW n \in Nicks, TaskStep(n) PROVE Typed'
  BY <1>4, SendQuestionTyped, ReadAnswerTyped, IncreaseScoreTyped, LoadStatTyped, StoreStatTyped
  DEF TaskStep
<1>5. ASSUME NEW c \in Conns, ContestantStep(c) PROVE Typed'
  BY <1>5, ContestantConnectsTyped, ContestantGreetsTyped, ContestantRepliesTyped,
     ContestantLeavesTyped DEF ContestantStep
<1>6. CASE UNCHANGED vars
  BY <1>6 DEF vars, Typed, Shape, TypeOK, SessionOK, OwnerOK, JoiningOK, TasksOK, WireOK,
     session, owner, joining, tasks, wire, Joined
<1>7. QED
  BY <1>1, <1>2, <1>3, <1>4, <1>5, <1>6 DEF Next, ServerStep, Finished

\* The session keeps its types: every connection, name and question its threads
\* use exists (ContestSession.h:62-70).
THEOREM TypeCorrect == Spec => []TypeOK
<1>1. Typed => TypeOK
  BY DEF Typed
<1>2. QED
  BY InitTyped, NextTyped, <1>1, PTL DEF Spec

-----------------------------------------------------------------------------
(* Frames: which actions touch what. *)

Joining == JoinThreads \/ \E c \in Conns : NegotiationStep(c) \/ ContestantConnects(c)
Scoring == \E n \in Nicks : IncreaseScore(n)
Counting == PlayRound \/ RoundOver \/ \E n \in Nicks : TaskStep(n)

\* A step of none of these kinds moves neither scores, statistics, contestants
\* nor negotiations, and begins no round.
LEMMA Frame ==
  ASSUME Typed, [Next]_vars, ~Joining, ~Counting
  PROVE  /\ UNCHANGED <<contestants, score, max, stats, nego, won, reg, task, qid>>
         /\ state' = state \/ (state = "READY" /\ state' = "STARTING")
                           \/ (state = "RUNNING" /\ state' = "TERMINATED")
         /\ pc' \in {"playing", "telling", "acking"} => pc \in {"playing", "telling", "acking"}
<1>1. CASE OwnerStep
  BY <1>1 DEF OwnerStep, StartSession, AcceptTimedOut, AcceptFails, AllAnswered, TellResult,
     ReadResultAck, TerminateSession, SayBye, ReadByeAck, SessionOver, CallRefused,
     Joining, Counting, session, owner, joining, tasks, Typed, Shape
<1>2. CASE WindowEnds
  BY <1>2 DEF WindowEnds, tasks, owner
<1>3. ASSUME NEW c \in Conns, ContestantStep(c), ~ContestantConnects(c)
      PROVE  UNCHANGED <<session, owner, nego, tasks>>
  BY <1>3 DEF ContestantStep, ContestantGreets, ContestantReplies, ContestantLeaves, joining
<1>4. CASE UNCHANGED vars
  BY <1>4 DEF vars, session, owner, joining, tasks
<1>5. QED
  BY <1>1, <1>2, <1>3, <1>4 DEF Next, ServerStep, Finished, Joining, Counting, session, owner,
     tasks

-----------------------------------------------------------------------------
(* Who owns a connection. *)

\* A thread that is still negotiating does so within the joining window.
Registered ==
  /\ OneReaderPerConnection
  /\ \A c \in Conns : nego[c] \in {"reading", "replying"} => state = "STARTING"

LEMMA CountingKeepsSession ==
  ASSUME Counting
  PROVE  UNCHANGED <<state, contestants, nego>>
BY DEF Counting, PlayRound, RoundOver, TaskStep, SendQuestion, ReadAnswer, IncreaseScore, LoadStat,
   StoreStat, session, joining

LEMMA RegisteredStep == Typed /\ Registered /\ [Next]_vars => Registered'
<1> SUFFICES ASSUME Typed, Registered, [Next]_vars PROVE Registered'
  OBVIOUS
<1>1. CASE JoinThreads
  BY <1>1 DEF JoinThreads, joining, Registered, OneReaderPerConnection, Joined, Typed, TypeOK,
     SessionOK
<1>2. ASSUME NEW c \in Conns, NegotiationStep(c) PROVE Registered'
  <2>1. CASE Accept(c)
    BY <2>1 DEF Accept, session, Registered, OneReaderPerConnection, Joined, Typed, Shape, TypeOK,
       SessionOK, JoiningOK
  <2>2. CASE ReadHello(c)
    BY <2>2 DEF ReadHello, session, Registered, OneReaderPerConnection, Joined, Typed, TypeOK,
       SessionOK, JoiningOK
  <2>3. CASE HelloLost(c)
    BY <2>3 DEF HelloLost, HangUp, session, Registered, OneReaderPerConnection, Joined, Typed,
       TypeOK, SessionOK, JoiningOK
  <2>4. CASE RefuseHello(c)
    BY <2>4 DEF RefuseHello, HangUp, session, Registered, OneReaderPerConnection, Joined, Typed,
       TypeOK, SessionOK, JoiningOK
  <2>5. CASE AdmitContestant(c)
    <3>1. CASE UNCHANGED contestants
      BY <2>5, <3>1 DEF AdmitContestant, HangUp, Registered, OneReaderPerConnection, Joined, Typed,
         TypeOK, SessionOK, JoiningOK
    <3>2. CASE contestants' = [n \in Joined \cup {req[c].nick} |->
                                 IF n = req[c].nick THEN c ELSE contestants[n]]
               /\ nego' = [nego EXCEPT ![c] = "done"]
      <4>1. \A n \in Joined : contestants[n] # c
        BY <2>5 DEF AdmitContestant, Registered, OneReaderPerConnection
      <4>2. QED
        BY <2>5, <3>2, <4>1 DEF AdmitContestant, Registered, OneReaderPerConnection, Joined, Typed,
           TypeOK, SessionOK, JoiningOK
    <3>3. QED
      BY <2>5, <3>1, <3>2 DEF AdmitContestant
  <2>6. QED
    BY <1>2, <2>1, <2>2, <2>3, <2>4, <2>5 DEF NegotiationStep
<1>3. ASSUME NEW c \in Conns, ContestantConnects(c) PROVE Registered'
  BY <1>3 DEF ContestantConnects, session, Registered, OneReaderPerConnection, Joined, Typed,
     TypeOK, SessionOK, JoiningOK
<1>4. CASE Counting
  BY <1>4, CountingKeepsSession DEF Registered, OneReaderPerConnection, Joined
<1>5. CASE ~Joining /\ ~Counting
  BY <1>5, Frame DEF Registered, OneReaderPerConnection, Joined
<1>6. QED
  BY <1>1, <1>2, <1>3, <1>4, <1>5 DEF Joining

LEMMA RegisteredInvariant == Spec => [](Typed /\ Registered)
<1>1. Init => Registered
  BY DEF Init, Registered, OneReaderPerConnection, Joined
<1>2. QED
  BY <1>1, InitTyped, NextTyped, RegisteredStep, PTL DEF Spec

\* No two threads ever read the connection of one contestant, whatever the
\* contestants ask for and whenever they leave (ContestSession.cpp:248-256).
THEOREM ConnectionsOwned == Spec => []OneReaderPerConnection
<1>1. Registered => OneReaderPerConnection
  BY DEF Registered
<1>2. QED
  BY <1>1, RegisteredInvariant, PTL

LEMMA RosterStep ==
  Typed /\ Registered /\ [Next]_vars /\ state # "STARTING" => contestants' = contestants
<1> SUFFICES ASSUME Typed, Registered, [Next]_vars, state # "STARTING"
             PROVE  contestants' = contestants
  OBVIOUS
<1>1. ASSUME NEW c \in Conns, NegotiationStep(c) PROVE contestants' = contestants
  BY <1>1 DEF NegotiationStep, Accept, ReadHello, HelloLost, AdmitContestant, RefuseHello, session,
     Registered
<1>2. ASSUME NEW c \in Conns, ContestantConnects(c) PROVE contestants' = contestants
  BY <1>2 DEF ContestantConnects, session
<1>3. CASE JoinThreads
  BY <1>3 DEF JoinThreads
<1>4. QED
  BY <1>1, <1>2, <1>3, CountingKeepsSession, Frame DEF Joining

\* Nobody joins outside the window: when the rounds begin no negotiation is
\* left (ContestSession.cpp:273-278).
THEOREM NobodyJoinsLate == Spec => RosterFrozen
<1>1. Typed /\ Registered /\ [Next]_vars => [state # "STARTING" => contestants' = contestants]_vars
  BY RosterStep
<1>2. QED
  BY <1>1, RegisteredInvariant, PTL DEF Spec, RosterFrozen

-----------------------------------------------------------------------------
(* Scores. *)

Scores ==
  /\ MaxIsBestScore
  /\ state \in {"READY", "STARTING"} => max = 0 /\ \A n \in Nicks : score[n] = 0

LEMMA JoiningKeepsScores ==
  ASSUME Joining, ~JoinThreads
  PROVE  UNCHANGED <<state, score, max, stats, tasks, owner>> /\ Joined \subseteq Joined'
<1>1. ASSUME NEW c \in Conns, NegotiationStep(c)
      PROVE  UNCHANGED <<state, score, max, stats, tasks, owner>> /\ Joined \subseteq Joined'
  BY <1>1 DEF NegotiationStep, Accept, ReadHello, HelloLost, AdmitContestant, RefuseHello, session,
     Joined
<1>2. ASSUME NEW c \in Conns, ContestantConnects(c)
      PROVE  UNCHANGED <<state, score, max, stats, tasks, owner>> /\ Joined \subseteq Joined'
  BY <1>2 DEF ContestantConnects, session, Joined
<1>3. QED
  BY <1>1, <1>2 DEF Joining

LEMMA ScoresStep == Typed /\ Scores /\ [Next]_vars => Scores'
<1> SUFFICES ASSUME Typed, Scores, [Next]_vars PROVE Scores'
  OBVIOUS
<1>1. CASE JoinThreads
  BY <1>1 DEF JoinThreads, Scores, MaxIsBestScore, Typed, Shape
<1>2. CASE Joining /\ ~JoinThreads
  BY <1>2, JoiningKeepsScores DEF Scores, MaxIsBestScore
<1>3. ASSUME NEW n \in Nicks, IncreaseScore(n) PROVE Scores'
  <2>1. n \in Joined /\ state = "RUNNING"
    BY <1>3 DEF IncreaseScore, Typed, Shape
  <2>2. score' = [score EXCEPT ![n] = score[n] + 1] /\ max' = Larger(score[n] + 1, max)
    BY <1>3 DEF IncreaseScore
  <2>3. \A m \in Nicks : score[m] \in Nat /\ max \in Nat
    BY DEF Typed, TypeOK, SessionOK
  <2>4. \A m \in Nicks : score'[m] <= max'
    BY <2>2, <2>3 DEF Larger, Scores, MaxIsBestScore, Typed, TypeOK, SessionOK
  <2>5. \E m \in Joined' : score'[m] = max'
    <3>1. Joined' = Joined
      BY <1>3 DEF IncreaseScore, Joined
    <3>2. CASE score[n] + 1 >= max
      BY <2>1, <2>2, <3>1, <3>2 DEF Larger, Typed, TypeOK, SessionOK
    <3>3. CASE ~(score[n] + 1 >= max)
      <4>1. PICK m \in Joined : score[m] = max
        BY <2>3, <3>3 DEF Scores, MaxIsBestScore
      <4>2. m # n /\ m \in Nicks
        BY <2>3, <3>3, <4>1 DEF Typed, TypeOK, SessionOK
      <4>3. score'[m] = max'
        BY <2>2, <3>3, <4>1, <4>2 DEF Larger, Typed, TypeOK, SessionOK
      <4>4. QED
        BY <3>1, <4>1, <4>3
    <3>4. QED
      BY <3>2, <3>3
  <2>6. QED
    BY <1>3, <2>1, <2>4, <2>5 DEF IncreaseScore, Scores, MaxIsBestScore
<1>4. CASE Counting /\ ~Scoring
  BY <1>4 DEF Counting, Scoring, PlayRound, RoundOver, TaskStep, SendQuestion, ReadAnswer, LoadStat,
     StoreStat, session, Scores, MaxIsBestScore, Joined
<1>5. CASE ~Joining /\ ~Counting
  BY <1>5, Frame DEF Scores, MaxIsBestScore, Joined
<1>6. QED
  BY <1>1, <1>2, <1>3, <1>4, <1>5 DEF Scoring

\* _max never lags behind a score nor runs ahead of all of them, although the
\* tasks of a round raise both in any order (ContestSession.cpp:87-90).
THEOREM MaxCorrect == Spec => []MaxIsBestScore
<1>1. Init => Scores
  BY DEF Init, Scores, MaxIsBestScore
<1>2. Scores => MaxIsBestScore
  BY DEF Scores
<1>3. QED
  BY <1>1, <1>2, InitTyped, NextTyped, ScoresStep, PTL DEF Spec

-----------------------------------------------------------------------------
(* Statistics. *)

InRound == pc \in {"playing", "telling", "acking"}

\* A task about to store has loaded no more than was counted, and is not
\* counted itself; a question still to be played has a statistic of zero.
Counts ==
  /\ StatsInvented
  /\ InRound => \A n \in Nicks :
       /\ task[n] = "storing" => reg[n] <= Cardinality(Counted)
       /\ won[n] => task[n] = "done"
  /\ \A i, j \in DOMAIN todo : todo[i].op = "play" /\ todo[i] = todo[j] => i = j
  /\ \A i \in DOMAIN todo : \A q \in Questions :
       todo[i] = Play(q) /\ stats[q] # 0 => i = 1 /\ pc \in {"playing", "telling", "acking", "threw"}

\* The last two conjuncts of Counts survive the end of a call.
LEMMA TodoTail ==
  ASSUME TypeOK, Counts, todo # << >>, todo' = Tail(todo), UNCHANGED stats
  PROVE  /\ \A i, j \in DOMAIN todo' : todo'[i].op = "play" /\ todo'[i] = todo'[j] => i = j
         /\ \A i \in DOMAIN todo' : \A q \in Questions : todo'[i] = Play(q) => stats'[q] = 0
<1>1. todo \in Seq(Calls)
  BY DEF TypeOK, OwnerOK
<1>2. \A i \in DOMAIN todo' : i + 1 \in DOMAIN todo /\ todo'[i] = todo[i + 1] /\ i \in Nat /\ i > 0
  BY <1>1
<1>3. ASSUME NEW i \in DOMAIN todo', NEW j \in DOMAIN todo',
             todo'[i].op = "play", todo'[i] = todo'[j]
      PROVE  i = j
  BY <1>2, <1>3 DEF Counts
<1>4. ASSUME NEW i \in DOMAIN todo', NEW q \in Questions, todo'[i] = Play(q)
      PROVE  stats'[q] = 0
  <2>1. i + 1 # 1
    BY <1>2
  <2>2. QED
    BY <1>2, <1>4, <2>1 DEF Counts
<1>5. QED
  BY <1>3, <1>4

LEMMA CountedFinite ==
  ASSUME TypeOK
  PROVE  IsFiniteSet(Counted) /\ Cardinality(Counted) \in Nat
BY NicksAssumption, FS_Subset, FS_CardinalityType DEF Counted

LEMMA PlayRoundCounts == Typed /\ Counts /\ PlayRound => Counts'
<1> SUFFICES ASSUME Typed, Counts, PlayRound PROVE Counts'
  OBVIOUS
<1>1. Counted' = {}
  BY DEF PlayRound, Counted
<1>2. qid' \in Questions /\ todo' = todo /\ stats' = stats /\ todo # << >> /\ 1 \in DOMAIN todo
  BY DEF PlayRound, session, Typed, TypeOK, OwnerOK
<1>3. todo[1] = Play(qid')
  <2>1. Head(todo) \in Calls /\ Head(todo) = todo[1]
    BY <1>2 DEF Typed, TypeOK, OwnerOK
  <2>2. QED
    BY <2>1 DEF PlayRound, Calls, Play, Start, Terminate
<1>4. stats'[qid'] = 0
  BY <1>2, <1>3 DEF Counts, PlayRound
<1>5. StatsInvented'
  BY <1>1, <1>4, FS_EmptySet DEF StatsInvented
<1>6. QED
  BY <1>2, <1>5 DEF Counts, PlayRound, InRound, Typed, TypeOK, TasksOK

LEMMA StoreStatCounts ==
  ASSUME Typed, Counts, NEW n \in Nicks, StoreStat(n)
  PROVE  Counts'
<1>1. pc = "playing" /\ qid \in Questions /\ task[n] = "storing"
  BY DEF StoreStat, Typed, Shape
<1>2. ~won[n] /\ reg[n] <= Cardinality(Counted) /\ reg[n] \in Nat
  BY <1>1 DEF Counts, InRound, Typed, TypeOK, TasksOK
<1>3. Counted' = Counted \cup {n} /\ n \notin Counted
  BY <1>2 DEF StoreStat, Counted, Typed, TypeOK, TasksOK
<1>4. Cardinality(Counted') = Cardinality(Counted) + 1 /\ Cardinality(Counted) \in Nat
  BY <1>3, CountedFinite, FS_AddElement DEF Typed
<1>5. stats' = [stats EXCEPT ![qid] = reg[n] + 1] /\ stats'[qid] = reg[n] + 1
      /\ pc' = pc /\ qid' = qid /\ todo' = todo /\ reg' = reg
  BY <1>1 DEF StoreStat, owner, Typed, TypeOK, SessionOK
<1>6. StatsInvented'
  BY <1>2, <1>4, <1>5 DEF StatsInvented
<1>7. ASSUME NEW m \in Nicks
      PROVE  /\ task'[m] = "storing" => reg'[m] <= Cardinality(Counted')
             /\ won'[m] => task'[m] = "done"
  <2>1. CASE m = n
    BY <2>1 DEF StoreStat, Typed, TypeOK, TasksOK
  <2>2. CASE m # n
    <3>1. task'[m] = task[m] /\ won'[m] = won[m] /\ reg'[m] = reg[m] /\ reg[m] \in Nat
      BY <2>2 DEF StoreStat, Typed, TypeOK, TasksOK
    <3>2. QED
      BY <3>1, <1>1, <1>4 DEF Counts, InRound
  <2>3. QED
    BY <2>1, <2>2
<1>8. ASSUME NEW i \in DOMAIN todo', NEW q \in Questions, todo'[i] = Play(q), stats'[q] # 0
      PROVE  i = 1
  <2>1. CASE q = qid
    <3>1. todo \in Seq(Calls) /\ todo # << >> /\ 1 \in DOMAIN todo /\ todo[1] = Play(qid)
      BY <1>1 DEF Typed, TypeOK, OwnerOK, Shape
    <3>2. QED
      BY <1>5, <1>8, <2>1, <3>1 DEF Counts, Play
  <2>2. CASE q # qid
    BY <1>5, <1>8, <2>2 DEF Counts, Typed, TypeOK, SessionOK
  <2>3. QED
    BY <2>1, <2>2
<1>9. QED
  BY <1>1, <1>5, <1>6, <1>7, <1>8 DEF Counts

LEMMA LoadStatCounts ==
  ASSUME Typed, Counts, NEW n \in Nicks, LoadStat(n)
  PROVE  Counts'
<1>1. pc = "playing" /\ qid \in Questions
  BY DEF LoadStat, Typed, Shape
<1>2. stats[qid] <= Cardinality(Counted) /\ stats[qid] \in Nat
  BY <1>1 DEF Counts, StatsInvented, Typed, TypeOK, SessionOK
<1>3. UNCHANGED <<pc, qid, todo, stats, won, Counted>>
  BY DEF LoadStat, session, owner, Counted
<1>4. ASSUME NEW m \in Nicks
      PROVE  /\ task'[m] = "storing" => reg'[m] <= Cardinality(Counted')
             /\ won'[m] => task'[m] = "done"
  BY <1>1, <1>2, <1>3 DEF LoadStat, Counts, InRound, Typed, TypeOK, TasksOK
<1>5. QED
  BY <1>3, <1>4 DEF Counts, StatsInvented, InRound

LEMMA OtherTaskCounts ==
  ASSUME Typed, Counts, NEW n \in Nicks, SendQuestion(n) \/ ReadAnswer(n) \/ IncreaseScore(n)
  PROVE  Counts'
<1>1. UNCHANGED <<pc, qid, todo, stats, won, reg, Counted>>
  BY DEF SendQuestion, ReadAnswer, IncreaseScore, session, owner, Counted
<1>2. pc = "playing" /\ task[n] \notin {"none", "done"}
  BY DEF SendQuestion, ReadAnswer, IncreaseScore, Typed, Shape
<1>3. ASSUME NEW m \in Nicks
      PROVE  /\ task'[m] = "storing" => task[m] = "storing"
             /\ won[m] => task'[m] = "done"
  BY <1>2 DEF SendQuestion, ReadAnswer, IncreaseScore, Counts, InRound, Typed, TypeOK, TasksOK
<1>4. QED
  BY <1>1, <1>2, <1>3 DEF Counts, StatsInvented, InRound

LEMMA CountsStep == Typed /\ Counts /\ [Next]_vars => Counts'
<1> SUFFICES ASSUME Typed, Counts, [Next]_vars PROVE Counts'
  OBVIOUS
<1>1. CASE JoinThreads
  <2>1. todo # << >> /\ ~InRound /\ ~InRound' /\ todo' = Tail(todo) /\ stats' = stats
    BY <1>1 DEF JoinThreads, InRound, Typed, Shape
  <2>2. QED
    BY <2>1, TodoTail DEF Counts, StatsInvented, InRound, Typed
<1>2. CASE RoundOver
  <2>1. todo # << >> /\ ~InRound' /\ todo' = Tail(todo) /\ stats' = stats
    BY <1>2 DEF RoundOver, InRound, Typed, Shape, session
  <2>2. QED
    BY <2>1, TodoTail DEF Counts, StatsInvented, InRound, Typed
<1>3. CASE SessionOver
  <2>1. todo # << >> /\ ~InRound' /\ todo' = Tail(todo) /\ stats' = stats
    BY <1>3 DEF SessionOver, InRound, Typed, Shape
  <2>2. QED
    BY <2>1, TodoTail DEF Counts, StatsInvented, InRound, Typed
<1>4. CASE PlayRound
  BY <1>4, PlayRoundCounts
<1>5. ASSUME NEW n \in Nicks, TaskStep(n) PROVE Counts'
  BY <1>5, StoreStatCounts, LoadStatCounts, OtherTaskCounts DEF TaskStep
<1>6. CASE Joining /\ ~JoinThreads
  BY <1>6, JoiningKeepsScores DEF Counts, StatsInvented, InRound, Counted, owner, tasks
<1>7. CASE ~Joining /\ ~Counting /\ ~SessionOver
  <2>1. UNCHANGED <<stats, won, reg, task, qid, Counted>> /\ (InRound' => InRound)
    BY <1>7, Frame DEF Counted, InRound
  <2>2. UNCHANGED todo /\ (pc \in {"playing", "telling", "acking", "threw"} =>
                           pc' \in {"playing", "telling", "acking", "threw"})
    BY <1>7 DEF Next, ServerStep, Finished, OwnerStep, StartSession, AcceptTimedOut, AcceptFails,
       AllAnswered, TellResult, ReadResultAck, TerminateSession, SayBye, ReadByeAck, CallRefused,
       WindowEnds, ContestantStep, ContestantGreets, ContestantReplies, ContestantLeaves,
       Joining, Counting, owner, vars
  <2>3. QED
    BY <2>1, <2>2 DEF Counts, StatsInvented, InRound
<1>8. QED
  BY <1>1, <1>2, <1>3, <1>4, <1>5, <1>6, <1>7 DEF Counting

\* However the tasks interleave, the unlocked counter of a question never shows
\* more right answers than were given, and never zero when there was one
\* (ContestSession.cpp:91).
THEOREM StatsCorrect == Spec => []StatsInvented
<1>1. Init => Counts
  BY ScriptsAssumption DEF Init, Counts, StatsInvented, InRound
<1>2. Counts => StatsInvented
  BY DEF Counts
<1>3. QED
  BY <1>1, <1>2, InitTyped, NextTyped, CountsStep, PTL DEF Spec

-----------------------------------------------------------------------------
(* Refinement: run() plays the abstract contest. *)

\* How far run() is: the calls left are the end of its script.
Program ==
  /\ Len(todo) <= NumQuestions + 2
  /\ \A i \in 1..Len(todo) : todo[i] = RunScript[NumQuestions + 2 - Len(todo) + i]
  /\ state \in {"READY", "STARTING"} => Len(todo) = NumQuestions + 2 /\ qid = 0
  /\ state = "RUNNING" => Len(todo) \in 1..(NumQuestions + 1)
  /\ pc \in {"idle", "closing", "closeack"} /\ state = "RUNNING" => qid = NumQuestions + 1 - Len(todo)
  /\ pc \in {"closing", "closeack"} => Head(todo) = Terminate

LEMMA QuestionInPlay ==
  ASSUME Typed, Program, todo # << >>, Head(todo).op = "play", state = "RUNNING"
  PROVE  Head(todo).qId = NumQuestions + 2 - Len(todo) /\ Len(todo) >= 2
<1>1. Len(todo) \in 1..(NumQuestions + 1) /\ Head(todo) = todo[1]
  BY DEF Typed, TypeOK, OwnerOK, Program
<1>2. Head(todo) = RunScript[NumQuestions + 3 - Len(todo)]
  BY <1>1, QuestionsAssumption DEF Program
<1>3. NumQuestions + 3 - Len(todo) \in 2..(NumQuestions + 2)
  BY <1>1, QuestionsAssumption
<1>4. Head(todo) = IF NumQuestions + 3 - Len(todo) = NumQuestions + 2
                     THEN Terminate ELSE Play(NumQuestions + 2 - Len(todo))
  BY <1>1, <1>2, <1>3, QuestionsAssumption DEF RunScript
<1>5. NumQuestions + 3 - Len(todo) # NumQuestions + 2
  BY <1>4 DEF Terminate
<1>6. QED
  BY <1>1, <1>4, <1>5, QuestionsAssumption DEF Play

LEMMA TerminateIsLast ==
  ASSUME Typed, Program, todo # << >>, Head(todo) = Terminate, state = "RUNNING"
  PROVE  Len(todo) = 1
<1>1. Len(todo) \in 1..(NumQuestions + 1) /\ Head(todo) = todo[1]
  BY DEF Typed, TypeOK, OwnerOK, Program
<1>2. Head(todo) = RunScript[NumQuestions + 3 - Len(todo)]
  BY <1>1, QuestionsAssumption DEF Program
<1>3. CASE NumQuestions + 3 - Len(todo) = NumQuestions + 2
  BY <1>1, <1>3, QuestionsAssumption
<1>4. CASE NumQuestions + 3 - Len(todo) # NumQuestions + 2
  <2>1. Head(todo) = Play(NumQuestions + 2 - Len(todo))
    BY <1>1, <1>2, <1>4, QuestionsAssumption DEF RunScript
  <2>2. QED
    BY <2>1 DEF Play, Terminate
<1>5. QED
  BY <1>3, <1>4

LEMMA TailProgram ==
  ASSUME TypeOK, Program, todo # << >>, todo' = Tail(todo)
  PROVE  /\ Len(todo') = Len(todo) - 1
         /\ \A i \in 1..Len(todo') : todo'[i] = RunScript[NumQuestions + 2 - Len(todo') + i]
<1>1. todo \in Seq(Calls) /\ Len(todo) \in Nat
  BY DEF TypeOK, OwnerOK
<1>2. Len(todo') = Len(todo) - 1
  BY <1>1
<1>3. ASSUME NEW i \in 1..Len(todo')
      PROVE  todo'[i] = RunScript[NumQuestions + 2 - Len(todo') + i]
  <2>1. i + 1 \in 1..Len(todo) /\ todo'[i] = todo[i + 1]
    BY <1>1, <1>2
  <2>2. NumQuestions + 2 - Len(todo) + (i + 1) = NumQuestions + 2 - Len(todo') + i
    BY <1>1, <1>2, QuestionsAssumption
  <2>3. QED
    BY <2>1, <2>2 DEF Program
<1>4. QED
  BY <1>2, <1>3

LEMMA ProgramStep == Typed /\ Program /\ [Next]_vars => Program'
<1> SUFFICES ASSUME Typed, Program, [Next]_vars PROVE Program'
  OBVIOUS
<1>0. todo \in Seq(Calls) /\ Len(todo) \in Nat
  BY DEF Typed, TypeOK, OwnerOK
<1>1. CASE JoinThreads
  BY <1>1, QuestionsAssumption DEF JoinThreads, Program, Typed, Shape, TypeOK, OwnerOK
<1>2. CASE RoundOver
  <2>1. todo # << >> /\ state = "RUNNING" /\ Head(todo) = Play(qid) /\ TypeOK
    BY <1>2 DEF RoundOver, Typed, Shape
  <2>2. qid = NumQuestions + 2 - Len(todo) /\ Len(todo) >= 2
    BY <2>1, QuestionInPlay DEF Play
  <2>3. todo' = Tail(todo) /\ qid' = qid /\ state' = state /\ pc' = "idle"
    BY <1>2 DEF RoundOver, session
  <2>4. QED
    BY <1>0, <2>1, <2>2, <2>3, TailProgram, QuestionsAssumption DEF Program
<1>3. CASE SessionOver
  <2>1. todo # << >> /\ TypeOK /\ todo' = Tail(todo) /\ state' = "TERMINATED" /\ pc' = "idle"
    BY <1>3 DEF SessionOver, Typed, Shape
  <2>2. QED
    BY <1>0, <2>1, TailProgram, QuestionsAssumption DEF Program
<1>4. CASE PlayRound
  BY <1>4, QuestionsAssumption DEF PlayRound, Program, session
<1>5. CASE TerminateSession
  BY <1>5, QuestionsAssumption DEF TerminateSession, Program, session
<1>6. ASSUME NEW n \in Nicks, TaskStep(n) PROVE Program'
  BY <1>6 DEF TaskStep, SendQuestion, ReadAnswer, IncreaseScore, LoadStat, StoreStat, session,
     owner, Program
<1>7. CASE Joining /\ ~JoinThreads
  BY <1>7, JoiningKeepsScores DEF Program, owner
<1>8. CASE ~Joining /\ ~Counting /\ ~SessionOver /\ ~TerminateSession
  <2>1. UNCHANGED todo /\ UNCHANGED qid
        /\ (pc' \in {"idle", "closing", "closeack"} => pc \in {"idle", "closing", "closeack"})
        /\ (pc' \in {"closing", "closeack"} => pc \in {"closing", "closeack"})
        /\ (state' = state \/ (state = "READY" /\ state' = "STARTING"))
    <3>1. CASE OwnerStep
      BY <1>8, <3>1 DEF OwnerStep, StartSession, AcceptTimedOut, AcceptFails, AllAnswered,
         TellResult, ReadResultAck, SayBye, ReadByeAck, CallRefused, Joining, Counting, session,
         owner
    <3>2. CASE WindowEnds
      BY <3>2 DEF WindowEnds, owner
    <3>3. ASSUME NEW c \in Conns, ContestantStep(c), ~ContestantConnects(c)
          PROVE  UNCHANGED <<session, owner>>
      BY <3>3 DEF ContestantStep, ContestantGreets, ContestantReplies, ContestantLeaves
    <3>4. CASE UNCHANGED vars
      BY <3>4 DEF vars, session, owner
    <3>5. QED
      BY <1>8, <3>1, <3>2, <3>3, <3>4 DEF Next, ServerStep, Finished, Joining, Counting, session,
         owner
  <2>2. QED
    BY <2>1 DEF Program
<1>9. QED
  BY <1>1, <1>2, <1>3, <1>4, <1>5, <1>6, <1>7, <1>8 DEF Counting

LEMMA InitAbstract == Init => Abstract!Init
BY DEF Init, Abstract!Init, Phase, Judged, Points, GivenThisRound, Joined

\* Whatever keeps these five keeps the abstract state.
LEMMA Stutter ==
  ASSUME UNCHANGED <<state, contestants, Judged, Points>>
  PROVE  UNCHANGED <<Phase, Joined, Judged, Points>>
BY DEF Phase, Joined

\* A contestant is given its point once, between being right and the judging.
LEMMA TaskAbstract ==
  ASSUME Typed, Counts, NEW n \in Nicks, TaskStep(n)
  PROVE  UNCHANGED <<Phase, Joined, Judged, Points>>
<1>1. pc = "playing" /\ task[n] \notin {"none", "done"}
  BY DEF TaskStep, SendQuestion, ReadAnswer, IncreaseScore, LoadStat, StoreStat, Typed, Shape
<1>2. ~won[n]
  BY <1>1 DEF Counts, InRound
<1>3. UNCHANGED <<state, contestants, pc, qid>>
  BY DEF TaskStep, SendQuestion, ReadAnswer, IncreaseScore, LoadStat, StoreStat, session, owner
<1>4. ASSUME NEW m \in Nicks
      PROVE  (IF GivenThisRound(m) THEN score[m] - 1 ELSE score[m])'
               = (IF GivenThisRound(m) THEN score[m] - 1 ELSE score[m])
  <2>1. CASE m # n
    BY <1>3, <2>1 DEF TaskStep, SendQuestion, ReadAnswer, IncreaseScore, LoadStat, StoreStat,
       session, GivenThisRound, Typed, TypeOK, SessionOK, TasksOK
  <2>2. CASE m = n /\ (SendQuestion(n) \/ ReadAnswer(n))
    BY <1>1, <1>2, <2>2 DEF SendQuestion, ReadAnswer, session, GivenThisRound, Typed, TypeOK,
       TasksOK
  <2>3. CASE m = n /\ IncreaseScore(n)
    BY <1>1, <1>2, <1>3, <2>3 DEF IncreaseScore, GivenThisRound, Typed, TypeOK, SessionOK, TasksOK
  <2>4. CASE m = n /\ (LoadStat(n) \/ StoreStat(n))
    BY <1>1, <1>3, <2>4 DEF LoadStat, StoreStat, session, GivenThisRound, Typed, TypeOK,
       SessionOK, TasksOK
  <2>5. QED
    BY <2>1, <2>2, <2>3, <2>4 DEF TaskStep
<1>5. Points' = Points
  BY <1>4 DEF Points
<1>6. QED
  BY <1>3, <1>5 DEF Phase, Joined, Judged

LEMMA AllAnsweredAbstract ==
  ASSUME Typed, Counts, Program, AllAnswered
  PROVE  Abstract!Next
<1>1. state = "RUNNING" /\ todo # << >> /\ Head(todo) = Play(qid) /\ pc = "playing" /\ pc' = "telling"
      /\ UNCHANGED <<session, qid, won, task>>
  BY DEF AllAnswered, Typed, Shape, tasks
<1>2. qid \in 1..NumQuestions
  BY <1>1 DEF Typed, Shape, Questions
<1>3. Counted \subseteq Joined
  BY <1>1 DEF Counted, Counts, InRound, Typed, Shape
<1>4. ASSUME NEW n \in Nicks PROVE GivenThisRound(n) <=> n \in Counted
  BY <1>1 DEF GivenThisRound, Counted, AllAnswered, Typed, Shape, TypeOK, TasksOK
<1>5. Points' = [n \in Nicks |-> IF n \in Counted THEN Points[n] + 1 ELSE Points[n]]
  <2>1. ASSUME NEW n \in Nicks
        PROVE  Points'[n] = IF n \in Counted THEN Points[n] + 1 ELSE Points[n]
    <3>1. Points'[n] = score[n]
      BY <1>1 DEF Points, GivenThisRound, session
    <3>2. QED
      BY <1>4, <3>1 DEF Points, Typed, TypeOK, SessionOK
  <2>2. QED
    BY <2>1 DEF Points
<1>6. Judged = qid - 1 /\ Judged' = Judged + 1 /\ Judged < NumQuestions
  BY <1>1, <1>2, QuestionsAssumption DEF Judged
<1>7. Abstract!Judge(Counted)
  BY <1>1, <1>5, <1>6 DEF Abstract!Judge, Phase, Joined, session
<1>8. QED
  BY <1>3, <1>7 DEF Abstract!Next

LEMMA AdmitAbstract ==
  ASSUME Typed, Registered, NEW c \in Conns, NegotiationStep(c)
  PROVE  Abstract!Next \/ UNCHANGED <<Phase, Joined, Judged, Points>>
<1>1. UNCHANGED <<state, score, owner, tasks>>
  BY DEF NegotiationStep, Accept, ReadHello, HelloLost, AdmitContestant, RefuseHello, session
<1>2. UNCHANGED <<Phase, Judged, Points>>
  BY <1>1 DEF Phase, Judged, Points, GivenThisRound, owner, tasks
<1>3. CASE UNCHANGED contestants
  BY <1>2, <1>3 DEF Joined
<1>4. CASE contestants' # contestants
  <2>1. AdmitContestant(c)
    BY <1>4 DEF NegotiationStep, Accept, ReadHello, HelloLost, RefuseHello, session
  <2>2. req[c].nick \in Nicks \ Joined /\ Joined' = Joined \cup {req[c].nick} /\ state = "STARTING"
    BY <1>4, <2>1 DEF AdmitContestant, Acceptable, Hellos, Hello, Joined, Registered
  <2>3. Abstract!Join(req[c].nick)
    BY <1>2, <2>2 DEF Abstract!Join, Phase
  <2>4. QED
    BY <2>2, <2>3 DEF Abstract!Next
<1>5. QED
  BY <1>3, <1>4

\* Away from the tasks nothing moves between a score and the abstract points.
LEMMA AwayFromTasks ==
  ASSUME UNCHANGED <<state, contestants, score, qid>>, pc # "playing", pc' # "playing"
  PROVE  UNCHANGED <<Phase, Joined, Judged, Points>>
BY DEF Phase, Joined, Judged, Points, GivenThisRound

LEMMA OwnerAbstract ==
  ASSUME Typed, Program, Counts, OwnerStep
  PROVE  Abstract!Next \/ UNCHANGED <<Phase, Joined, Judged, Points>>
<1>1. CASE JoinThreads
  <2>1. state = "STARTING" /\ state' = "RUNNING" /\ UNCHANGED <<contestants, score, qid>>
        /\ pc # "playing" /\ pc' # "playing"
    BY <1>1 DEF JoinThreads, Typed, Shape
  <2>2. Abstract!Begin
    BY <2>1 DEF Abstract!Begin, Phase, Joined, Judged, Points, GivenThisRound
  <2>3. QED
    BY <2>2 DEF Abstract!Next
<1>2. CASE PlayRound
  <2>1. todo # << >> /\ state = "RUNNING" /\ pc = "idle" /\ pc' = "playing"
        /\ qid' = NumQuestions + 2 - Len(todo) /\ UNCHANGED session
    BY <1>2, QuestionInPlay DEF PlayRound
  <2>2. qid = NumQuestions + 1 - Len(todo) /\ Len(todo) \in Nat
    BY <2>1 DEF Program, Typed, TypeOK, OwnerOK
  <2>3. Judged' = Judged
    BY <2>1, <2>2, QuestionsAssumption DEF Judged
  <2>4. \A n \in Nicks : ~GivenThisRound(n) /\ ~GivenThisRound(n)'
    BY <1>2, <2>1 DEF PlayRound, GivenThisRound
  <2>5. Points' = Points
    BY <2>1, <2>4 DEF Points, session
  <2>6. QED
    BY <2>1, <2>3, <2>5 DEF Phase, Joined, session
<1>3. CASE AllAnswered
  BY <1>3, AllAnsweredAbstract
<1>4. CASE SessionOver
  <2>1. todo # << >> /\ state = "RUNNING" /\ Head(todo) = Terminate /\ state' = "TERMINATED"
        /\ pc = "closing" /\ pc' = "idle" /\ UNCHANGED <<contestants, score, qid>>
    BY <1>4 DEF SessionOver, Typed, Shape, Program
  <2>2. Len(todo) = 1
    BY <2>1, TerminateIsLast
  <2>3. qid = NumQuestions
    BY <2>1, <2>2, QuestionsAssumption DEF Program
  <2>4. Abstract!End
    BY <2>1, <2>3 DEF Abstract!End, Phase, Joined, Judged, Points, GivenThisRound
  <2>5. QED
    BY <2>4 DEF Abstract!Next
<1>5. CASE StartSession
  <2>1. state = "READY" /\ state' = "STARTING" /\ UNCHANGED <<contestants, score, qid>>
        /\ pc = "idle" /\ pc' = "accepting"
    BY <1>5 DEF StartSession
  <2>2. QED
    BY <2>1 DEF Phase, Joined, Judged, Points, GivenThisRound
<1>6. CASE AcceptTimedOut \/ AcceptFails \/ TellResult \/ ReadResultAck \/ RoundOver
           \/ TerminateSession \/ SayBye \/ ReadByeAck \/ CallRefused
  <2>1. UNCHANGED <<state, contestants, score, qid>> /\ pc # "playing" /\ pc' # "playing"
    BY <1>6 DEF AcceptTimedOut, AcceptFails, TellResult, ReadResultAck, RoundOver,
       TerminateSession, SayBye, ReadByeAck, CallRefused, session, owner
  <2>2. QED
    BY <2>1, AwayFromTasks
<1>7. QED
  BY <1>1, <1>2, <1>3, <1>4, <1>5, <1>6 DEF OwnerStep

LEMMA NextAbstract ==
  ASSUME Typed, Registered, Counts, Program, [Next]_vars
  PROVE  Abstract!Next \/ UNCHANGED <<Phase, Joined, Judged, Points>>
<1>1. CASE OwnerStep
  BY <1>1, OwnerAbstract
<1>2. ASSUME NEW c \in Conns, NegotiationStep(c)
      PROVE  Abstract!Next \/ UNCHANGED <<Phase, Joined, Judged, Points>>
  BY <1>2, AdmitAbstract
<1>3. ASSUME NEW n \in Nicks, TaskStep(n)
      PROVE  UNCHANGED <<Phase, Joined, Judged, Points>>
  BY <1>3, TaskAbstract
<1>4. CASE UNCHANGED <<state, contestants, score, pc, qid, won, task>>
  BY <1>4 DEF Phase, Joined, Judged, Points, GivenThisRound
<1>5. CASE WindowEnds \/ (\E c \in Conns : ContestantStep(c)) \/ UNCHANGED vars
  <2>1. UNCHANGED <<state, contestants, score, pc, qid, won, task>>
    BY <1>5 DEF WindowEnds, ContestantStep, ContestantConnects, ContestantGreets,
       ContestantReplies, ContestantLeaves, vars, session, owner, tasks
  <2>2. QED
    BY <1>4, <2>1
<1>6. QED
  BY <1>1, <1>2, <1>3, <1>5 DEF Next, ServerStep, Finished

\* What run() does to its contestants is the abstract contest: every question is
\* played once and in order, one point a round at most, nobody joins late
\* (ContestSession.cpp:19-150).
THEOREM RunPlaysTheContest ==
  ASSUME Scripts = {RunScript}
  PROVE  Spec => PlaysTheContest
<1>1. Init => Program
  <2>1. RunScript \in Seq(Calls) /\ Len(RunScript) = NumQuestions + 2
    BY QuestionsAssumption, ScriptsAssumption DEF RunScript
  <2>2. QED
    BY <2>1, QuestionsAssumption DEF Init, Program
<1>2. Init => Registered
  BY DEF Init, Registered, OneReaderPerConnection, Joined
<1>3. Init => Counts
  BY ScriptsAssumption DEF Init, Counts, StatsInvented, InRound
<1>4. Typed /\ Registered /\ Counts /\ Program /\ [Next]_vars
        => [Abstract!Next]_<<Phase, Joined, Judged, Points>>
  BY NextAbstract
<1>5. QED
  BY <1>1, <1>2, <1>3, <1>4, InitTyped, NextTyped, RegisteredStep, CountsStep, ProgramStep,
     InitAbstract, PTL DEF Spec, PlaysTheContest, Abstract!Spec

-----------------------------------------------------------------------------
(* What the contestants are told after each round.                         *)

\* The owner's loop has not told n the results of this round yet.
NotToldYet(n) == n \in rest /\ (pc = "acking" => n # First(rest))

\* n has a point it was not told of.
PointDue(n) ==
  \/ pc = "playing" /\ (won[n] \/ task[n] \in {"loading", "storing"})
  \/ pc \in {"telling", "acking"} /\ NotToldYet(n) /\ won[n]

\* A score is what n was told it had right, and the point it is owed.  A round
\* that threw has told nothing of its last points, and nothing follows it.
Ledger ==
  /\ ResultsAddUp
  /\ pc = "playing" => rest = Joined
  /\ pc # "threw" => \A n \in Nicks :
       score[n] = Cardinality(RightIn(told[n])) + (IF PointDue(n) THEN 1 ELSE 0)

\* n was told the results of this round.
Told(n) == n \in Joined /\ pc \in {"telling", "acking"} /\ ~NotToldYet(n)

\* Everybody was told of k rounds, and those told of this one, of one more.
ToldOf(k) == \A n \in Joined : Len(told[n]) = IF Told(n) THEN k + 1 ELSE k

\* While the results go out, the last ones told are made of what they are still
\* made of.
StillTrue(n) ==
  LET last == told[n][Len(told[n])]
  IN  last.right = stats[qid] /\ last.total = Cardinality(Joined) /\ last.max = max

Chorus ==
  /\ ResultsAgree
  /\ \A n \in Nicks : n \notin Joined \/ state \in {"READY", "STARTING"} => told[n] = << >>
  /\ pc # "threw" => \E k \in Nat : ToldOf(k)
  /\ \A n \in Joined : Told(n) => StillTrue(n)

-----------------------------------------------------------------------------
(* Lemmas about lists of results. *)

LEMMA RightInFinite ==
  ASSUME NEW s \in Seq(Verdicts)
  PROVE  IsFiniteSet(RightIn(s)) /\ Cardinality(RightIn(s)) \in Nat
<1>1. RightIn(s) \subseteq 1..Len(s) /\ Len(s) \in Nat
  BY DEF RightIn
<1>2. IsFiniteSet(1..Len(s))
  BY <1>1, FS_Interval
<1>3. IsFiniteSet(RightIn(s))
  BY <1>1, <1>2, FS_Subset
<1>4. QED
  BY <1>3, FS_CardinalityType

\* One more result counts one more if it is a right answer.
LEMMA RightInAppend ==
  ASSUME NEW s \in Seq(Verdicts), NEW v \in Verdicts
  PROVE  /\ Cardinality(RightIn(Append(s, v))) = Cardinality(RightIn(s)) + (IF v.correct THEN 1 ELSE 0)
         /\ \A i \in 1..Len(s) : { j \in RightIn(Append(s, v)) : j <= i } = { j \in RightIn(s) : j <= i }
         /\ { j \in RightIn(Append(s, v)) : j <= Len(s) + 1 } = RightIn(Append(s, v))
<1> DEFINE t == Append(s, v)
<1>1. Len(s) \in Nat /\ Len(t) = Len(s) + 1 /\ DOMAIN t = 1..(Len(s) + 1) /\ DOMAIN s = 1..Len(s)
      /\ t[Len(s) + 1] = v /\ \A i \in 1..Len(s) : t[i] = s[i]
  OBVIOUS
<1>2. RightIn(t) = RightIn(s) \cup (IF v.correct THEN {Len(s) + 1} ELSE {})
  <2>1. ASSUME NEW i PROVE i \in 1..(Len(s) + 1) <=> (i \in 1..Len(s) \/ i = Len(s) + 1)
    BY <1>1
  <2> HIDE DEF t
  <2>2. QED
    BY <1>1, <2>1 DEF RightIn
<1>3. Len(s) + 1 \notin RightIn(s)
  BY <1>1 DEF RightIn
<1>4. Cardinality(RightIn(t)) = Cardinality(RightIn(s)) + (IF v.correct THEN 1 ELSE 0)
  <2>1. CASE v.correct
    BY <1>2, <1>3, <2>1, RightInFinite, FS_AddElement
  <2>2. CASE ~v.correct
    BY <1>2, <2>2, RightInFinite
  <2>3. QED
    BY <2>1, <2>2
<1>5. ASSUME NEW i \in 1..Len(s)
      PROVE  { j \in RightIn(t) : j <= i } = { j \in RightIn(s) : j <= i }
  <2>1. ~(Len(s) + 1 <= i)
    BY <1>1
  <2>2. QED
    BY <1>2, <2>1
<1>6. { j \in RightIn(t) : j <= Len(s) + 1 } = RightIn(t)
  BY <1>1 DEF RightIn
<1>7. QED
  BY <1>4, <1>5, <1>6

-----------------------------------------------------------------------------
(* Frames. *)

\* Only one action tells, and only the owner leaves the round.
LEMMA ToldFrame ==
  ASSUME [Next]_vars, ~TellResult
  PROVE  told' = told
<1>1. CASE OwnerStep
  BY <1>1 DEF OwnerStep, StartSession, AcceptTimedOut, AcceptFails, JoinThreads, PlayRound,
     AllAnswered, ReadResultAck, RoundOver, TerminateSession, SayBye, ReadByeAck, SessionOver,
     CallRefused
<1>2. CASE WindowEnds
  BY <1>2 DEF WindowEnds
<1>3. ASSUME NEW c \in Conns, NegotiationStep(c) PROVE told' = told
  BY <1>3 DEF NegotiationStep, Accept, ReadHello, HelloLost, AdmitContestant, RefuseHello
<1>4. ASSUME NEW n \in Nicks, TaskStep(n) PROVE told' = told
  BY <1>4 DEF TaskStep, SendQuestion, ReadAnswer, IncreaseScore, LoadStat, StoreStat
<1>5. ASSUME NEW c \in Conns, ContestantStep(c) PROVE told' = told
  BY <1>5 DEF ContestantStep, ContestantConnects, ContestantGreets, ContestantReplies,
     ContestantLeaves
<1>6. CASE UNCHANGED vars
  BY <1>6 DEF vars
<1>7. QED
  BY <1>1, <1>2, <1>3, <1>4, <1>5, <1>6 DEF Next, ServerStep, Finished

InsideRound ==
  \/ PlayRound \/ AllAnswered \/ TellResult \/ ReadResultAck \/ RoundOver
  \/ \E n \in Nicks : TaskStep(n)

\* Every other step leaves the owner where it is or finds and leaves it outside a
\* round, and changes no score, statistic or task.
LEMMA OutsideRound ==
  ASSUME Typed, [Next]_vars, ~InsideRound
  PROVE  /\ UNCHANGED <<score, stats, told, task, won, qid>>
         /\ UNCHANGED <<pc, rest>> \/ (~InRound /\ ~InRound')
         /\ max' = max \/ ~InRound
         /\ pc = "threw" => pc' = "threw"
<1>1. told' = told
  BY ToldFrame DEF InsideRound
<1>2. CASE OwnerStep
  BY <1>1, <1>2 DEF OwnerStep, StartSession, AcceptTimedOut, AcceptFails, JoinThreads,
     TerminateSession, SayBye, ReadByeAck, SessionOver, CallRefused, InsideRound, InRound,
     session, owner, tasks
<1>3. CASE WindowEnds
  BY <1>1, <1>3 DEF WindowEnds, owner, tasks
<1>4. ASSUME NEW c \in Conns, NegotiationStep(c)
      PROVE  UNCHANGED <<score, stats, max, owner, tasks>>
  BY <1>4 DEF NegotiationStep, Accept, ReadHello, HelloLost, AdmitContestant, RefuseHello, session
<1>5. ASSUME NEW c \in Conns, ContestantStep(c)
      PROVE  UNCHANGED <<score, stats, max, owner, tasks>>
  BY <1>5 DEF ContestantStep, ContestantConnects, ContestantGreets, ContestantReplies,
     ContestantLeaves, session
<1>6. CASE UNCHANGED vars
  BY <1>6 DEF vars, session, owner, tasks
<1>7. QED
  BY <1>1, <1>2, <1>3, <1>4, <1>5, <1>6 DEF Next, ServerStep, Finished, InsideRound, owner, tasks

\* Sessions are not set back, and nothing else happens in the step that admits
\* a contestant.
LEMMA StateForward ==
  ASSUME Typed, [Next]_vars
  PROVE  /\ state' \in {"READY", "STARTING"} => state \in {"READY", "STARTING"}
         /\ contestants' # contestants => UNCHANGED <<told, state>>
<1>1. CASE OwnerStep
  BY <1>1 DEF OwnerStep, StartSession, AcceptTimedOut, AcceptFails, JoinThreads, PlayRound,
     AllAnswered, TellResult, ReadResultAck, RoundOver, TerminateSession, SayBye, ReadByeAck,
     SessionOver, CallRefused, session
<1>2. CASE WindowEnds
  BY <1>2 DEF WindowEnds
<1>3. ASSUME NEW c \in Conns, NegotiationStep(c) PROVE UNCHANGED <<told, state>>
  BY <1>3 DEF NegotiationStep, Accept, ReadHello, HelloLost, AdmitContestant, RefuseHello, session
<1>4. ASSUME NEW n \in Nicks, TaskStep(n) PROVE UNCHANGED <<told, state>>
  BY <1>4 DEF TaskStep, SendQuestion, ReadAnswer, IncreaseScore, LoadStat, StoreStat, session
<1>5. ASSUME NEW c \in Conns, ContestantStep(c) PROVE UNCHANGED <<told, state>>
  BY <1>5 DEF ContestantStep, ContestantConnects, ContestantGreets, ContestantReplies,
     ContestantLeaves, session
<1>6. CASE UNCHANGED vars
  BY <1>6 DEF vars, session
<1>7. QED
  BY <1>1, <1>2, <1>3, <1>4, <1>5, <1>6 DEF Next, ServerStep, Finished

\* The state the results are told from.
LEMMA Telling ==
  ASSUME Typed, TellResult
  PROVE  /\ pc = "telling" /\ First(rest) \in rest /\ First(rest) \in Joined /\ First(rest) \in Nicks
         /\ RoundResults(First(rest)) \in Verdicts /\ told[First(rest)] \in Seq(Verdicts)
         /\ told' = [told EXCEPT ![First(rest)] = Append(told[First(rest)], RoundResults(First(rest)))]
         /\ UNCHANGED <<session, tasks, qid>>
         /\ \/ pc' = "telling" /\ rest' = rest \ {First(rest)}
            \/ pc' = "acking" /\ rest' = rest
<1>1. First(rest) \in rest /\ First(rest) \in Joined /\ First(rest) \in Nicks
  BY FirstIsMember, NicksAssumption DEF TellResult, Typed, Shape, TypeOK, SessionOK, OwnerOK
<1>2. RoundResults(First(rest)) \in Verdicts
  BY <1>1, ResultsTyped DEF TellResult, Typed, Shape, TypeOK
<1>3. QED
  BY <1>1, <1>2 DEF TellResult, Typed, TypeOK

\* What the loop has behind it: with each telling, the one it told.
LEMMA TellingUntold ==
  ASSUME Typed, TellResult
  PROVE  NotToldYet(First(rest)) /\ \A n : NotToldYet(n)' <=> NotToldYet(n) /\ n # First(rest)
BY Telling DEF NotToldYet

LEMMA AckUntold ==
  ASSUME Typed, ReadResultAck
  PROVE  /\ pc = "acking" /\ pc' \in {"telling", "threw"}
         /\ UNCHANGED <<session, tasks, told, qid>>
         /\ pc' = "telling" => \A n : NotToldYet(n)' <=> NotToldYet(n)
BY DEF ReadResultAck, NotToldYet
-----------------------------------------------------------------------------
(* The ledger: every step keeps the scores and what was told in balance. *)

LEMMA InitLedger == Init => Ledger
<1> SUFFICES ASSUME Init PROVE Ledger
  OBVIOUS
<1>1. ASSUME NEW n \in Nicks
      PROVE  DOMAIN told[n] = {} /\ Cardinality(RightIn(told[n])) = 0
  BY FS_EmptySet DEF Init, RightIn
<1>2. pc = "idle" /\ \A n \in Nicks : score[n] = 0 /\ ~PointDue(n)
  BY DEF Init, PointDue
<1>3. QED
  BY <1>1, <1>2 DEF Ledger, ResultsAddUp

LEMMA TellResultLedger ==
  ASSUME Typed, Ledger, TellResult
  PROVE  Ledger'
<1>0. PICK n : n = First(rest)
  OBVIOUS
<1> DEFINE v == RoundResults(n)
<1>1. /\ n \in Nicks /\ v \in Verdicts /\ told[n] \in Seq(Verdicts)
      /\ told' = [told EXCEPT ![n] = Append(told[n], v)]
      /\ UNCHANGED <<score, won, task>> /\ pc = "telling" /\ pc' \in {"telling", "acking"}
  BY <1>0, Telling DEF session, tasks
<1>2. v.correct = won[n] /\ v.score = score[n] /\ won[n] \in BOOLEAN
  BY <1>1 DEF RoundResults, Typed, TypeOK, TasksOK
<1>3. NotToldYet(n) /\ \A m : NotToldYet(m)' <=> NotToldYet(m) /\ m # n
  BY <1>0, TellingUntold
<1>4. Cardinality(RightIn(told[n])) \in Nat
  BY <1>1, RightInFinite
<1>5. score[n] = Cardinality(RightIn(told[n])) + (IF won[n] THEN 1 ELSE 0)
  BY <1>1, <1>3 DEF Ledger, PointDue
<1>6. told'[n] = Append(told[n], v) /\ \A m \in Nicks \ {n} : told'[m] = told[m]
  BY <1>1 DEF Typed, TypeOK
<1>7. score[n] = Cardinality(RightIn(told'[n]))
  BY <1>1, <1>2, <1>5, <1>6, RightInAppend
<1>8. ASSUME NEW m \in Nicks
      PROVE  score'[m] = Cardinality(RightIn(told'[m])) + (IF PointDue(m)' THEN 1 ELSE 0)
  <2>1. CASE m = n
    <3>1. ~PointDue(m)'
      BY <1>1, <1>3, <2>1 DEF PointDue
    <3>2. Cardinality(RightIn(told'[n])) + 0 = Cardinality(RightIn(told'[n]))
      BY <1>1, <1>2, <1>4, <1>6, RightInAppend
    <3>3. QED
      BY <1>1, <1>7, <2>1, <3>1, <3>2
  <2>2. CASE m # n
    <3>1. PointDue(m)' <=> PointDue(m)
      BY <1>1, <1>3, <2>2 DEF PointDue
    <3>2. QED
      BY <1>1, <1>6, <2>2, <3>1 DEF Ledger
  <2>3. QED
    BY <2>1, <2>2
<1>9. ASSUME NEW m \in Nicks, NEW i \in DOMAIN told'[m]
      PROVE  told'[m][i].score = Cardinality({ j \in RightIn(told'[m]) : j <= i })
  <2>1. CASE m # n
    BY <1>6, <1>9, <2>1 DEF Ledger, ResultsAddUp
  <2>2. CASE m = n /\ i \in 1..Len(told[n])
    <3>1. told'[n][i] = told[n][i] /\ i \in DOMAIN told[n]
      BY <1>1, <1>6, <2>2
    <3>2. { j \in RightIn(told'[n]) : j <= i } = { j \in RightIn(told[n]) : j <= i }
      BY <1>1, <1>6, <2>2, RightInAppend
    <3>3. told[n][i].score = Cardinality({ j \in RightIn(told[n]) : j <= i })
      BY <1>1, <3>1 DEF Ledger, ResultsAddUp
    <3>4. QED
      BY <2>2, <3>1, <3>2, <3>3
  <2>3. CASE m = n /\ i = Len(told[n]) + 1
    <3>1. told'[n][i] = v
      BY <1>1, <1>6, <2>3
    <3>2. { j \in RightIn(told'[n]) : j <= i } = RightIn(told'[n])
      BY <1>1, <1>6, <2>3, RightInAppend
    <3>3. QED
      BY <1>2, <1>7, <2>3, <3>1, <3>2
  <2>4. m = n => i \in 1..Len(told[n]) \/ i = Len(told[n]) + 1
    BY <1>1, <1>6, <1>9
  <2>5. QED
    BY <2>1, <2>2, <2>3, <2>4
<1>10. QED
  BY <1>1, <1>8, <1>9 DEF Ledger, ResultsAddUp

LEMMA TaskLedger ==
  ASSUME Typed, Counts, Ledger, NEW n \in Nicks, TaskStep(n)
  PROVE  Ledger'
<1>1. pc = "playing" /\ task[n] \notin {"none", "done"}
  BY DEF TaskStep, SendQuestion, ReadAnswer, IncreaseScore, LoadStat, StoreStat, Typed, Shape
<1>2. ~won[n]
  BY <1>1 DEF Counts, InRound
<1>3. UNCHANGED <<contestants, pc, rest, told>>
  BY DEF TaskStep, SendQuestion, ReadAnswer, IncreaseScore, LoadStat, StoreStat, session, owner
<1>4. ASSUME NEW m \in Nicks
      PROVE  score'[m] = Cardinality(RightIn(told'[m])) + (IF PointDue(m)' THEN 1 ELSE 0)
  <2>0. score[m] = Cardinality(RightIn(told[m])) + (IF PointDue(m) THEN 1 ELSE 0)
        /\ Cardinality(RightIn(told[m])) \in Nat
    BY <1>1, RightInFinite DEF Ledger, Typed, TypeOK
  <2>1. CASE m # n
    <3>1. score'[m] = score[m] /\ (PointDue(m)' <=> PointDue(m))
      BY <1>3, <2>1 DEF TaskStep, SendQuestion, ReadAnswer, IncreaseScore, LoadStat, StoreStat,
         session, PointDue, NotToldYet, Typed, TypeOK, SessionOK, TasksOK
    <3>2. QED
      BY <1>3, <2>0, <3>1
  <2>2. CASE m = n /\ (SendQuestion(n) \/ ReadAnswer(n))
    <3>1. score'[m] = score[m] /\ ~PointDue(m)' /\ ~PointDue(m)
      BY <1>1, <1>2, <1>3, <2>2 DEF SendQuestion, ReadAnswer, session, PointDue, Typed, TypeOK, TasksOK
    <3>2. QED
      BY <1>3, <2>0, <3>1
  <2>3. CASE m = n /\ IncreaseScore(n)
    <3>1. score'[m] = score[m] + 1 /\ PointDue(m)' /\ ~PointDue(m)
      BY <1>1, <1>2, <1>3, <2>3 DEF IncreaseScore, PointDue, Typed, TypeOK, SessionOK, TasksOK
    <3>2. QED
      BY <1>3, <2>0, <3>1
  <2>4. CASE m = n /\ (LoadStat(n) \/ StoreStat(n))
    <3>1. score'[m] = score[m] /\ PointDue(m)' /\ PointDue(m)
      BY <1>1, <1>3, <2>4 DEF LoadStat, StoreStat, session, PointDue, Typed, TypeOK, TasksOK
    <3>2. QED
      BY <1>3, <2>0, <3>1
  <2>5. QED
    BY <2>1, <2>2, <2>3, <2>4 DEF TaskStep
<1>5. QED
  BY <1>1, <1>3, <1>4 DEF Ledger, ResultsAddUp, Joined

\* The beginning and the end of a round owe nobody anything new.
LEMMA RoundLedger ==
  ASSUME Typed, Counts, Ledger, PlayRound \/ AllAnswered \/ RoundOver \/ ReadResultAck
  PROVE  Ledger'
<1>1. UNCHANGED <<session, told>> /\ pc \in {"idle", "playing", "telling", "acking"}
  BY DEF PlayRound, AllAnswered, RoundOver, ReadResultAck
<1>2. pc' = "playing" => rest' = Joined'
  BY DEF PlayRound, AllAnswered, RoundOver, ReadResultAck, session, Joined
<1>3. ASSUME NEW n \in Nicks, pc' # "threw" PROVE PointDue(n)' <=> PointDue(n)
  <2>1. CASE PlayRound
    BY <2>1 DEF PlayRound, PointDue
  <2>2. CASE AllAnswered
    <3>1. won[n] => n \in Joined
      BY <2>2 DEF AllAnswered, Counts, InRound, Typed, Shape
    <3>2. task[n] \in {"none", "done"}
      BY <2>2 DEF AllAnswered, Typed, Shape
    <3>3. QED
      BY <2>2, <3>1, <3>2 DEF AllAnswered, PointDue, NotToldYet, Ledger, tasks
  <2>3. CASE RoundOver
    BY <2>3 DEF RoundOver, PointDue, NotToldYet
  <2>4. CASE ReadResultAck
    BY <1>3, <2>4, AckUntold DEF PointDue, tasks
  <2>5. QED
    BY <2>1, <2>2, <2>3, <2>4
<1>4. QED
  BY <1>1, <1>2, <1>3 DEF Ledger, ResultsAddUp, session

LEMMA LedgerStep == Typed /\ Registered /\ Counts /\ Ledger /\ [Next]_vars => Ledger'
<1> SUFFICES ASSUME Typed, Registered, Counts, Ledger, [Next]_vars PROVE Ledger'
  OBVIOUS
<1>1. CASE InsideRound
  BY <1>1, TellResultLedger, TaskLedger, RoundLedger DEF InsideRound
<1>2. CASE ~InsideRound
  <2>1. \A n \in Nicks : PointDue(n)' <=> PointDue(n)
    BY <1>2, OutsideRound DEF PointDue, NotToldYet, InRound
  <2>2. pc' = "playing" => rest' = Joined'
    BY <1>2, OutsideRound, RosterStep DEF Ledger, InRound, Joined, Typed, Shape
  <2>3. QED
    BY <1>2, <2>1, <2>2, OutsideRound DEF Ledger, ResultsAddUp
<1>3. QED
  BY <1>1, <1>2

\* However the tasks of the rounds interleave, and whoever leaves or fails between
\* two tellings: the score told with each round's results is the number of rounds
\* the contestant was told it had right so far (ContestSession.cpp:102-109).
THEOREM ScoresToldAddUp == Spec => []ResultsAddUp
<1>1. Init => Ledger
  BY InitLedger
<1>2. Init => Counts
  BY ScriptsAssumption DEF Init, Counts, StatsInvented, InRound
<1>3. Ledger => ResultsAddUp
  BY DEF Ledger
<1>4. QED
  BY <1>1, <1>2, <1>3, RegisteredInvariant, CountsStep, LedgerStep, PTL DEF Spec
-----------------------------------------------------------------------------
(* The chorus: all contestants are told the same. *)

LEMMA TellResultChorus ==
  ASSUME Typed, Chorus, TellResult
  PROVE  Chorus'
<1>0. PICK n : n = First(rest)
  OBVIOUS
<1> DEFINE v == RoundResults(n)
<1>1. /\ n \in Nicks /\ n \in Joined /\ v \in Verdicts /\ told[n] \in Seq(Verdicts)
      /\ told' = [told EXCEPT ![n] = Append(told[n], v)]
      /\ UNCHANGED <<state, contestants, stats, max, qid>>
      /\ pc = "telling" /\ pc' \in {"telling", "acking"} /\ state = "RUNNING"
  BY <1>0, Telling DEF session, tasks, Typed, Shape
<1>2. v.right = stats[qid] /\ v.total = Cardinality(Joined) /\ v.max = max
  BY DEF RoundResults
<1>3. Joined' = Joined /\ ~Told(n) /\ \A m : Told(m)' <=> (Told(m) \/ m = n)
  BY <1>0, <1>1, TellingUntold DEF Told, Joined
<1>4. told'[n] = Append(told[n], v) /\ \A m \in Nicks \ {n} : told'[m] = told[m]
  BY <1>1 DEF Typed, TypeOK
<1>5. PICK k \in Nat : ToldOf(k)
  BY <1>1 DEF Chorus
<1>6. /\ Len(told[n]) = k /\ Len(told'[n]) = k + 1 /\ told'[n][k + 1] = v
      /\ \A i \in DOMAIN told'[n] : i = k + 1 \/ (i \in DOMAIN told[n] /\ told'[n][i] = told[n][i])
  <2>1. Len(told[n]) = k
    BY <1>1, <1>3, <1>5 DEF ToldOf
  <2>2. QED
    BY <1>1, <1>4, <2>1
<1>7. ToldOf(k)'
  BY <1>3, <1>4, <1>5, <1>6 DEF ToldOf, Typed, TypeOK, SessionOK
<1>8. ASSUME NEW m \in Joined', Told(m)' PROVE StillTrue(m)'
  <2>1. CASE m = n
    BY <1>1, <1>2, <1>3, <1>6, <2>1 DEF StillTrue
  <2>2. CASE m # n
    <3>1. Told(m) /\ m \in Joined /\ m \in Nicks /\ told'[m] = told[m]
      BY <1>3, <1>4, <1>8, <2>2 DEF Typed, TypeOK, SessionOK
    <3>2. QED
      BY <1>1, <1>3, <3>1 DEF Chorus, StillTrue
  <2>3. QED
    BY <2>1, <2>2
\* Whoever has a result of this round has the one n is told.
<1>9. ASSUME NEW m \in Nicks \ {n}, NEW i \in DOMAIN told[m], i = k + 1
      PROVE  told[m][i].right = v.right /\ told[m][i].total = v.total /\ told[m][i].max = v.max
  <2>1. told[m] \in Seq(Verdicts) /\ told[m] # << >> /\ k + 1 <= Len(told[m])
    BY <1>9 DEF Typed, TypeOK
  <2>2. m \in Joined
    BY <2>1 DEF Chorus
  <2>3. Told(m) /\ Len(told[m]) = k + 1
    BY <1>5, <2>1, <2>2 DEF ToldOf
  <2>4. QED
    BY <1>2, <1>9, <2>2, <2>3 DEF Chorus, StillTrue
<1>10. ResultsAgree'
  <2>1. ASSUME NEW m \in Nicks, NEW l \in Nicks, NEW i \in DOMAIN told'[m] \cap DOMAIN told'[l]
        PROVE  /\ told'[m][i].right = told'[l][i].right
               /\ told'[m][i].total = told'[l][i].total
               /\ told'[m][i].max = told'[l][i].max
    <3>1. CASE i # k + 1
      <4>1. /\ i \in DOMAIN told[m] /\ told'[m][i] = told[m][i]
            /\ i \in DOMAIN told[l] /\ told'[l][i] = told[l][i]
        BY <1>4, <1>6, <2>1, <3>1
      <4>2. QED
        BY <4>1 DEF Chorus, ResultsAgree
    <3>2. CASE i = k + 1
      <4>1. ASSUME NEW j \in Nicks, i \in DOMAIN told'[j]
            PROVE  /\ told'[j][i].right = v.right
                   /\ told'[j][i].total = v.total
                   /\ told'[j][i].max = v.max
        BY <1>4, <1>6, <1>9, <3>2, <4>1
      <4>2. QED
        BY <2>1, <4>1
    <3>3. QED
      BY <3>1, <3>2
  <2>2. QED
    BY <2>1 DEF ResultsAgree
<1>11. \A m \in Nicks : m \notin Joined' \/ state' \in {"READY", "STARTING"} => told'[m] = << >>
  BY <1>1, <1>3, <1>4 DEF Chorus
<1>12. QED
  BY <1>7, <1>8, <1>10, <1>11 DEF Chorus

\* A step that tells nobody, adds nobody and leaves those told of this round told
\* of it, by what it is still made of.
LEMMA NothingTold ==
  ASSUME Chorus, UNCHANGED <<told, contestants>>,
         state' \in {"READY", "STARTING"} => state \in {"READY", "STARTING"},
         pc' # "threw" => pc # "threw" /\ \A n \in Joined : Told(n)' <=> Told(n),
         \A n \in Joined : Told(n)' => UNCHANGED <<qid, max, stats>> /\ Told(n)
  PROVE  Chorus'
<1>1. Joined' = Joined
  BY DEF Joined
<1>2. ASSUME pc' # "threw" PROVE \E k \in Nat : ToldOf(k)'
  BY <1>1, <1>2 DEF Chorus, ToldOf
<1>3. QED
  BY <1>1, <1>2 DEF Chorus, ResultsAgree, StillTrue

LEMMA RoundChorus ==
  ASSUME Typed, Ledger, Chorus, PlayRound \/ AllAnswered \/ ReadResultAck
  PROVE  Chorus'
<1>1. UNCHANGED <<session, told>> /\ pc # "threw"
  BY DEF PlayRound, AllAnswered, ReadResultAck
<1>2. CASE PlayRound \/ AllAnswered
  <2>1. \A n \in Joined : ~Told(n) /\ ~Told(n)'
    BY <1>2 DEF PlayRound, AllAnswered, Told, NotToldYet, Ledger
  <2>2. QED
    BY <1>1, <2>1, NothingTold DEF session
<1>3. CASE ReadResultAck
  <2>1. \A n \in Joined : Told(n)' => Told(n)
    BY <1>3, AckUntold DEF Told
  <2>2. pc' # "threw" => \A n \in Joined : Told(n)' <=> Told(n)
    BY <1>1, <1>3, AckUntold DEF Told, Joined, session
  <2>3. QED
    BY <1>1, <1>3, <2>1, <2>2, AckUntold, NothingTold DEF session
<1>4. QED
  BY <1>2, <1>3

LEMMA RoundOverChorus ==
  ASSUME Typed, Chorus, RoundOver
  PROVE  Chorus'
<1>1. UNCHANGED <<session, told>> /\ rest = {} /\ pc = "telling" /\ pc' = "idle"
  BY DEF RoundOver
<1>2. PICK k \in Nat : ToldOf(k)
  BY <1>1 DEF Chorus
<1>3. \A n \in Joined : Told(n) /\ ~Told(n)'
  BY <1>1 DEF Told, NotToldYet
<1>4. k + 1 \in Nat /\ ToldOf(k + 1)'
  BY <1>1, <1>2, <1>3 DEF ToldOf, Joined, session
<1>5. \E j \in Nat : ToldOf(j)'
  BY <1>4
<1>6. QED
  BY <1>1, <1>3, <1>5 DEF Chorus, ResultsAgree, Joined, session

LEMMA TaskChorus ==
  ASSUME Typed, Chorus, NEW n \in Nicks, TaskStep(n)
  PROVE  Chorus'
<1>1. UNCHANGED <<state, contestants, told, pc>> /\ pc = "playing"
  BY DEF TaskStep, SendQuestion, ReadAnswer, IncreaseScore, LoadStat, StoreStat, session, owner,
     Typed, Shape
<1>2. \A m \in Joined : ~Told(m) /\ ~Told(m)'
  BY <1>1 DEF Told
<1>3. QED
  BY <1>1, <1>2, NothingTold

\* Joining is over before anybody is told anything.
LEMMA AdmitChorus ==
  ASSUME Typed, Chorus, UNCHANGED <<told, state>>, state = "STARTING", Typed'
  PROVE  Chorus'
<1>1. \A n \in Nicks : told'[n] = << >>
  BY DEF Chorus
<1>2. \A n \in Joined' : n \in Nicks /\ ~Told(n)'
  BY DEF Told, Typed, Shape, TypeOK, SessionOK
<1>3. ToldOf(0)'
  BY <1>1, <1>2 DEF ToldOf
<1>4. \E k \in Nat : ToldOf(k)'
  BY <1>3
<1>5. QED
  BY <1>1, <1>2, <1>4 DEF Chorus, ResultsAgree

LEMMA ChorusStep ==
  Typed /\ Registered /\ Ledger /\ Chorus /\ [Next]_vars => Chorus'
<1> SUFFICES ASSUME Typed, Registered, Ledger, Chorus, [Next]_vars PROVE Chorus'
  OBVIOUS
<1>1. CASE InsideRound
  BY <1>1, TellResultChorus, RoundChorus, RoundOverChorus, TaskChorus DEF InsideRound
<1>2. CASE ~InsideRound /\ contestants' = contestants
  <2>1. told' = told /\ (pc = "threw" => pc' = "threw")
    BY <1>2, OutsideRound
  <2>2. state' \in {"READY", "STARTING"} => state \in {"READY", "STARTING"}
    BY <1>2, StateForward
  <2>3. \A n \in Joined : Told(n)' => UNCHANGED <<qid, max, stats>>
    BY <1>2, OutsideRound DEF Told, InRound
  <2>4. \A n \in Joined : Told(n)' <=> Told(n)
    BY <1>2, OutsideRound DEF Told, NotToldYet, InRound, Joined
  <2>5. QED
    BY <1>2, <2>1, <2>2, <2>3, <2>4, NothingTold
<1>3. CASE contestants' # contestants
  <2>1. state = "STARTING" /\ Typed'
    BY <1>3, RosterStep, NextTyped
  <2>2. told' = told /\ state' = state
    BY <1>3, StateForward
  <2>3. QED
    BY <2>1, <2>2, AdmitChorus
<1>4. QED
  BY <1>1, <1>2, <1>3

\* All contestants are told the same of a round: its ratio, its number of players
\* and the best score do not move while the results go out one by one and the
\* slow ones are waited for (ContestSession.cpp:101-115).
THEOREM ResultsToldAgree == Spec => []ResultsAgree
<1>1. Init => Ledger
  BY InitLedger
<1>2. Init => Chorus
  <2> SUFFICES ASSUME Init PROVE Chorus
    OBVIOUS
  <2>1. Joined = {} /\ \A n \in Nicks : told[n] = << >>
    BY DEF Init, Joined
  <2>2. ToldOf(0)
    BY <2>1 DEF ToldOf
  <2>3. \E k \in Nat : ToldOf(k)
    BY <2>2
  <2>4. QED
    BY <2>1, <2>3 DEF Chorus, ResultsAgree
<1>3. Init => Counts
  BY ScriptsAssumption DEF Init, Counts, StatsInvented, InRound
<1>4. Chorus => ResultsAgree
  BY DEF Chorus
<1>5. QED
  BY <1>1, <1>2, <1>3, <1>4, RegisteredInvariant, CountsStep, LedgerStep, ChorusStep, PTL DEF Spec
=============================================================================
