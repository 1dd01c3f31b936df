------------------------ MODULE ContestMeisterProofs ------------------------
(* Theorems about ContestMeister, for every number of programs, whatever   *)
(* their users type, and however often the server is started again.        *)
EXTENDS ContestMeister, ContestServerProofs

ProgramsOK ==
  /\ client \in [Clients -> ClientStates] /\ peer \in [Clients -> LinkStates]
  /\ toClient \in [Clients -> Seq(Replying)] /\ want \in [Clients -> AllRequests]
  /\ told \in [Clients -> SUBSET { r \in AllRequests : r.op \in {"p", "s", "a"} }]

MeisterTyped == WellTyped /\ ProgramsOK

\* A step of the server.
Serving ==
  /\ process = "up"
  /\ MainThread \/ Collide \/ \E c \in Clients : ClientThread(c)
  /\ Delivered /\ UNCHANGED program

LEMMA MeisterSteps ==
  ASSUME [MeisterNext]_meisterVars
  PROVE  \/ UNCHANGED meisterVars \/ Serving
         \/ Restarts /\ UNCHANGED <<peer, toClient, program>>
         \/ \E c \in Clients : ProgramStep(c)
BY DEF MeisterNext, Serving, Serves

LEMMA ServingNext == Serving => process = "up" /\ [Next]_vars /\ Delivered /\ UNCHANGED program
BY DEF Serving, Next, ServerStep
-----------------------------------------------------------------------------
(* Types. *)

LEMMA LinkAfterWriteTyped == \A l \in LinkStates : LinkAfterWrite(l) \subseteq LinkStates
BY DEF LinkStates, LinkAfterWrite

LEMMA LineTyped ==
  ASSUME NEW c \in Clients, asked[c] \in Nat, NEW l \in Typed(c)
  PROVE  l.req \in AllRequests /\ asked[c] + 1 \in 0..MaxRequests
<1>1. asked[c] < Len(Lines[c]) /\ Lines[c] \in Seq(SUBSET AllLines) /\ Len(Lines[c]) <= MaxRequests
  BY LinesAssumption DEF Typed
<1>2. Lines[c][asked[c] + 1] \in SUBSET AllLines
  BY <1>1
<1>3. l \in AllLines
  BY <1>1, <1>2 DEF Typed
<1>4. QED
  BY <1>1, <1>3, BoundsAssumption DEF AllLines

\* Messages and the ends of connections are all a program changes of the server.
LEMMA NetTyped ==
  ASSUME WellTyped, NetOK', UNCHANGED <<main, memory, disk, at, buf, asking, playing>>
  PROVE  WellTyped'
BY DEF WellTyped, MainOK, BanksOK, PlacesOK, AskingOK, PlayingOK, Known, main, memory, disk, asking

LEMMA SendsTyped ==
  ASSUME MeisterTyped, NEW c \in Clients, NEW r \in AllRequests, NEW next \in ClientStates,
         NEW failed \in ClientStates, Sends(c, r, next, failed), asked' \in [Clients -> 0..MaxRequests]
  PROVE  /\ WellTyped'
         /\ client' \in [Clients -> ClientStates] /\ peer' \in [Clients -> LinkStates]
         /\ toClient' \in [Clients -> Seq(Replying)]
<1>1. NetOK'
  BY DEF Sends, MeisterTyped, WellTyped, NetOK
<1>2. WellTyped'
  BY <1>1, NetTyped DEF Sends, MeisterTyped
<1>3. peer' \in [Clients -> LinkStates]
  BY LinkAfterWriteTyped DEF Sends, MeisterTyped, ProgramsOK
<1>4. QED
  BY <1>2, <1>3 DEF Sends, Moves, MeisterTyped, ProgramsOK, ClientStates

LEMMA HearsTyped ==
  ASSUME MeisterTyped, NEW c \in Clients, Hears(c)
  PROVE  WellTyped' /\ peer' \in [Clients -> LinkStates] /\ toClient' \in [Clients -> Seq(Replying)]
<1>1. toClient[c] \in Seq(Replying)
  BY DEF MeisterTyped, ProgramsOK
<1>2. LeftAfterRead(toClient[c]) \subseteq Seq(Replying)
  BY <1>1, LeftAfterReadTyped
<1>3. WellTyped'
  BY NetTyped DEF Hears, vars, net, MeisterTyped, WellTyped, NetOK
<1>4. QED
  BY <1>2, <1>3 DEF Hears, MeisterTyped, ProgramsOK

LEMMA FreshRequest == \A c \in Clients : Fresh.req[c] \in AllRequests /\ Ask("n", NoId, NoId) \in AllRequests
BY DEF Fresh, Ask, AllRequests, Ops

LEMMA ProgramTyped ==
  ASSUME MeisterTyped, NEW c \in Clients, ProgramStep(c)
  PROVE  MeisterTyped'
<1>1. CASE Dials(c)
  <2>1. WellTyped'
    <3>1. CASE Connects(c)
      BY <3>1, ClientTyped DEF MeisterTyped
    <3>2. CASE UNCHANGED vars
      BY <3>2, NextTyped DEF MeisterTyped
    <3>3. QED
      BY <1>1, <3>1, <3>2 DEF Dials
  <2>2. ProgramsOK'
    BY <1>1 DEF Dials, Moves, MeisterTyped, ProgramsOK, ClientStates, LinkStates
  <2>3. QED
    BY <2>1, <2>2 DEF MeisterTyped
<1>2. CASE SaysHello(c)
  <2>1. asked' \in [Clients -> 0..MaxRequests]
    BY <1>2 DEF SaysHello, MeisterTyped, WellTyped, NetOK
  <2>2. QED
    BY <1>2, <2>1, SendsTyped, FreshRequest DEF SaysHello, ClientStates, MeisterTyped, ProgramsOK
<1>3. CASE HearsHello(c)
  BY <1>3, HearsTyped DEF HearsHello, Moves, ClientStates, MeisterTyped, ProgramsOK
<1>4. CASE HearsNoHello(c) \/ TripsOver(c) \/ InputEnds(c) \/ HearsNothing(c) \/ Interrupted(c)
  <2>1. WellTyped'
    BY <1>4, NextTyped DEF HearsNoHello, TripsOver, InputEnds, HearsNothing, Interrupted, MeisterTyped
  <2>2. ProgramsOK'
    BY <1>4, FreshRequest DEF HearsNoHello, TripsOver, InputEnds, HearsNothing, Interrupted, Moves,
       ClientStates, MeisterTyped, ProgramsOK
  <2>3. QED
    BY <2>1, <2>2 DEF MeisterTyped
<1>5. CASE HearsAnswer(c)
  <2>1. client' \in [Clients -> ClientStates] /\ want' \in [Clients -> AllRequests]
    BY <1>5, FreshRequest DEF HearsAnswer, Moves, ClientStates, MeisterTyped, ProgramsOK
  <2>2. told' \in [Clients -> SUBSET { r \in AllRequests : r.op \in {"p", "s", "a"} }]
    BY <1>5 DEF HearsAnswer, MeisterTyped, ProgramsOK
  <2>3. QED
    BY <1>5, <2>1, <2>2, HearsTyped DEF HearsAnswer, MeisterTyped, ProgramsOK
<1>6. CASE TypesRequest(c)
  <2>1. PICK l \in Typed(c) : /\ Sends(c, l.req, "awaiting", "crashed")
                              /\ want' = [want EXCEPT ![c] = l.req]
                              /\ told' = [told EXCEPT ![c] = @ \ Undone(l.req)]
    BY <1>6 DEF TypesRequest
  <2>2. l.req \in AllRequests /\ asked[c] + 1 \in 0..MaxRequests
    BY LineTyped DEF MeisterTyped, WellTyped, NetOK
  <2>3. asked' \in [Clients -> 0..MaxRequests]
    BY <1>6, <2>2 DEF TypesRequest, MeisterTyped, WellTyped, NetOK
  <2>4. QED
    BY <2>1, <2>2, <2>3, SendsTyped DEF ClientStates, MeisterTyped, ProgramsOK
<1>7. CASE HangsUp(c)
  <2>1. NetOK'
    BY <1>7 DEF HangsUp, MeisterTyped, WellTyped, NetOK, LinkStates
  <2>2. WellTyped'
    BY <1>7, <2>1, NetTyped DEF HangsUp, MeisterTyped
  <2>3. QED
    BY <1>7, <2>2 DEF HangsUp, program, MeisterTyped, ProgramsOK, LinkStates
<1>8. QED
  BY <1>1, <1>2, <1>3, <1>4, <1>5, <1>6, <1>7 DEF ProgramStep, Listens

LEMMA ReplyTyped == ASSUME MeisterTyped, NEW c \in Clients PROVE Reply(c) \in Replying
BY FreshRequest DEF Reply, Replying, MeisterTyped, WellTyped, AskingOK

LEMMA DeliveredTyped ==
  ASSUME MeisterTyped, Delivered, UNCHANGED program
  PROVE  ProgramsOK'
<1>1. \A c \in Clients : toClient[c] \in Seq(Replying) /\ Append(toClient[c], Reply(c)) \in Seq(Replying)
  BY ReplyTyped DEF MeisterTyped, ProgramsOK
<1>2. toClient' \in [Clients -> Seq(Replying)]
  BY <1>1 DEF Delivered
<1>3. peer' \in [Clients -> LinkStates]
  BY DEF Delivered, MeisterTyped, ProgramsOK, LinkStates
<1>4. QED
  BY <1>2, <1>3 DEF MeisterTyped, ProgramsOK, program

LEMMA MeisterNextTyped == MeisterTyped /\ [MeisterNext]_meisterVars => MeisterTyped'
<1> SUFFICES ASSUME MeisterTyped, [MeisterNext]_meisterVars PROVE MeisterTyped'
  OBVIOUS
<1>1. CASE UNCHANGED meisterVars
  <2>1. WellTyped'
    BY <1>1, NextTyped DEF meisterVars, MeisterTyped
  <2>2. QED
    BY <1>1, <2>1 DEF meisterVars, program, MeisterTyped, ProgramsOK
<1>2. CASE Serving
  BY <1>2, ServingNext, NextTyped, DeliveredTyped DEF MeisterTyped
<1>3. CASE Restarts /\ UNCHANGED <<peer, toClient, program>>
  BY <1>3, RestartsTyped DEF MeisterTyped, ProgramsOK, program
<1>4. QED
  BY <1>1, <1>2, <1>3, MeisterSteps, ProgramTyped

LEMMA MeisterInitTyped == MeisterInit => MeisterTyped
BY InitTyped, FreshTyped, FreshRequest DEF MeisterInit, MeisterTyped, ProgramsOK, ClientStates, LinkStates

\* The programs keep their types, and the server keeps its own with them at the
\* other ends of its connections (ContestmeisterClient.cpp:27-104).
THEOREM MeisterTypeCorrect == MeisterSpec => []MeisterTypeOK
<1>1. WellTyped => TypeOK
  BY TypesAreRight
<1>2. MeisterTyped => MeisterTypeOK
  BY <1>1 DEF MeisterTyped, ProgramsOK, MeisterTypeOK
<1>3. QED
  BY <1>2, MeisterInitTyped, MeisterNextTyped, PTL DEF MeisterSpec
-----------------------------------------------------------------------------
(* The conversation of one program with its thread. *)

\* Where a thread saves, and where it has a request to handle.
Storing  == {"opening", "copying", "tallying", "flushing"}
Handling == {"deciding", "changing", "opening", "copying", "tallying", "flushing", "answering", "spinning"}

\* The two ends of a connection know of each other what they can know.
Ends(c) ==
  /\ process = "up" /\ link[c] = "open" <=> peer[c] = "open"
  /\ at[c] = "none" => link[c] = "idle" /\ toServer[c] = << >>
  /\ link[c] = "closed" => at[c] = "gone"
  /\ peer[c] \notin {"open", "closed"} => process # "up" \/ at[c] \in {"none", "gone"}
  /\ peer[c] \in {"idle", "closed"} => toClient[c] = << >>
  /\ client[c] = "start" => at[c] = "none" /\ peer[c] = "idle"

\* One message at most is on its way, and none while the server works on one.
Token(c) ==
  /\ toServer[c] = << >> \/ \E r \in AllRequests : toServer[c] = <<r>>
  /\ toClient[c] = << >> \/ \E a \in Replying : toClient[c] = <<a>>
  /\ toServer[c] = << >> \/ toClient[c] = << >>
  /\ at[c] \in Handling \cup {"welcoming"} => toServer[c] = << >> /\ toClient[c] = << >>

\* Where the program is, its thread is; what it waits for is what the server is asked.
Phase(c) ==
  /\ client[c] \in {"naming", "prompt"} => toClient[c] = << >>
  /\ client[c] = "awaiting" => \A a \in Replying : toClient[c] = <<a>> => a.req = want[c]
  /\ peer[c] = "open" =>
     /\ client[c] = "naming" => at[c] \in {"queued", "greeting"} /\ toServer[c] = << >>
     /\ client[c] = "greeting" =>
          /\ at[c] \in {"queued", "greeting", "welcoming", "reading"}
          /\ at[c] = "reading" => toServer[c] = << >>
          /\ toClient[c] # << >> => at[c] = "reading"
     /\ client[c] = "prompt" => at[c] = "reading" /\ toServer[c] = << >>
     /\ client[c] = "awaiting" =>
          /\ at[c] \in Handling \cup {"reading"}
          /\ \A r \in AllRequests : toServer[c] = <<r>> => r = want[c]
          /\ at[c] \in Handling => req[c] = want[c]

Converses(c) == Ends(c) /\ Token(c) /\ Phase(c)

LEMMA ReadsOne == ASSUME NEW m PROVE LeftAfterRead(<<m>>) = {<< >>}
<1>1. Len(<<m>>) = 1 /\ 1..1 = {1} /\ <<m>> \in Seq({m})
  OBVIOUS
<1>2. SubSeq(<<m>>, 2, 1) = << >>
  BY <1>1
<1>3. ASSUME NEW k \in 1..Len(<<m>>) PROVE SubSeq(<<m>>, k + 1, Len(<<m>>)) = << >>
  <2>1. k + 1 = 2 /\ Len(<<m>>) = 1
    BY <1>1
  <2>2. QED
    BY <1>2, <2>1
<1>4. 1 \in 1..Len(<<m>>)
  BY <1>1
<1>5. QED
  BY <1>3, <1>4 DEF LeftAfterRead

LEMMA AppendsOne == \A a : Append(<< >>, a) = <<a>> /\ <<a>> # << >>
OBVIOUS

\* What a step of the server is to one connection.
Untouched(c) ==
  /\ at'[c] = at[c] /\ req'[c] = req[c] /\ ans'[c] = ans[c] /\ link'[c] = link[c]
  /\ toServer'[c] = toServer[c]

Greeted(c) ==
  /\ at[c] = "queued" /\ at'[c] \in {"gone", "greeting"} /\ (link[c] = "open" => at'[c] = "greeting")
  /\ req'[c] = req[c] /\ link'[c] = link[c] /\ toServer'[c] = toServer[c]

Heard(c) ==
  /\ toServer[c] # << >> /\ toServer'[c] \in LeftAfterRead(toServer[c]) /\ link'[c] = link[c]
  /\ \/ at[c] = "greeting" /\ at'[c] = "welcoming" /\ req'[c] = req[c]
     \/ at[c] = "reading" /\ at'[c] \in {"answering", "deciding"} /\ req'[c] = Head(toServer[c])

Handled(c) ==
  /\ at[c] \in {"deciding", "changing"} \cup Storing /\ at'[c] \in Handling
  /\ req'[c] = req[c] /\ link'[c] = link[c] /\ toServer'[c] = toServer[c]

Answered(c) ==
  /\ at[c] \in {"welcoming", "answering"} /\ toServer'[c] = toServer[c]
  /\ \/ at'[c] = "reading" /\ link'[c] \in LinkAfterWrite(link[c])
     \/ at'[c] = "gone" /\ link'[c] = "closed"

Dropped(c) ==
  /\ at[c] \notin {"none", "welcoming", "answering"} \/ link[c] # "open"
  /\ at[c] # "none" /\ at'[c] = "gone" /\ link'[c] = "closed" /\ toServer'[c] = toServer[c]

Viewed(c) == Untouched(c) \/ Greeted(c) \/ Heard(c) \/ Handled(c) \/ Answered(c) \/ Dropped(c)

\* One thread acts, and the others wait.
Acts(c) == Viewed(c) /\ (\A d \in Clients \ {c} : Untouched(d)) /\ process' = process

LEMMA DropsViewed ==
  ASSUME WellTyped, NEW c \in Clients, Drops(c, link[c]), at[c] # "none",
         at[c] \notin {"welcoming", "answering"} \/ link[c] # "open"
  PROVE  Dies("aborted") \/ Acts(c)
<1>1. CASE ~Dies("aborted")
  <2>1. Goes(c, "gone") /\ Forgets(c) /\ link' = [link EXCEPT ![c] = "closed"]
        /\ UNCHANGED <<main, toServer>>
    BY <1>1 DEF Drops
  <2>2. Dropped(c)
    BY <2>1 DEF Dropped, Goes, WellTyped, PlacesOK, NetOK, Threads
  <2>3. \A d \in Clients \ {c} : Untouched(d)
    BY <2>1 DEF Untouched, Goes, Forgets, WellTyped, PlacesOK, NetOK, AskingOK, Threads
  <2>4. QED
    BY <2>1, <2>2, <2>3 DEF Acts, Viewed, main
<1>2. QED
  BY <1>1

LEMMA WritesThenViewed ==
  ASSUME WellTyped, NEW c \in Clients, NEW next \in {"gone", "reading"}, NEW logs,
         WritesThen(c, next, logs), at[c] \in {"welcoming", "answering"}
  PROVE  Dies("aborted") \/ Acts(c)
<1>1. CASE Dies("aborted")
  BY <1>1
<1>2. CASE Drops(c, link[c]) /\ WriteResult(link[c]) = "Except"
  BY <1>2, DropsViewed DEF WriteResult
<1>3. ASSUME NEW l \in LinkAfterWrite(link[c]),
             link' = [link EXCEPT ![c] = IF next = "gone" THEN "closed" ELSE l],
             Goes(c, next), Forgets(c), UNCHANGED <<main, toServer>>
      PROVE  Acts(c)
  <2>1. Answered(c)
    BY <1>3 DEF Answered, Goes, WellTyped, PlacesOK, NetOK, Threads
  <2>2. \A d \in Clients \ {c} : Untouched(d)
    BY <1>3 DEF Untouched, Goes, Forgets, WellTyped, PlacesOK, NetOK, AskingOK, Threads
  <2>3. QED
    BY <1>3, <2>1, <2>2 DEF Acts, Viewed, main
<1>4. QED
  BY <1>1, <1>2, <1>3 DEF WritesThen

\* The look-ups and changes of the handlers, and the saves.
LEMMA HandlesViewed ==
  ASSUME WellTyped, NEW c \in Clients,
         at[c] \in {"deciding", "changing"} \cup Storing, NEW place \in Handling, Goes(c, place),
         UNCHANGED <<process, req, link, toServer>>, \A d \in Clients \ {c} : ans'[d] = ans[d]
  PROVE  Acts(c)
<1>1. Handled(c)
  BY DEF Handled, Goes, WellTyped, PlacesOK, Threads
<1>2. \A d \in Clients \ {c} : Untouched(d)
  BY DEF Untouched, Goes, WellTyped, PlacesOK, Threads
<1>3. QED
  BY <1>1, <1>2 DEF Acts, Viewed

LEMMA ReadsViewed ==
  ASSUME WellTyped, NEW c \in Clients, ReadsHello(c) \/ ReadsRequest(c)
  PROVE  Dies("aborted") \/ Acts(c)
<1>1. CASE ~Dies("aborted")
  <2>1. toServer[c] # << >> /\ Takes(c) /\ UNCHANGED <<process, link>>
    BY <1>1 DEF ReadsHello, ReadsRequest, HasData, main
  <2>2. toServer'[c] \in LeftAfterRead(toServer[c]) /\ \A d \in Clients \ {c} : toServer'[d] = toServer[d]
    BY <2>1 DEF Takes, WellTyped, NetOK
  <2>3. Heard(c)
    <3>1. CASE ReadsHello(c)
      BY <1>1, <2>1, <2>2, <3>1 DEF Heard, ReadsHello, Goes, WellTyped, PlacesOK, AskingOK, Threads
    <3>2. CASE ReadsRequest(c)
      BY <1>1, <2>1, <2>2, <3>2 DEF Heard, ReadsRequest, Goes, WellTyped, PlacesOK, AskingOK, Threads
    <3>3. QED
      BY <3>1, <3>2
  <2>4. \A d \in Clients \ {c} : Untouched(d)
    <3>1. CASE ReadsHello(c)
      BY <1>1, <2>1, <2>2, <3>1 DEF Untouched, ReadsHello, Goes, WellTyped, PlacesOK, AskingOK, Threads
    <3>2. CASE ReadsRequest(c)
      BY <1>1, <2>1, <2>2, <3>2 DEF Untouched, ReadsRequest, Goes, WellTyped, PlacesOK, AskingOK, Threads
    <3>3. QED
      BY <3>1, <3>2
  <2>5. QED
    BY <2>1, <2>3, <2>4 DEF Acts, Viewed
<1>2. QED
  BY <1>1

LEMMA SavesMoves ==
  ASSUME NEW c \in Clients, Saves(c)
  PROVE  /\ at[c] \in Storing /\ UNCHANGED <<main, memory, asking, playing, net>>
         /\ \E place \in {"answering", "copying", "tallying", "flushing"} : Goes(c, place)
<1>1. CASE Opens(c)
  BY <1>1 DEF Opens, GoesOn, Storing
<1>2. CASE CopiesQuestion(c) \/ CopiesContest(c) \/ CopiesStats(c)
  BY <1>2 DEF CopiesQuestion, CopiesContest, CopiesStats, GoesOn, Storing, Walking
<1>3. CASE Flushes(c)
  BY <1>3 DEF Flushes, Storing
<1>4. QED
  BY <1>1, <1>2, <1>3 DEF Saves

LEMMA ThreadViewed ==
  ASSUME WellTyped, NEW c \in Clients, ClientThread(c)
  PROVE  Dies("aborted") \/ Dies("crashed") \/ Acts(c)
<1>1. CASE ReadsHello(c) \/ ReadsRequest(c)
  BY <1>1, ReadsViewed
<1>2. CASE HelloMissing(c)
  BY <1>2 DEF HelloMissing
<1>3. CASE AnswersHello(c)
  BY <1>3, WritesThenViewed DEF AnswersHello
<1>4. CASE Answers(c)
  BY <1>4, WritesThenViewed DEF Answers
<1>5. CASE ClientDropped(c) \/ HandlerFails(c) \/ RunsOutOfMemory(c)
  BY <1>5, DropsViewed DEF ClientDropped, HandlerFails, RunsOutOfMemory
<1>6. CASE LooksForEver(c) \/ Decides(c) \/ KillsServer(c)
  <2>1. PICK place \in {"spinning", "answering", "changing"} : Goes(c, place)
    BY <1>6 DEF LooksForEver, Decides, KillsServer, Replies
  <2>2. UNCHANGED <<process, req, link, toServer>> /\ at[c] = "deciding"
        /\ \A d \in Clients \ {c} : ans'[d] = ans[d]
    BY <1>6 DEF LooksForEver, Decides, KillsServer, Replies, main, asking, net, WellTyped, AskingOK
  <2>3. QED
    BY <2>1, <2>2, HandlesViewed DEF Handling
<1>7. CASE PostsQuestion(c) \/ DeletesQuestion(c) \/ SetsContest(c) \/ AddsQuestion(c)
  <2>1. PICK place \in {"answering", "opening"} : Goes(c, place)
    BY <1>7 DEF PostsQuestion, DeletesQuestion, SetsContest, AddsQuestion, Replies
  <2>2. UNCHANGED <<process, req, link, toServer>> /\ at[c] = "changing"
        /\ \A d \in Clients \ {c} : ans'[d] = ans[d]
    BY <1>7 DEF PostsQuestion, DeletesQuestion, SetsContest, AddsQuestion, Replies, main, net,
       WellTyped, AskingOK
  <2>3. QED
    BY <2>1, <2>2, HandlesViewed DEF Handling
<1>8. CASE Saves(c)
  <2>1. PICK place \in {"answering", "copying", "tallying", "flushing"} : Goes(c, place)
    BY <1>8, SavesMoves
  <2>2. UNCHANGED <<process, req, ans, link, toServer>> /\ at[c] \in Storing
    BY <1>8, SavesMoves DEF main, asking, net
  <2>3. QED
    BY <2>1, <2>2, HandlesViewed DEF Handling, Storing, Walking
<1>9. CASE BeginsContest(c)
  <2>1. Replies(c, "error") /\ UNCHANGED <<process, req, link, toServer>> /\ at[c] = "deciding"
    BY <1>9, QuietAssumption DEF BeginsContest, main, net
  <2>2. QED
    BY <2>1, HandlesViewed DEF Handling, Replies, WellTyped, AskingOK
<1>10. QED
  BY <1>1, <1>2, <1>3, <1>4, <1>5, <1>6, <1>7, <1>8, <1>9 DEF ClientThread

LEMMA ServerViewed ==
  ASSUME WellTyped, Serving
  PROVE  \/ process' # "up" /\ UNCHANGED <<at, req, ans, link, toServer>>
         \/ process' = process /\ \A c \in Clients : Viewed(c)
<1>1. ASSUME NEW c \in Clients, Accepts(c) PROVE Acts(c)
  <2>1. /\ at[c] = "queued" /\ UNCHANGED <<process, req, ans, link, toServer>>
        /\ IF NoPeer(link[c]) THEN Goes(c, "gone") ELSE Goes(c, "greeting")
    BY <1>1 DEF Accepts, main, asking, net
  <2>2. Greeted(c)
    BY <2>1 DEF Greeted, NoPeer, Goes, WellTyped, PlacesOK, Threads
  <2>3. \A d \in Clients \ {c} : Untouched(d)
    BY <2>1 DEF Untouched, Goes, WellTyped, PlacesOK, Threads
  <2>4. QED
    BY <2>1, <2>2, <2>3 DEF Acts, Viewed
<1>2. ASSUME NEW how \in {"exited", "aborted", "crashed"}, Dies(how)
      PROVE  process' # "up" /\ UNCHANGED <<at, req, ans, link, toServer>>
  BY <1>2 DEF Dies, asking, net
<1>3. (\E how \in {"exited", "aborted", "crashed"} : Dies(how)) \/ \E c \in Clients : Acts(c)
  BY <1>1, ThreadViewed DEF Serving, MainThread, Stops, Collide
<1>4. QED
  BY <1>2, <1>3 DEF Acts, Viewed

\* What the server's step is to the program at the other end.
LEMMA DeliveredTo ==
  ASSUME Delivered, NEW c \in Clients
  PROVE  /\ toClient'[c] = IF at[c] \in {"welcoming", "answering"} /\ link[c] = "open" /\ at'[c] # at[c]
                             THEN Append(toClient[c], Reply(c)) ELSE toClient[c]
         /\ peer'[c] = IF peer[c] = "open" /\ (process' # "up" \/ link'[c] = "closed")
                         THEN IF toServer'[c] = << >> /\ at[c] # "queued" THEN "fin" ELSE "rst"
                         ELSE peer[c]
BY DEF Delivered

LEMMA EndsServed ==
  ASSUME MeisterTyped, Serving, NEW c \in Clients, Ends(c)
  PROVE  Ends(c)'
<1>1. client' = client /\ process = "up" /\ Delivered
  BY DEF Serving, program
<1>2. CASE process' # "up" /\ UNCHANGED <<at, req, ans, link, toServer>>
  BY <1>1, <1>2, DeliveredTo DEF Ends
<1>3. CASE process' = process /\ Viewed(c)
  <2>1. \A l : LinkAfterWrite(l) = {"open"} \/ "open" \notin LinkAfterWrite(l)
    BY DEF LinkAfterWrite
  <2>2. LinkAfterWrite("open") = {"open"} /\ \A l : l # "closed" => "closed" \notin LinkAfterWrite(l)
    BY DEF LinkAfterWrite
  <2>3. link[c] # "open" => "open" \notin LinkAfterWrite(link[c])
    BY DEF LinkAfterWrite
  <2>4. CASE Untouched(c)
    BY <1>1, <1>3, <2>4, DeliveredTo DEF Ends, Untouched
  <2>5. CASE Greeted(c)
    BY <1>1, <1>3, <2>5, DeliveredTo DEF Ends, Greeted
  <2>6. CASE Heard(c)
    BY <1>1, <1>3, <2>6, DeliveredTo DEF Ends, Heard
  <2>7. CASE Handled(c)
    BY <1>1, <1>3, <2>7, DeliveredTo DEF Ends, Handled, Handling, Storing
  <2>8. CASE Answered(c)
    BY <1>1, <1>3, <2>2, <2>3, <2>8, DeliveredTo DEF Ends, Answered
  <2>9. CASE Dropped(c)
    BY <1>1, <1>3, <2>9, DeliveredTo DEF Ends, Dropped
  <2>10. QED
    BY <1>3, <2>4, <2>5, <2>6, <2>7, <2>8, <2>9 DEF Viewed
<1>4. QED
  BY <1>2, <1>3, ServerViewed DEF MeisterTyped

LEMMA TokenServed ==
  ASSUME MeisterTyped, Serving, NEW c \in Clients, Ends(c), Token(c)
  PROVE  Token(c)'
<1>1. Delivered /\ Reply(c) \in Replying
  BY ReplyTyped DEF Serving
<1>2. CASE process' # "up" /\ UNCHANGED <<at, req, ans, link, toServer>>
  BY <1>1, <1>2, DeliveredTo DEF Token
<1>3. CASE Untouched(c) \/ Greeted(c) \/ Handled(c) \/ Dropped(c)
  BY <1>1, <1>3, DeliveredTo DEF Token, Ends, Untouched, Greeted, Handled, Dropped, Handling, Storing
<1>4. CASE Heard(c)
  <2>1. PICK r \in AllRequests : toServer[c] = <<r>>
    BY <1>4 DEF Token, Heard
  <2>2. toServer'[c] = << >>
    BY <1>4, <2>1, ReadsOne DEF Heard
  <2>3. toClient'[c] = toClient[c] /\ toClient[c] = << >>
    BY <1>1, <1>4, <2>1, DeliveredTo DEF Heard, Token
  <2>4. QED
    BY <2>2, <2>3 DEF Token
<1>5. CASE Answered(c)
  <2>1. toServer[c] = << >> /\ toClient[c] = << >> /\ toServer'[c] = toServer[c]
    BY <1>5 DEF Answered, Token, Handling
  <2>2. toClient'[c] \in {<< >>, <<Reply(c)>>}
    <3>1. toClient'[c] \in {toClient[c], Append(toClient[c], Reply(c))}
      BY <1>1, DeliveredTo
    <3>2. QED
      BY <2>1, <3>1, AppendsOne
  <2>3. at'[c] \notin Handling \cup {"welcoming"}
    BY <1>5 DEF Answered, Handling
  <2>4. QED
    BY <1>1, <2>1, <2>2, <2>3 DEF Token
<1>6. QED
  BY <1>2, <1>3, <1>4, <1>5, ServerViewed DEF MeisterTyped, Viewed

LEMMA PhaseServed ==
  ASSUME MeisterTyped, Serving, NEW c \in Clients, Converses(c)
  PROVE  Phase(c)'
<1>1. UNCHANGED <<client, want>> /\ process = "up" /\ Delivered
  BY DEF Serving, program
<1>2. peer'[c] = "open" => peer[c] = "open" /\ process' = "up" /\ link'[c] # "closed" /\ link[c] = "open"
  BY <1>1, DeliveredTo DEF Converses, Ends
<1>3. CASE process' # "up" /\ UNCHANGED <<at, req, ans, link, toServer>>
  BY <1>1, <1>2, <1>3, DeliveredTo DEF Converses, Phase
<1>4. CASE Untouched(c)
  BY <1>1, <1>2, <1>4, DeliveredTo DEF Converses, Phase, Untouched
<1>5. CASE Greeted(c)
  BY <1>1, <1>2, <1>5, DeliveredTo DEF Converses, Phase, Greeted, Handling
<1>6. CASE Heard(c)
  <2>1. PICK r \in AllRequests : toServer[c] = <<r>>
    BY <1>6 DEF Converses, Token, Heard
  <2>2. toServer'[c] = << >> /\ toClient'[c] = << >> /\ toClient[c] = << >> /\ Head(toServer[c]) = r
    BY <1>1, <1>6, <2>1, ReadsOne, DeliveredTo DEF Heard, Converses, Token
  <2>3. QED
    BY <1>1, <1>2, <1>6, <2>1, <2>2 DEF Converses, Phase, Heard, Handling
<1>7. CASE Handled(c)
  BY <1>1, <1>2, <1>7, DeliveredTo DEF Converses, Phase, Handled, Handling, Storing
<1>8. CASE Answered(c)
  <2>1. toServer[c] = << >> /\ toClient[c] = << >> /\ toServer'[c] = toServer[c]
    BY <1>8 DEF Answered, Converses, Token, Handling
  <2>2. \A a : <<a>> # << >>
    BY AppendsOne
  <2>3. CASE link[c] # "open"
    BY <1>1, <1>2, <2>1, <2>2, <2>3, DeliveredTo DEF Converses, Phase
  <2>4. CASE link[c] = "open"
    <3>1. peer[c] = "open" /\ toClient'[c] = <<Reply(c)>>
      <4>1. peer[c] = "open" /\ toClient'[c] = Append(toClient[c], Reply(c))
        BY <1>1, <1>8, <2>4, DeliveredTo DEF Converses, Ends, Answered
      <4>2. QED
        BY <2>1, <4>1, AppendsOne
    <3>2. client[c] \notin {"naming", "prompt"}
      BY <1>8, <3>1 DEF Answered, Converses, Phase
    <3>3. client[c] = "awaiting" => Reply(c).req = want[c]
      BY <1>8, <3>1 DEF Answered, Converses, Phase, Handling, Reply
    <3>4. \A a \in Replying : <<a>> = <<Reply(c)>> => a = Reply(c)
      OBVIOUS
    <3>5. peer'[c] = "open" => at'[c] = "reading"
      BY <1>2, <1>8 DEF Answered
    <3>6. client[c] = "awaiting" => \A a \in Replying : toClient'[c] = <<a>> => a.req = want[c]
      BY <3>1, <3>3, <3>4
    <3>7. QED
      BY <1>1, <2>1, <2>2, <3>1, <3>2, <3>5, <3>6 DEF Phase, Handling
  <2>5. QED
    BY <2>3, <2>4
<1>9. CASE Dropped(c)
  BY <1>1, <1>2, <1>9, DeliveredTo DEF Converses, Ends, Phase, Dropped
<1>10. QED
  BY <1>3, <1>4, <1>5, <1>6, <1>7, <1>8, <1>9, ServerViewed DEF MeisterTyped, Viewed

\* A program's step is no other program's.
Apart(c) ==
  /\ at'[c] = at[c] /\ req'[c] = req[c] /\ link'[c] = link[c] /\ toServer'[c] = toServer[c]
  /\ peer'[c] = peer[c] /\ toClient'[c] = toClient[c]
  /\ client'[c] = client[c] /\ want'[c] = want[c] /\ told'[c] = told[c]

LEMMA MovesApart ==
  ASSUME MeisterTyped, NEW d \in Clients, NEW place, Moves(d, place)
  PROVE  client'[d] = place /\ \A c \in Clients \ {d} : client'[c] = client[c]
BY DEF Moves, MeisterTyped, ProgramsOK

LEMMA SendsApart ==
  ASSUME MeisterTyped, NEW d \in Clients, NEW r, NEW next, NEW failed, Sends(d, r, next, failed)
  PROVE  /\ UNCHANGED <<process, memory, restarts, at, req, link, toClient>>
         /\ peer[d] = "open" => /\ toServer'[d] = Append(toServer[d], r) /\ peer'[d] = "open"
                                /\ client'[d] = next
         /\ peer[d] # "open" => toServer'[d] = toServer[d] /\ peer'[d] \in LinkAfterWrite(peer[d])
         /\ client'[d] \in {next, failed, "crashed"}
         /\ \A c \in Clients \ {d} : /\ toServer'[c] = toServer[c] /\ peer'[c] = peer[c]
                                     /\ client'[c] = client[c]
<1>1. UNCHANGED <<process, memory, restarts, at, req, link, toClient>>
  BY DEF Sends, main, asking
<1>2. PICK place \in {next, failed, "crashed"} :
        Moves(d, place) /\ (peer[d] = "open" => place = next)
  BY DEF Sends, WriteReturns, WriteResult
<1>3. client'[d] = place /\ \A c \in Clients \ {d} : client'[c] = client[c]
  BY <1>2, MovesApart
<1>4. PICK l \in LinkAfterWrite(peer[d]) : peer' = [peer EXCEPT ![d] = l]
  BY DEF Sends
<1>5. peer'[d] = l /\ \A c \in Clients \ {d} : peer'[c] = peer[c]
  BY <1>4 DEF MeisterTyped, ProgramsOK
<1>6. peer[d] = "open" => l = "open"
  BY <1>4 DEF LinkAfterWrite
<1>7. /\ \A c \in Clients \ {d} : toServer'[c] = toServer[c]
      /\ IF peer[d] = "open" THEN toServer'[d] = Append(toServer[d], r) ELSE toServer'[d] = toServer[d]
  BY DEF Sends, MeisterTyped, WellTyped, NetOK
<1>8. QED
  BY <1>1, <1>2, <1>3, <1>4, <1>5, <1>6, <1>7

LEMMA HearsApart ==
  ASSUME MeisterTyped, NEW d \in Clients, Hears(d), Token(d)
  PROVE  /\ UNCHANGED <<vars, peer>> /\ toClient'[d] = << >>
         /\ \E a \in Replying : toClient[d] = <<a>> /\ Head(toClient[d]) = a
         /\ \A c \in Clients \ {d} : toClient'[c] = toClient[c]
<1>1. PICK rest \in LeftAfterRead(toClient[d]) : toClient' = [toClient EXCEPT ![d] = rest]
  BY DEF Hears
<1>2. PICK a \in Replying : toClient[d] = <<a>>
  BY DEF Hears, HasData, Token
<1>3. rest = << >> /\ Head(toClient[d]) = a
  BY <1>1, <1>2, ReadsOne
<1>4. QED
  BY <1>1, <1>2, <1>3 DEF Hears, MeisterTyped, ProgramsOK

LEMMA ProgramsApart ==
  ASSUME MeisterTyped, NEW d \in Clients, ProgramStep(d), Token(d)
  PROVE  process' = process /\ \A c \in Clients \ {d} : Apart(c)
<1>1. CASE Dials(d)
  <2>1. PICK place : Moves(d, place)
    BY <1>1 DEF Dials
  <2>2. CASE Connects(d) /\ peer' = [peer EXCEPT ![d] = "open"]
    BY <1>1, <2>1, <2>2, MovesApart DEF Dials, Connects, Goes, Apart, main, asking, MeisterTyped,
       WellTyped, PlacesOK, NetOK, ProgramsOK, Threads
  <2>3. CASE UNCHANGED <<vars, peer>>
    BY <1>1, <2>1, <2>3, MovesApart DEF Dials, Apart, vars, main, asking, net
  <2>4. QED
    BY <1>1, <2>2, <2>3 DEF Dials
<1>2. CASE SaysHello(d)
  BY <1>2, SendsApart DEF SaysHello, Apart
<1>3. CASE TypesRequest(d)
  <2>1. PICK l \in Typed(d) : /\ Sends(d, l.req, "awaiting", "crashed")
                              /\ want' = [want EXCEPT ![d] = l.req]
                              /\ told' = [told EXCEPT ![d] = @ \ Undone(l.req)]
    BY <1>3 DEF TypesRequest
  <2>2. \A c \in Clients \ {d} : want'[c] = want[c] /\ told'[c] = told[c]
    BY <2>1 DEF MeisterTyped, ProgramsOK
  <2>3. QED
    BY <2>1, <2>2, SendsApart DEF Apart
<1>4. CASE HearsHello(d)
  <2>1. PICK place : Moves(d, place)
    BY <1>4 DEF HearsHello
  <2>2. QED
    BY <1>4, <2>1, MovesApart, HearsApart DEF HearsHello, Apart, vars, main, asking, net
<1>5. CASE HearsAnswer(d)
  <2>1. PICK place : Moves(d, place)
    BY <1>5 DEF HearsAnswer
  <2>2. \A c \in Clients \ {d} : want'[c] = want[c] /\ told'[c] = told[c]
    BY <1>5 DEF HearsAnswer, MeisterTyped, ProgramsOK
  <2>3. QED
    BY <1>5, <2>1, <2>2, MovesApart, HearsApart DEF HearsAnswer, Apart, vars, main, asking, net
<1>6. CASE HearsNoHello(d) \/ TripsOver(d) \/ InputEnds(d) \/ HearsNothing(d) \/ Interrupted(d)
  <2>1. PICK place : Moves(d, place)
    BY <1>6 DEF HearsNoHello, TripsOver, InputEnds, HearsNothing, Interrupted
  <2>2. UNCHANGED <<vars, peer, toClient, told>> /\ \A c \in Clients \ {d} : want'[c] = want[c]
    BY <1>6 DEF HearsNoHello, TripsOver, InputEnds, HearsNothing, Interrupted, MeisterTyped, ProgramsOK
  <2>3. QED
    BY <2>1, <2>2, MovesApart DEF Apart, vars, main, asking, net
<1>7. CASE HangsUp(d)
  BY <1>7 DEF HangsUp, Apart, main, asking, program, MeisterTyped, WellTyped, NetOK, ProgramsOK
<1>8. QED
  BY <1>1, <1>2, <1>3, <1>4, <1>5, <1>6, <1>7 DEF ProgramStep, Listens

LEMMA ApartConverses ==
  ASSUME NEW c \in Clients, Converses(c), Apart(c), process' = process
  PROVE  Converses(c)'
BY DEF Converses, Ends, Token, Phase, Apart

\* A program's own steps.
LEMMA DialsConverses ==
  ASSUME MeisterTyped, NEW c \in Clients, Converses(c), Dials(c)
  PROVE  Converses(c)'
<1>1. CASE Connects(c) /\ Moves(c, "naming") /\ peer' = [peer EXCEPT ![c] = "open"]
  <2>1. /\ process = "up" /\ process' = "up" /\ at[c] = "none" /\ at'[c] = "queued"
        /\ link'[c] = "open" /\ peer'[c] = "open" /\ client'[c] = "naming"
        /\ toServer' = toServer /\ toClient' = toClient
    BY <1>1, MovesApart DEF Dials, Connects, Goes, main, MeisterTyped, WellTyped, PlacesOK, NetOK,
       ProgramsOK, Threads
  <2>2. toServer[c] = << >> /\ toClient[c] = << >>
    BY <1>1, <2>1 DEF Dials, Converses, Ends
  <2>3. QED
    BY <2>1, <2>2 DEF Converses, Ends, Token, Phase, Handling
<1>2. CASE Moves(c, "refused") /\ UNCHANGED <<vars, peer>>
  BY <1>2, MovesApart DEF Dials, vars, main, asking, net, Converses, Ends, Token, Phase
<1>3. QED
  BY <1>1, <1>2 DEF Dials

LEMMA SendsConverses ==
  ASSUME MeisterTyped, NEW c \in Clients, Converses(c), NEW r \in AllRequests, NEW next, NEW failed,
         Sends(c, r, next, failed), want' \in [Clients -> AllRequests],
         \/ client[c] = "naming" /\ next = "greeting" /\ failed = "refused"
         \/ client[c] = "prompt" /\ next = "awaiting" /\ failed = "crashed" /\ want'[c] = r
  PROVE  Converses(c)'
<1>1. /\ UNCHANGED <<process, at, req, link, toClient>> /\ toClient[c] = << >>
      /\ client'[c] \in {next, failed, "crashed"}
  BY SendsApart DEF Converses, Phase
<1>2. CASE peer[c] = "open"
  <2>1. toServer[c] = << >> /\ peer'[c] = "open" /\ client'[c] = next /\ toServer'[c] = Append(toServer[c], r)
    BY <1>2, SendsApart DEF Converses, Phase
  <2>2. toServer'[c] = <<r>>
    BY <2>1, AppendsOne
  <2>3. at[c] \in {"queued", "greeting", "reading"}
    BY <1>2 DEF Converses, Phase
  <2>4. Ends(c)'
    BY <1>1, <1>2, <2>1, <2>3 DEF Converses, Ends
  <2>5. Token(c)'
    BY <1>1, <2>2, <2>3 DEF Token, Handling
  <2>6. \A x : <<x>> = <<r>> => x = r
    OBVIOUS
  <2>7. Phase(c)'
    BY <1>1, <1>2, <2>1, <2>2, <2>3, <2>6 DEF Converses, Phase, Handling
  <2>8. QED
    BY <2>4, <2>5, <2>7 DEF Converses
<1>3. CASE peer[c] # "open"
  <2>1. toServer'[c] = toServer[c] /\ peer'[c] \in LinkAfterWrite(peer[c])
    BY <1>3, SendsApart
  <2>2. peer'[c] # "open" /\ (peer'[c] = "closed" <=> peer[c] = "closed")
        /\ (peer'[c] = "idle" <=> peer[c] = "idle")
    BY <1>3, <2>1 DEF LinkAfterWrite, MeisterTyped, ProgramsOK, LinkStates
  <2>3. \A x : <<x>> # << >>
    BY AppendsOne
  <2>4. QED
    BY <1>1, <1>3, <2>1, <2>2, <2>3 DEF Converses, Ends, Token, Phase
<1>4. QED
  BY <1>2, <1>3

LEMMA OwnConverses ==
  ASSUME MeisterTyped, NEW c \in Clients, Converses(c), ProgramStep(c)
  PROVE  Converses(c)'
<1>1. CASE Dials(c)
  BY <1>1, DialsConverses
<1>2. CASE SaysHello(c)
  BY <1>2, SendsConverses, FreshRequest DEF SaysHello, MeisterTyped, ProgramsOK
<1>3. CASE TypesRequest(c)
  <2>1. PICK l \in Typed(c) : /\ Sends(c, l.req, "awaiting", "crashed")
                              /\ want' = [want EXCEPT ![c] = l.req]
    BY <1>3 DEF TypesRequest
  <2>2. l.req \in AllRequests
    BY LineTyped DEF MeisterTyped, WellTyped, NetOK
  <2>3. want' \in [Clients -> AllRequests] /\ want'[c] = l.req /\ client[c] = "prompt"
    BY <1>3, <2>1, <2>2 DEF TypesRequest, MeisterTyped, ProgramsOK
  <2>4. QED
    BY <2>1, <2>2, <2>3, SendsConverses
<1>4. CASE HearsHello(c)
  <2>1. PICK place \in {"prompt", "refused"} : Moves(c, place)
    BY <1>4 DEF HearsHello
  <2>2. /\ UNCHANGED <<vars, peer>> /\ toClient'[c] = << >> /\ toClient[c] # << >>
        /\ client'[c] = place /\ client[c] = "greeting"
    BY <1>4, <2>1, HearsApart, MovesApart DEF HearsHello, Hears, HasData, Converses
  <2>3. QED
    BY <2>2 DEF vars, main, net, asking, Converses, Ends, Token, Phase
<1>5. CASE HearsAnswer(c)
  <2>1. PICK place \in {"prompt", "done"} : Moves(c, place)
    BY <1>5 DEF HearsAnswer
  <2>2. /\ UNCHANGED <<vars, peer>> /\ toClient'[c] = << >> /\ toClient[c] # << >>
        /\ client'[c] = place /\ client[c] = "awaiting"
    BY <1>5, <2>1, HearsApart, MovesApart DEF HearsAnswer, Hears, HasData, Converses
  <2>3. peer[c] = "open" => at[c] = "reading" /\ toServer[c] = << >>
    BY <2>2 DEF Converses, Token, Phase
  <2>4. QED
    BY <2>2, <2>3 DEF vars, main, net, asking, Converses, Ends, Token, Phase
<1>6. CASE HearsNoHello(c) \/ TripsOver(c) \/ InputEnds(c) \/ Interrupted(c)
  <2>1. PICK place \in {"crashed", "refused", "spins"} : Moves(c, place)
    BY <1>6 DEF HearsNoHello, TripsOver, InputEnds, Interrupted
  <2>2. UNCHANGED <<vars, peer, toClient>> /\ client'[c] = place
    BY <1>6, <2>1, MovesApart DEF HearsNoHello, TripsOver, InputEnds, Interrupted
  <2>3. QED
    BY <2>2 DEF vars, main, net, asking, Converses, Ends, Token, Phase
<1>7. CASE HearsNothing(c)
  <2>1. PICK place \in {"prompt", "done", "crashed"} : Moves(c, place)
    BY <1>7 DEF HearsNothing
  <2>2. /\ UNCHANGED <<vars, peer, toClient>> /\ client'[c] = place
        /\ toClient[c] = << >> /\ peer[c] # "open"
    BY <1>7, <2>1, MovesApart DEF HearsNothing, AtEof, ReadFails
  <2>3. QED
    BY <2>2 DEF vars, main, net, asking, Converses, Ends, Token, Phase
<1>8. CASE HangsUp(c)
  <2>1. /\ UNCHANGED <<process, at, req, toServer, client, want>>
        /\ peer'[c] = "closed" /\ toClient'[c] = << >>
        /\ IF peer[c] = "open" THEN link'[c] \in {"fin", "rst"} ELSE link'[c] = link[c]
    BY <1>8 DEF HangsUp, main, asking, program, MeisterTyped, WellTyped, NetOK, ProgramsOK
  <2>2. Ended(c)
    BY <1>8 DEF HangsUp
  <2>3. Ends(c)'
    BY <2>1, <2>2 DEF Converses, Ends, Ended
  <2>4. Token(c)' /\ Phase(c)'
    BY <2>1, <2>2 DEF Converses, Token, Phase, Ended
  <2>5. QED
    BY <2>3, <2>4 DEF Converses
<1>9. QED
  BY <1>1, <1>2, <1>3, <1>4, <1>5, <1>6, <1>7, <1>8 DEF ProgramStep, Listens

LEMMA RestartsConverses ==
  ASSUME MeisterTyped, Restarts, UNCHANGED <<peer, toClient, program>>, NEW c \in Clients, Converses(c)
  PROVE  Converses(c)'
<1>1. CASE process' = "unusable"
  <2>1. process # "up" /\ UNCHANGED <<at, req, link, toServer, peer, toClient, client, want>>
    BY <1>1 DEF Restarts, asking, program
  <2>2. QED
    BY <1>1, <2>1 DEF Converses, Ends, Token, Phase
<1>2. CASE process' # "unusable"
  <2>1. /\ process # "up" /\ process' = "up" /\ at' = Fresh.at /\ link' = Fresh.link
        /\ toServer' = Fresh.toServer /\ UNCHANGED <<peer, toClient, client, want>>
    BY <1>2 DEF Restarts, program
  <2>2. at'[c] = "none" /\ link'[c] = "idle" /\ toServer'[c] = << >>
    BY <2>1, FreshTyped DEF Fresh
  <2>3. peer[c] # "open"
    BY <2>1 DEF Converses, Ends
  <2>4. QED
    BY <2>1, <2>2, <2>3 DEF Converses, Ends, Token, Phase, Handling
<1>3. QED
  BY <1>1, <1>2

Conversing == MeisterTyped /\ \A c \in Clients : Converses(c)

LEMMA ConversingStep == Conversing /\ [MeisterNext]_meisterVars => Conversing'
<1> SUFFICES ASSUME Conversing, [MeisterNext]_meisterVars, NEW c \in Clients PROVE Converses(c)'
  BY MeisterNextTyped DEF Conversing
<1>1. CASE UNCHANGED meisterVars
  BY <1>1 DEF meisterVars, vars, main, asking, net, program, Conversing, Converses, Ends, Token, Phase
<1>2. CASE Serving
  BY <1>2, EndsServed, TokenServed, PhaseServed DEF Conversing, Converses
<1>3. CASE Restarts /\ UNCHANGED <<peer, toClient, program>>
  BY <1>3, RestartsConverses DEF Conversing
<1>4. ASSUME NEW d \in Clients, ProgramStep(d) PROVE Converses(c)'
  <2>1. CASE d = c
    BY <1>4, <2>1, OwnConverses DEF Conversing
  <2>2. CASE d # c
    BY <1>4, <2>2, ProgramsApart, ApartConverses DEF Conversing, Converses
  <2>3. QED
    BY <2>1, <2>2
<1>5. QED
  BY <1>1, <1>2, <1>3, <1>4, MeisterSteps

LEMMA InitConversing == MeisterInit => Conversing
<1> SUFFICES ASSUME MeisterInit, NEW c \in Clients PROVE Converses(c)
  BY MeisterInitTyped DEF Conversing
<1>1. /\ at[c] = "none" /\ link[c] = "idle" /\ toServer[c] = << >> /\ toClient[c] = << >>
      /\ peer[c] = "idle" /\ client[c] = "start"
  BY FreshTyped DEF MeisterInit, Init, Fresh
<1>2. QED
  BY <1>1 DEF Converses, Ends, Token, Phase, Handling

LEMMA ConversingInvariant == MeisterSpec => []Conversing
BY InitConversing, ConversingStep, PTL DEF MeisterSpec

\* An answer belongs to the request it is read for, whatever the server could not
\* handle, dropped or did not survive, and wherever the program was interrupted
\* (ContestmeisterClient.cpp:78-104 against ContestServer.cpp:93-118).
THEOREM AnswersBelong == MeisterSpec => []AnswersMatch
<1>1. Conversing => AnswersMatch
  <2> SUFFICES ASSUME Conversing, NEW c \in Clients, peer[c] = "open"
               PROVE  /\ Len(toServer[c]) + Len(toClient[c]) <= 1
                      /\ client[c] = "prompt" => toServer[c] = << >> /\ toClient[c] = << >>
                      /\ client[c] = "awaiting" /\ toClient[c] # << >> => Head(toClient[c]).req = want[c]
    BY DEF AnswersMatch
  <2>1. Converses(c)
    BY DEF Conversing
  <2>2. Len(<< >>) = 0 /\ \A x : Len(<<x>>) = 1 /\ Head(<<x>>) = x
    OBVIOUS
  <2>3. Len(toServer[c]) + Len(toClient[c]) <= 1
    <3>1. toServer[c] = << >> \/ toClient[c] = << >>
      BY <2>1 DEF Converses, Token
    <3>2. Len(toServer[c]) \in {0, 1} /\ Len(toClient[c]) \in {0, 1}
      BY <2>1, <2>2 DEF Converses, Token
    <3>3. Len(toServer[c]) = 0 \/ Len(toClient[c]) = 0
      BY <2>2, <3>1
    <3>4. \A m, n \in {0, 1} : m = 0 \/ n = 0 => m + n <= 1
      OBVIOUS
    <3>5. QED
      BY <3>2, <3>3, <3>4
  <2>4. QED
    BY <2>1, <2>2, <2>3 DEF Converses, Token, Phase
<1>2. QED
  BY <1>1, ConversingInvariant, PTL
-----------------------------------------------------------------------------
(* What a user was told is made. *)

Makes == {"p", "s", "a"}

\* The only user so far; the others have not started their programs.
Sole(c) == \A d \in Clients \ {c} : client[d] = "start"

\* With one thread no saves overlap and none is cut short: the process ends at a
\* kill, or where the thread saves nothing.
Undisturbed(c) ==
  /\ \A b \in Banks : ~torn[b] /\ ~overlapped[b]
  /\ lsock = "shutdown" => reqkill
  /\ reqkill => at[c] \in {"answering", "gone"}
  /\ process # "up" => at[c] \notin Storing

\* An OK says that the change it answers is made, from the change to the reading.
Honest(c) ==
  /\ \A a \in Replying : toClient[c] = <<a>> /\ a.ans = "ok" /\ a.req.op \in Makes
                           => Made(a.req, book, contests)
  /\ at[c] \in Storing \/ (at[c] = "answering" /\ ans[c] = "ok")
       => (req[c].op \in Makes => Made(req[c], book, contests))
  /\ at[c] = "changing" /\ req[c].op = "a" => req[c].c \in DOMAIN contests

\* What is being undone nobody believes in any more.
Withdrawn(c) ==
  /\ at[c] \in Handling => told[c] \cap Undone(req[c]) = {}
  /\ \A r \in AllRequests : toServer[c] = <<r>> => told[c] \cap Undone(r) = {}

Held(c) == \A r \in told[c] : Made(r, book, contests)

Reliable(c) == Undisturbed(c) /\ Honest(c) /\ Withdrawn(c) /\ Held(c)

Relied == Conversing /\ Through /\ \A c \in Clients : Sole(c) => Reliable(c)

\* What is made stays made while the banks only grow, and through a restart.
LEMMA MadeKept ==
  ASSUME NEW qs, NEW rs, qs \subseteq rs, NEW cs, NEW ds, KeptIn(cs, ds), NEW r, r.op \in Makes,
         Made(r, qs, cs)
  PROVE  Made(r, rs, ds)
<1>1. CASE r.op = "p"
  BY <1>1 DEF Made
<1>2. CASE r.op = "s"
  BY <1>2 DEF Made, KeptIn
<1>3. CASE r.op = "a"
  BY <1>3 DEF Made, KeptIn
<1>4. QED
  BY <1>1, <1>2, <1>3 DEF Makes

LEMMA MadePlain ==
  ASSUME NEW k \in Nat, NEW l \in Nat, NEW cs \in ContestsTo(k), NEW ds \in ContestsTo(l),
         Plain(cs) = Plain(ds), NEW qs, NEW r, r.op \in Makes, Made(r, qs, cs)
  PROVE  Made(r, qs, ds)
<1>1. DOMAIN cs = DOMAIN ds
  <2>1. DOMAIN Plain(cs) = DOMAIN cs /\ DOMAIN Plain(ds) = DOMAIN ds
    BY DEF Plain
  <2>2. QED
    BY <2>1
<1>2. ASSUME NEW i \in DOMAIN cs PROVE DOMAIN cs[i].qs = DOMAIN ds[i].qs
  <2>1. cs[i] \in ContestTo(k) /\ ds[i] \in ContestTo(l)
    BY <1>1, ContestsToElements
  <2>2. \A v, S : v \in ContestTo(k) \/ v \in ContestTo(l) => [v EXCEPT !.qs = S].qs = S
    BY DEF ContestTo
  <2>3. Plain(cs)[i] = [cs[i] EXCEPT !.qs = DOMAIN cs[i].qs]
        /\ Plain(ds)[i] = [ds[i] EXCEPT !.qs = DOMAIN ds[i].qs]
    BY <1>1 DEF Plain
  <2>4. Plain(cs)[i].qs = DOMAIN cs[i].qs /\ Plain(ds)[i].qs = DOMAIN ds[i].qs
    BY <2>1, <2>2, <2>3
  <2>5. QED
    BY <2>4
<1>3. CASE r.op = "p"
  BY <1>3 DEF Made
<1>4. CASE r.op = "s"
  BY <1>1, <1>4 DEF Made
<1>5. CASE r.op = "a"
  BY <1>1, <1>2, <1>5 DEF Made
<1>6. QED
  BY <1>3, <1>4, <1>5 DEF Makes

LEMMA SoleThread ==
  ASSUME Conversing, NEW c \in Clients, Sole(c)
  PROVE  /\ Threads = Clients /\ at[c] \in ClientPlaces
         /\ \A d \in Clients \ {c} : at[d] = "none"
<1>1. Threads = Clients
  BY QuietAssumption DEF Threads
<1>2. QED
  BY <1>1 DEF Conversing, Converses, Ends, Sole, MeisterTyped, WellTyped, PlacesOK

\* The thread of the only user, or the main thread, makes every step of the server.
LEMMA IdleThreads ==
  ASSUME NEW d \in Clients, at[d] = "none"
  PROVE  ~ClientThread(d) /\ ~Accepts(d)
BY DEF ClientThread, ReadsHello, HelloMissing, AnswersHello, ReadsRequest, ClientDropped, HandlerFails,
   Decides, LooksForEver, RunsOutOfMemory, PostsQuestion, DeletesQuestion, SetsContest, AddsQuestion,
   BeginsContest, KillsServer, Saves, Opens, CopiesQuestion, CopiesContest, CopiesStats, Flushes,
   Answers, Accepts, Walking

LEMMA SoleServed ==
  ASSUME Relied, NEW c \in Clients, Sole(c), Serving
  PROVE  Stops \/ Accepts(c) \/ ClientThread(c)
<1>0. Threads = Clients /\ \A d \in Clients \ {c} : at[d] = "none"
  BY SoleThread DEF Relied
<1>1. ~Collide
  <2>1. ASSUME NEW t \in Threads, NEW b \in Banks, Reads(t, b) \/ Writes(t, b) PROVE t = c
    BY <1>0, <2>1 DEF Reads, Writes, Walking
  <2>2. ASSUME NEW t \in Walkers("questions") PROVE buf[t].here \in book
    <3>1. t = c /\ at[c] \in Walking /\ BankOf(c) = "questions" /\ t \in Saving("questions")
      BY <1>0 DEF Walkers, Saving, Walking
    <3>2. ~overlapped["questions"]
      BY BanksAreTwo DEF Relied, Reliable, Undisturbed
    <3>3. Opening("questions") = {}
      BY <1>0, <3>1 DEF Opening, Unsaved, Saving, Walking
    <3>4. UpToDate(c)
      BY <3>1, <3>2, <3>3, BanksAreTwo DEF Relied, Through, Latest
    <3>5. QED
      BY <3>1, <3>4 DEF UpToDate, Walking
  <2>3. QED
    BY <2>1, <2>2 DEF Collide
<1>2. QED
  BY <1>0, <1>1, IdleThreads DEF Serving, MainThread

\* No one else's change is in the way.
LEMMA NotContended ==
  ASSUME Conversing, NEW c \in Clients, Sole(c)
  PROVE  /\ ~Contended(c)
         /\ \A b \in Banks : at[c] \notin Walking \cup {"flushing"} => Saving(b) = {} /\ Walkers(b) = {}
BY SoleThread DEF Contended, Saving, Walkers, Walking

\* The end of the process while the only thread saves nothing.
LEMMA DiesRelied ==
  ASSUME Relied, NEW c \in Clients, Sole(c), NEW how, Dies(how), at[c] \notin Storing,
         Delivered, UNCHANGED program
  PROVE  Reliable(c)'
<1>1. \A b \in Banks : Saving(b) = {}
  BY NotContended DEF Relied, Storing, Walking
<1>2. \A b \in Banks : torn'[b] = torn[b]
  <2>1. PICK cut \in SUBSET { d \in Banks : Saving(d) # {} } :
          torn' = [d \in Banks |-> torn[d] \/ d \in cut]
    BY DEF Dies
  <2>2. cut = {}
    BY <1>1, <2>1
  <2>3. torn \in [Banks -> BOOLEAN]
    BY DEF Relied, Conversing, MeisterTyped, WellTyped, BanksOK
  <2>4. \A d \in Banks : torn'[d] = (torn[d] \/ d \in cut)
    BY <2>1
  <2>5. QED
    BY <2>2, <2>3, <2>4
<1>3. UNCHANGED <<reqkill, lsock, book, contests, overlapped, at, req, ans, toServer, told>>
  BY DEF Dies, memory, asking, net, program
<1>4. toClient'[c] = toClient[c]
  BY <1>3, DeliveredTo
<1>5. QED
  BY <1>2, <1>3, <1>4 DEF Relied, Reliable, Undisturbed, Honest, Withdrawn, Held

\* A step of the only thread that leaves the banks and the files alone.
LEMMA CalmRelied ==
  ASSUME Relied, NEW c \in Clients, Sole(c), Serving,
         UNCHANGED <<memory, torn, overlapped, process>>, Viewed(c), at'[c] # at[c],
         lsock' = "shutdown" => reqkill', reqkill' => at'[c] \in {"answering", "gone"},
         at'[c] \notin Storing,
         at'[c] = "answering" /\ ans'[c] = "ok" => at[c] = "deciding" /\ req[c].op \notin Makes,
         at'[c] = "changing" => at[c] = "deciding" /\ (req[c].op = "a" => req[c].c \in DOMAIN contests)
  PROVE  Reliable(c)'
<1>1. Delivered /\ UNCHANGED told /\ process = "up"
  BY DEF Serving, program
<1>2. Reliable(c) /\ Converses(c) /\ Reply(c) \in Replying
  BY ReplyTyped DEF Relied, Conversing
<1>3. Undisturbed(c)'
  BY <1>1, <1>2 DEF Reliable, Undisturbed
<1>4. Held(c)'
  BY <1>1, <1>2 DEF Reliable, Held, memory
<1>5. at[c] = "deciding" => req'[c] = req[c] \/ at'[c] = "gone"
  BY DEF Viewed, Untouched, Greeted, Heard, Handled, Answered, Dropped
<1>6. Honest(c)'
  <2>1. \/ toClient'[c] = toClient[c]
        \/ at[c] \in {"welcoming", "answering"} /\ toClient'[c] = <<Reply(c)>>
    <3>1. \/ toClient'[c] = toClient[c]
          \/ at[c] \in {"welcoming", "answering"} /\ toClient'[c] = Append(toClient[c], Reply(c))
      BY <1>1, DeliveredTo
    <3>2. at[c] \in {"welcoming", "answering"} => toClient[c] = << >>
      BY <1>2 DEF Converses, Token, Handling
    <3>3. QED
      BY <3>1, <3>2, AppendsOne
  <2>2. ASSUME NEW a \in Replying, toClient'[c] = <<a>>, a.ans = "ok", a.req.op \in Makes
        PROVE  Made(a.req, book, contests)
    <3>1. CASE toClient'[c] = toClient[c]
      BY <1>2, <2>2, <3>1 DEF Reliable, Honest
    <3>2. CASE at[c] \in {"welcoming", "answering"} /\ toClient'[c] = <<Reply(c)>>
      <4>1. a = Reply(c)
        BY <2>2, <3>2
      <4>2. at[c] = "answering" /\ a.ans = ans[c] /\ a.req = req[c]
        BY <2>2, <3>2, <4>1 DEF Reply, Ask, Makes
      <4>3. QED
        BY <1>2, <2>2, <4>2 DEF Reliable, Honest
    <3>3. QED
      BY <2>1, <3>1, <3>2
  <2>3. UNCHANGED <<book, contests>>
    BY DEF memory
  <2>4. at'[c] = "answering" /\ ans'[c] = "ok" => req'[c].op \notin Makes
    BY <1>5
  <2>5. at'[c] = "changing" /\ req'[c].op = "a" => req'[c].c \in DOMAIN contests
    BY <1>5
  <2>6. QED
    BY <2>2, <2>3, <2>4, <2>5 DEF Honest
<1>7. Withdrawn(c)'
  <2>1. CASE Heard(c)
    <3>1. PICK r \in AllRequests : toServer[c] = <<r>>
      BY <1>2, <2>1 DEF Converses, Token, Heard
    <3>2. toServer'[c] = << >> /\ Head(toServer[c]) = r /\ told[c] \cap Undone(r) = {}
      BY <1>2, <2>1, <3>1, ReadsOne DEF Heard, Reliable, Withdrawn
    <3>3. at'[c] \in Handling => req'[c] = r
      BY <2>1, <3>2 DEF Heard, Handling
    <3>4. QED
      BY <1>1, <3>2, <3>3, AppendsOne DEF Withdrawn, Undone
  <2>2. CASE ~Heard(c)
    <3>1. toServer'[c] = toServer[c]
      BY <2>2 DEF Viewed, Untouched, Greeted, Handled, Answered, Dropped
    <3>2. at'[c] \in Handling => at[c] \in Handling /\ req'[c] = req[c]
      BY <2>2 DEF Viewed, Untouched, Greeted, Handled, Answered, Dropped, Handling, Storing
    <3>3. QED
      BY <1>1, <1>2, <3>1, <3>2 DEF Reliable, Withdrawn, Undone
  <2>3. QED
    BY <2>1, <2>2
<1>8. QED
  BY <1>3, <1>4, <1>6, <1>7 DEF Reliable

\* A step of the only thread that changes a bank.
LEMMA ChangeRelied ==
  ASSUME Relied, NEW c \in Clients, Sole(c), Serving,
         PostsQuestion(c) \/ DeletesQuestion(c) \/ SetsContest(c) \/ AddsQuestion(c)
  PROVE  Reliable(c)'
<1>1. /\ Reliable(c) /\ Converses(c) /\ ~Contended(c) /\ process = "up" /\ Delivered
      /\ UNCHANGED told /\ [Next]_vars /\ ~Restarts
  BY ServingNext, NotContended DEF Relied, Conversing, program, Restarts
<1>2. /\ at[c] = "changing" /\ at'[c] \in {"answering", "opening"}
      /\ UNCHANGED <<main, qfile, cfile, torn, req, toServer>>
      /\ at'[c] = "answering" => ans'[c] # "ok"
  BY DEF PostsQuestion, DeletesQuestion, SetsContest, AddsQuestion, Replies, Goes, net, Relied,
     Conversing, MeisterTyped, WellTyped, PlacesOK, AskingOK, Threads
<1>3. toClient'[c] = << >> /\ toServer'[c] = << >>
  <2>1. toClient[c] = << >> /\ toServer[c] = << >>
    BY <1>1, <1>2 DEF Converses, Token, Handling
  <2>2. toClient'[c] = toClient[c]
    BY <1>1, <1>2, DeliveredTo
  <2>3. QED
    BY <1>2, <2>1, <2>2
<1>4. Undisturbed(c)'
  <2>1. \A b \in Banks : Walkers(b) = {}
    BY <1>2, NotContended DEF Relied, Walking
  <2>2. \/ overlapped' = overlapped
        \/ \E b \in Banks : \E walkers \in SUBSET Walkers(b) : Disturbs(b, walkers)
    BY BanksAreTwo DEF PostsQuestion, DeletesQuestion, SetsContest, AddsQuestion
  <2>3. overlapped' = overlapped
    BY <2>1, <2>2 DEF Disturbs, Relied, Conversing, MeisterTyped, WellTyped, BanksOK
  <2>4. QED
    BY <1>1, <1>2, <2>3 DEF Reliable, Undisturbed, main
<1>5. Withdrawn(c)'
  BY <1>1, <1>2, <1>3, AppendsOne DEF Reliable, Withdrawn, Handling, Undone
<1>6. KeptIn(contests, contests') /\ contests \in ContestsTo(restarts) /\ restarts \in Nat
      /\ req[c] \in AllRequests
  BY <1>1, ContestsKept, BoundsAreNaturals DEF Relied, Conversing, MeisterTyped, WellTyped, BanksOK, AskingOK
<1>7. \A r \in told[c] : r \in AllRequests /\ r.op \in Makes
  BY DEF Relied, Conversing, MeisterTyped, ProgramsOK, Makes
<1>8. Held(c)'
  <2>1. CASE book \subseteq book'
    BY <1>1, <1>6, <1>7, <2>1, MadeKept DEF Reliable, Held
  <2>2. CASE DeletesQuestion(c)
    <3>1. book \ {req[c].q} \subseteq book' /\ req[c].op = "d" /\ UNCHANGED contests
      BY <2>2 DEF DeletesQuestion
    <3>2. ASSUME NEW r \in told[c] PROVE Made(r, book', contests')
      <4>1. r.op = "p" => r.q # req[c].q
        BY <1>1, <1>2, <1>7, <3>1 DEF Reliable, Withdrawn, Undone, Handling
      <4>2. Made(r, book, contests) /\ r.op \in Makes
        BY <1>1, <1>7 DEF Reliable, Held
      <4>3. QED
        BY <3>1, <4>1, <4>2 DEF Made, Makes
    <3>3. QED
      BY <1>1, <3>2 DEF Held
  <2>3. QED
    BY <2>1, <2>2 DEF PostsQuestion, SetsContest, AddsQuestion
<1>9. ASSUME at'[c] = "opening", req[c].op \in Makes PROVE Made(req[c], book', contests')
  <2>1. CASE PostsQuestion(c)
    <3>1. req[c].op = "p" /\ req[c].q \in book'
      BY <1>1, <1>2, <1>9, <2>1 DEF PostsQuestion, Replies, Goes, Relied, Conversing, MeisterTyped,
         WellTyped, PlacesOK, Threads
    <3>2. QED
      BY <3>1 DEF Made
  <2>2. CASE SetsContest(c)
    <3>1. req[c].op = "s" /\ req[c].c \in DOMAIN contests'
      BY <1>1, <2>2 DEF SetsContest, With
    <3>2. QED
      BY <3>1 DEF Made
  <2>3. CASE AddsQuestion(c)
    <3>1. PICK id, q : id = req[c].c /\ q = req[c].q
      OBVIOUS
    <3>2. PICK f : /\ f = IF q \in DOMAIN contests[id].qs THEN contests[id].qs
                                                          ELSE With(contests[id].qs, q, 0)
                   /\ contests' = [contests EXCEPT ![id].qs = f] /\ req[c].op = "a"
      BY <1>1, <2>3, <3>1 DEF AddsQuestion
    <3>3. q \in DOMAIN f
      BY <3>2 DEF With
    <3>4. id \in DOMAIN contests /\ contests[id] \in ContestTo(restarts)
      BY <1>1, <1>2, <1>6, <3>1, <3>2, ContestsToElements DEF Reliable, Honest
    <3>5. \A v \in ContestTo(restarts) : [v EXCEPT !.qs = f].qs = f
      BY DEF ContestTo
    <3>6. id \in DOMAIN contests' /\ contests'[id].qs = f
      BY <3>2, <3>4, <3>5
    <3>7. QED
      BY <3>1, <3>2, <3>3, <3>6 DEF Made
  <2>4. CASE DeletesQuestion(c)
    BY <1>9, <2>4 DEF DeletesQuestion, Makes
  <2>5. QED
    BY <2>1, <2>2, <2>3, <2>4
<1>10. Honest(c)'
  BY <1>2, <1>3, <1>9, AppendsOne DEF Honest, Storing
<1>11. QED
  BY <1>4, <1>5, <1>8, <1>10 DEF Reliable

\* A save of the only thread.
LEMMA SaveRelied ==
  ASSUME Relied, NEW c \in Clients, Sole(c), Serving, Saves(c)
  PROVE  Reliable(c)'
<1>1. /\ Reliable(c) /\ Converses(c) /\ process = "up" /\ Delivered /\ UNCHANGED told
      /\ \A b \in Banks : at[c] = "opening" => Saving(b) = {}
  BY NotContended DEF Relied, Conversing, Serving, program, Walking
<1>2. /\ at[c] \in Storing /\ UNCHANGED <<main, memory, req, ans, toServer>>
      /\ at'[c] \in {"answering", "copying", "tallying", "flushing"}
  BY SavesMoves DEF Goes, asking, net, Relied, Conversing, MeisterTyped, WellTyped, PlacesOK, Threads
<1>3. toClient'[c] = toClient[c]
  BY <1>1, <1>2, DeliveredTo DEF Storing, Walking
<1>4. \A b \in Banks : ~torn'[b] /\ ~overlapped'[b]
  <2>1. torn \in [Banks -> BOOLEAN] /\ overlapped \in [Banks -> BOOLEAN]
        /\ \A b \in Banks : ~torn[b] /\ ~overlapped[b]
    BY <1>1 DEF Reliable, Undisturbed, Relied, Conversing, MeisterTyped, WellTyped, BanksOK
  <2>2. PICK b \in Banks : b = BankOf(c)
    BY BanksAreTwo
  <2>3. CASE Opens(c)
    <3>1. torn' = [torn EXCEPT ![b] = FALSE] /\ overlapped' = [overlapped EXCEPT ![b] = Saving(b) # {}]
          /\ Saving(b) = {}
      BY <1>1, <2>2, <2>3 DEF Opens
    <3>2. QED
      BY <2>1, <3>1
  <2>4. CASE CopiesQuestion(c) \/ CopiesContest(c) \/ CopiesStats(c)
    BY <2>1, <2>4 DEF CopiesQuestion, CopiesContest, CopiesStats, disk
  <2>5. CASE Flushes(c)
    <3>1. (\E mixed \in {FALSE, overlapped[b]} : torn' = [torn EXCEPT ![b] = mixed])
          /\ overlapped' = overlapped
      BY <2>2, <2>5 DEF Flushes
    <3>2. QED
      BY <2>1, <3>1
  <2>6. QED
    BY <2>3, <2>4, <2>5 DEF Saves
<1>5. Undisturbed(c)'
  BY <1>1, <1>2, <1>4 DEF Reliable, Undisturbed, main, Storing
<1>6. QED
  BY <1>1, <1>2, <1>3, <1>5 DEF Reliable, Honest, Withdrawn, Held, memory, Handling, Storing, Walking,
     Undone

\* The steps of the only thread that leave the banks alone are calm, or end the process.
LEMMA DropsRelied ==
  ASSUME Relied, NEW c \in Clients, Sole(c), Serving, Drops(c, link[c]),
         at[c] \notin {"none", "welcoming", "answering", "gone"} \cup Storing
  PROVE  Reliable(c)'
<1>1. CASE Dies("aborted")
  BY <1>1, DiesRelied DEF Serving
<1>2. CASE ~Dies("aborted")
  <2>1. Acts(c) /\ at'[c] = "gone" /\ UNCHANGED <<main, memory, disk>>
    BY <1>2, DropsViewed DEF Drops, Goes, Relied, Conversing, MeisterTyped, WellTyped, PlacesOK, Threads
  <2>2. QED
    BY <2>1, CalmRelied DEF Acts, Relied, Reliable, Undisturbed, main, disk, Storing
<1>3. QED
  BY <1>1, <1>2

LEMMA WritesRelied ==
  ASSUME Relied, NEW c \in Clients, Sole(c), Serving, NEW next \in {"gone", "reading"}, NEW logs,
         WritesThen(c, next, logs), at[c] \in {"welcoming", "answering"}, reqkill => next = "gone"
  PROVE  Reliable(c)'
<1>1. CASE Dies("aborted")
  BY <1>1, DiesRelied DEF Serving, Storing
<1>2. CASE ~Dies("aborted")
  <2>1. Acts(c)
    BY <1>2, WritesThenViewed DEF Relied, Conversing, MeisterTyped
  <2>2. at'[c] \in {next, "gone"} /\ UNCHANGED <<main, memory, disk>>
    BY <1>2 DEF WritesThen, Drops, Goes, Relied, Conversing, MeisterTyped, WellTyped, PlacesOK, Threads
  <2>3. QED
    BY <2>1, <2>2, CalmRelied DEF Acts, Relied, Reliable, Undisturbed, main, disk, Storing
<1>3. QED
  BY <1>1, <1>2

LEMMA HandlerRelied ==
  ASSUME Relied, NEW c \in Clients, Sole(c), Serving,
         LooksForEver(c) \/ Decides(c) \/ KillsServer(c) \/ BeginsContest(c)
  PROVE  Reliable(c)'
<1>1. Viewed(c) /\ UNCHANGED <<memory, torn, overlapped, process>> /\ at[c] = "deciding"
  <2>1. ~Dies("aborted") /\ ~Dies("crashed") /\ process' = process
    BY DEF Dies, Serving, LooksForEver, Decides, KillsServer, BeginsContest, main
  <2>2. ClientThread(c)
    BY DEF ClientThread
  <2>3. Acts(c)
    BY <2>1, <2>2, ThreadViewed DEF Relied, Conversing, MeisterTyped
  <2>4. QED
    BY <2>1, <2>3 DEF Acts, LooksForEver, Decides, KillsServer, BeginsContest, disk
<1>2. /\ at'[c] \in {"spinning", "answering", "changing"}
      /\ at'[c] = "answering" /\ ans'[c] = "ok" => req[c].op \notin Makes
      /\ at'[c] = "changing" => (req[c].op = "a" => req[c].c \in DOMAIN contests)
  <2>1. at \in [Threads -> ClientPlaces \cup SessionPlaces] /\ c \in Threads
        /\ ans \in [Clients -> {"ok", "error", "blank"}]
    BY DEF Relied, Conversing, MeisterTyped, WellTyped, PlacesOK, AskingOK, Threads
  <2>2. CASE LooksForEver(c)
    BY <2>1, <2>2 DEF LooksForEver, Goes
  <2>3. CASE Decides(c)
    BY <2>1, <2>3 DEF Decides, Replies, Goes, Makes, Found
  <2>4. CASE KillsServer(c)
    BY <2>1, <2>4 DEF KillsServer, Replies, Goes, Makes
  <2>5. CASE BeginsContest(c)
    <3>1. Replies(c, "error")
      BY <2>5, QuietAssumption DEF BeginsContest
    <3>2. QED
      BY <2>1, <3>1 DEF Replies, Goes
  <2>6. QED
    BY <2>2, <2>3, <2>4, <2>5
<1>3. (lsock' = "shutdown" => reqkill') /\ (reqkill' => at'[c] \in {"answering", "gone"})
  <2>1. ~reqkill /\ lsock # "shutdown"
    BY <1>1 DEF Relied, Reliable, Undisturbed
  <2>2. CASE KillsServer(c)
    BY <2>2 DEF KillsServer, Replies, Goes, Relied, Conversing, MeisterTyped, WellTyped, PlacesOK, Threads
  <2>3. CASE UNCHANGED main
    BY <2>1, <2>3 DEF main
  <2>4. QED
    BY <2>2, <2>3 DEF LooksForEver, Decides, BeginsContest
<1>4. QED
  BY <1>1, <1>2, <1>3, CalmRelied DEF Storing

LEMMA ReadsRelied ==
  ASSUME Relied, NEW c \in Clients, Sole(c), Serving, ReadsHello(c) \/ ReadsRequest(c)
  PROVE  Reliable(c)'
<1>1. CASE Dies("aborted")
  BY <1>1, DiesRelied DEF Serving, ReadsHello, ReadsRequest, Storing
<1>2. CASE ~Dies("aborted")
  <2>1. Acts(c)
    BY <1>2, ReadsViewed DEF Relied, Conversing, MeisterTyped
  <2>2. /\ at[c] \in {"greeting", "reading"} /\ at'[c] \in {"welcoming", "answering", "deciding"}
        /\ at'[c] = "answering" => ans'[c] # "ok"
        /\ UNCHANGED <<main, memory, disk>>
    <3>1. CASE ReadsHello(c)
      BY <1>2, <3>1 DEF ReadsHello, Goes, Relied, Conversing, MeisterTyped, WellTyped, PlacesOK, Threads
    <3>2. CASE ReadsRequest(c)
      BY <1>2, <3>2 DEF ReadsRequest, Goes, Relied, Conversing, MeisterTyped, WellTyped, PlacesOK,
         AskingOK, Threads
    <3>3. QED
      BY <3>1, <3>2
  <2>3. QED
    BY <2>1, <2>2, CalmRelied DEF Acts, Relied, Reliable, Undisturbed, main, disk, Storing
<1>3. QED
  BY <1>1, <1>2

LEMMA ServingRelied ==
  ASSUME Relied, NEW c \in Clients, Sole(c), Serving
  PROVE  Reliable(c)'
<1>0. Delivered /\ UNCHANGED program
  BY DEF Serving
<1>1. CASE Stops
  BY <1>0, <1>1, DiesRelied DEF Stops, Relied, Reliable, Undisturbed, Storing
<1>2. CASE Accepts(c)
  <2>1. at[c] = "queued" /\ at'[c] \in {"gone", "greeting"} /\ UNCHANGED <<main, memory, disk>>
        /\ UNCHANGED <<req, ans, link, toServer>>
    BY <1>2 DEF Accepts, asking, net, Goes, Relied, Conversing, MeisterTyped, WellTyped, PlacesOK, Threads
  <2>2. link[c] = "open" => at'[c] = "greeting"
    BY <1>2 DEF Accepts, NoPeer, Goes, Relied, Conversing, MeisterTyped, WellTyped, PlacesOK, Threads
  <2>3. Viewed(c)
    BY <2>1, <2>2 DEF Viewed, Greeted
  <2>4. QED
    BY <2>1, <2>3, CalmRelied DEF Relied, Reliable, Undisturbed, main, disk, Storing
<1>3. CASE ReadsHello(c) \/ ReadsRequest(c)
  BY <1>3, ReadsRelied
<1>4. CASE HelloMissing(c)
  BY <1>0, <1>4, DiesRelied DEF HelloMissing, Storing
<1>5. CASE AnswersHello(c) \/ Answers(c)
  <2>1. CASE AnswersHello(c)
    BY <2>1, WritesRelied DEF AnswersHello
  <2>2. CASE Answers(c)
    BY <2>2, WritesRelied DEF Answers
  <2>3. QED
    BY <1>5, <2>1, <2>2
<1>6. CASE ClientDropped(c) \/ HandlerFails(c)
  BY <1>6, DropsRelied DEF ClientDropped, HandlerFails, Storing
<1>7. CASE RunsOutOfMemory(c)
  BY <1>0, <1>7, DropsRelied, DiesRelied DEF RunsOutOfMemory, Storing
<1>8. CASE LooksForEver(c) \/ Decides(c) \/ KillsServer(c) \/ BeginsContest(c)
  BY <1>8, HandlerRelied
<1>9. CASE PostsQuestion(c) \/ DeletesQuestion(c) \/ SetsContest(c) \/ AddsQuestion(c)
  BY <1>9, ChangeRelied
<1>10. CASE Saves(c)
  BY <1>10, SaveRelied
<1>11. QED
  BY <1>1, <1>2, <1>3, <1>4, <1>5, <1>6, <1>7, <1>8, <1>9, <1>10, SoleServed
  DEF Relied, ClientThread

\* The only user's own steps leave the banks and the threads alone.
LEMMA ProgramLeaves ==
  ASSUME NEW c \in Clients, ProgramStep(c)
  PROVE  /\ UNCHANGED <<main, memory, disk, buf, req, ans, playing>>
         /\ at' = at \/ (at[c] = "none" /\ Goes(c, "queued") /\ toServer' = toServer)
<1>1. CASE UNCHANGED vars
  BY <1>1 DEF vars, asking
<1>2. CASE Connects(c)
  BY <1>2 DEF Connects, asking
<1>3. CASE SaysHello(c) \/ TypesRequest(c)
  BY <1>3 DEF SaysHello, TypesRequest, Sends, asking
<1>4. CASE HangsUp(c)
  BY <1>4 DEF HangsUp, asking
<1>5. QED
  BY <1>1, <1>2, <1>3, <1>4 DEF ProgramStep, Listens, Dials, HearsHello, HearsAnswer, Hears,
     HearsNoHello, HearsNothing, TripsOver, InputEnds, Interrupted

LEMMA ProgramPlaces ==
  ASSUME MeisterTyped, NEW c \in Clients, ProgramStep(c)
  PROVE  \A t \in Threads : at'[t] = at[t] \/ (at[t] = "none" /\ at'[t] = "queued")
<1>1. at' = at \/ (at[c] = "none" /\ Goes(c, "queued"))
  BY ProgramLeaves
<1>2. c \in Threads /\ DOMAIN at = Threads
  BY DEF MeisterTyped, WellTyped, PlacesOK, Threads
<1>3. CASE at' = at
  BY <1>3
<1>4. CASE at[c] = "none" /\ Goes(c, "queued")
  BY <1>2, <1>4 DEF Goes
<1>5. QED
  BY <1>1, <1>3, <1>4

LEMMA ProgramThrough ==
  ASSUME Conversing, Through, NEW c \in Clients, ProgramStep(c)
  PROVE  Through'
<1>1. Quiet
  <2>1. /\ UNCHANGED <<memory, disk, buf, restarts, req, playing>>
        /\ \A t \in Threads : at'[t] = at[t] \/ (at[t] = "none" /\ at'[t] = "queued")
    BY ProgramLeaves, ProgramPlaces DEF main, Conversing
  <2>2. \A t : BankOf(t)' = BankOf(t)
    BY <2>1 DEF BankOf
  <2>3. QED
    BY <2>1, <2>2, QuietAssumption DEF Quiet, Busy, Walking
<1>2. QED
  BY <1>1, QuietThrough DEF Conversing, MeisterTyped

LEMMA ToldChanges ==
  ASSUME Relied, NEW c \in Clients, ProgramStep(c)
  PROVE  /\ toClient'[c] \in {toClient[c], << >>}
         /\ \/ toServer'[c] = toServer[c] /\ told'[c] \subseteq told[c]
            \/ \E r \in AllRequests : /\ told'[c] = told[c] \ Undone(r)
                                      /\ toServer'[c] \in {toServer[c], <<r>>}
            \/ \E a \in Replying : /\ toClient[c] = <<a>> /\ a.ans = "ok" /\ a.req = want[c]
                                   /\ want[c].op \in Makes /\ told'[c] = told[c] \cup {want[c]}
                                   /\ toServer'[c] = toServer[c]
<1>0. MeisterTyped /\ Converses(c)
  BY DEF Relied, Conversing
<1>1. CASE UNCHANGED <<toServer, toClient, told>>
  BY <1>1
<1>2. CASE SaysHello(c)
  <2>1. told' = told /\ toClient' = toClient
    BY <1>2 DEF SaysHello, Sends
  <2>2. toServer'[c] \in {toServer[c], <<Ask("n", NoId, NoId)>>}
    <3>1. peer[c] = "open" => toServer[c] = << >>
      BY <1>0, <1>2 DEF SaysHello, Converses, Phase
    <3>2. Sends(c, Ask("n", NoId, NoId), "greeting", "refused")
      BY <1>2 DEF SaysHello
    <3>3. CASE peer[c] = "open"
      <4>1. toServer'[c] = Append(toServer[c], Ask("n", NoId, NoId))
        BY <1>0, <3>2, <3>3, SendsApart
      <4>2. QED
        BY <3>1, <3>3, <4>1, AppendsOne
    <3>4. CASE peer[c] # "open"
      BY <1>0, <3>2, <3>4, SendsApart
    <3>5. QED
      BY <3>3, <3>4
  <2>3. Undone(Ask("n", NoId, NoId)) = {}
    BY DEF Undone, Ask
  <2>4. QED
    BY <2>1, <2>2, <2>3, FreshRequest
<1>3. CASE TypesRequest(c)
  <2>1. PICK l \in Typed(c) : /\ Sends(c, l.req, "awaiting", "crashed")
                              /\ told' = [told EXCEPT ![c] = @ \ Undone(l.req)]
    BY <1>3 DEF TypesRequest
  <2>2. l.req \in AllRequests
    BY <1>0, LineTyped DEF MeisterTyped, WellTyped, NetOK
  <2>3. told'[c] = told[c] \ Undone(l.req) /\ toClient' = toClient
    BY <1>0, <2>1 DEF Sends, MeisterTyped, ProgramsOK
  <2>4. toServer'[c] \in {toServer[c], <<l.req>>}
    <3>1. peer[c] = "open" => toServer[c] = << >>
      BY <1>0, <1>3 DEF TypesRequest, Converses, Phase
    <3>2. CASE peer[c] = "open"
      <4>1. toServer'[c] = Append(toServer[c], l.req)
        BY <1>0, <2>1, <3>2, SendsApart
      <4>2. QED
        BY <3>1, <3>2, <4>1, AppendsOne
    <3>3. CASE peer[c] # "open"
      BY <1>0, <2>1, <3>3, SendsApart
    <3>4. QED
      BY <3>2, <3>3
  <2>5. QED
    BY <2>2, <2>3, <2>4
<1>4. CASE HearsHello(c)
  BY <1>0, <1>4, HearsApart DEF HearsHello, Converses, vars, net
<1>5. CASE HearsAnswer(c)
  <2>1. PICK a \in Replying : toClient[c] = <<a>> /\ Head(toClient[c]) = a
    BY <1>0, <1>5, HearsApart DEF HearsAnswer, Converses
  <2>2. a.req = want[c] /\ toClient'[c] = << >> /\ UNCHANGED vars
    BY <1>0, <1>5, <2>1, HearsApart DEF HearsAnswer, Converses, Phase
  <2>3. told'[c] = IF a.ans = "ok" /\ want[c].op \in Makes THEN told[c] \cup {want[c]} ELSE told[c]
    BY <1>0, <1>5, <2>1 DEF HearsAnswer, MeisterTyped, ProgramsOK, Makes
  <2>4. QED
    BY <2>1, <2>2, <2>3 DEF vars, net
<1>6. CASE HangsUp(c)
  BY <1>0, <1>6 DEF HangsUp, program, MeisterTyped, ProgramsOK
<1>7. QED
  BY <1>1, <1>2, <1>3, <1>4, <1>5, <1>6 DEF ProgramStep, Listens, Dials, Connects, HearsNoHello,
     HearsNothing, TripsOver, InputEnds, Interrupted, vars, net

LEMMA ProgramRelied ==
  ASSUME Relied, NEW c \in Clients, Sole(c), ProgramStep(c)
  PROVE  Reliable(c)'
<1>1. Reliable(c) /\ Converses(c) /\ UNCHANGED <<main, memory, disk, req, ans>>
  BY ProgramLeaves DEF Relied, Conversing
<1>2. at'[c] = at[c] \/ (at[c] = "none" /\ at'[c] = "queued")
  BY ProgramPlaces DEF Relied, Conversing, Threads
<1>3. Undisturbed(c)'
  BY <1>1, <1>2 DEF Reliable, Undisturbed, main, disk, Storing
<1>4. Honest(c)'
  BY <1>1, <1>2, ToldChanges, AppendsOne DEF Reliable, Honest, memory, Storing
<1>5. Withdrawn(c)' /\ Held(c)'
  <2>1. \A r : Undone(r)' = Undone(r)
    BY DEF Undone
  <2>2. at'[c] \in Handling => at[c] \in Handling /\ req'[c] = req[c]
    BY <1>1, <1>2 DEF Handling
  <2>3. \A r, s : <<r>> = <<s>> => r = s
    OBVIOUS
  <2>4. CASE toServer'[c] = toServer[c] /\ told'[c] \subseteq told[c]
    BY <1>1, <2>1, <2>2, <2>4 DEF Reliable, Withdrawn, Held, memory
  <2>5. ASSUME NEW r \in AllRequests, told'[c] = told[c] \ Undone(r), toServer'[c] \in {toServer[c], <<r>>}
        PROVE  Withdrawn(c)' /\ Held(c)'
    <3>1. Held(c)'
      BY <1>1, <2>5 DEF Reliable, Held, memory
    <3>2. at'[c] \in Handling => told'[c] \cap Undone(req'[c]) = {}
      BY <1>1, <2>2, <2>5 DEF Reliable, Withdrawn
    <3>3. ASSUME NEW s \in AllRequests, toServer'[c] = <<s>> PROVE told'[c] \cap Undone(s) = {}
      <4>1. CASE toServer'[c] = toServer[c]
        BY <1>1, <2>5, <3>3, <4>1 DEF Reliable, Withdrawn
      <4>2. CASE toServer'[c] = <<r>>
        BY <2>3, <2>5, <3>3, <4>2
      <4>3. QED
        BY <2>5, <4>1, <4>2
    <3>4. QED
      BY <2>1, <3>1, <3>2, <3>3 DEF Withdrawn
  <2>6. ASSUME NEW a \in Replying, toClient[c] = <<a>>, a.ans = "ok", a.req = want[c],
               want[c].op \in Makes, told'[c] = told[c] \cup {want[c]}, toServer'[c] = toServer[c]
        PROVE  Withdrawn(c)' /\ Held(c)'
    <3>1. Made(want[c], book, contests)
      BY <1>1, <2>6 DEF Reliable, Honest
    <3>2. at[c] \notin Handling /\ toServer[c] = << >>
      BY <1>1, <2>6, AppendsOne DEF Converses, Token
    <3>3. Withdrawn(c)'
      BY <2>2, <2>6, <3>2, AppendsOne DEF Withdrawn
    <3>4. Held(c)'
      BY <1>1, <2>6, <3>1 DEF Reliable, Held, memory
    <3>5. QED
      BY <3>3, <3>4
  <2>7. QED
    BY <2>4, <2>5, <2>6, ToldChanges
<1>6. QED
  BY <1>3, <1>4, <1>5 DEF Reliable

LEMMA SoleSettled ==
  ASSUME Relied, NEW c \in Clients, Sole(c), at[c] \notin Storing
  PROVE  qfile = book /\ Plain(cfile) = Plain(contests)
<1>1. \A b \in Banks : Unsaved(b) = {}
  BY SoleThread DEF Relied, Unsaved, ClientPlaces, Storing, Walking
<1>2. \A b \in Banks : Settled(b)
  BY <1>1 DEF Settled, Relied, Reliable, Undisturbed
<1>3. QED
  BY <1>2 DEF Relied, Through, OnDisk, Banks

LEMMA RestartsRelied ==
  ASSUME Relied, NEW c \in Clients, Sole(c), Restarts, UNCHANGED <<peer, toClient, program>>
  PROVE  Reliable(c)'
<1>1. Reliable(c) /\ process # "up" /\ at[c] \notin Storing
  BY DEF Relied, Reliable, Undisturbed, Restarts
<1>2. \A b \in Banks : ~torn[b]
  BY <1>1 DEF Reliable, Undisturbed
<1>3. CASE process' = "unusable"
  <2>1. UNCHANGED <<reqkill, lsock, book, contests, torn, overlapped, at, req, ans, toServer, toClient, told>>
    BY <1>3 DEF Restarts, memory, asking, program
  <2>2. QED
    BY <1>1, <2>1 DEF Reliable, Undisturbed, Honest, Withdrawn, Held, Handling, Storing, Walking, Undone
<1>4. CASE process' # "unusable"
  <2>1. /\ process' = "up" /\ reqkill' = FALSE /\ lsock' = "listening" /\ at' = Fresh.at
        /\ toServer' = Fresh.toServer /\ book' = qfile /\ contests' = Worn(cfile)
        /\ overlapped' = [b \in Banks |-> FALSE] /\ UNCHANGED <<torn, toClient, told>>
    BY <1>2, <1>4 DEF Restarts, program
  <2>2. at'[c] = "none" /\ toServer'[c] = << >>
    BY <2>1, FreshTyped DEF Fresh
  <2>3. \A r : r.op \in Makes /\ Made(r, book, contests) => Made(r, book', contests')
    <3>1. restarts \in Nat /\ contests \in ContestsTo(restarts) /\ cfile \in ContestsTo(restarts)
      BY BoundsAreNaturals DEF Relied, Conversing, MeisterTyped, WellTyped, BanksOK
    <3>2. Plain(contests') = Plain(cfile) /\ contests' \in ContestsTo(restarts + 1) /\ restarts + 1 \in Nat
      BY <2>1, <3>1, WornIsPlain, WornTyped
    <3>3. book' = book /\ Plain(contests) = Plain(contests')
      BY <1>1, <2>1, <3>2, SoleSettled
    <3>4. QED
      BY <3>1, <3>2, <3>3, MadePlain
  <2>4. Undisturbed(c)'
    BY <1>2, <2>1 DEF Undisturbed
  <2>5. Honest(c)'
    BY <1>1, <2>1, <2>2, <2>3 DEF Reliable, Honest, Storing
  <2>6. Withdrawn(c)'
    BY <2>2, AppendsOne DEF Withdrawn, Handling
  <2>7. Held(c)'
    <3>1. \A r \in told[c] : r.op \in Makes
      BY DEF Relied, Conversing, MeisterTyped, ProgramsOK, Makes
    <3>2. QED
      BY <1>1, <2>1, <2>3, <3>1 DEF Reliable, Held
  <2>8. QED
    BY <2>4, <2>5, <2>6, <2>7 DEF Reliable
<1>5. QED
  BY <1>3, <1>4

\* A program that was started is never again one that was not.
LEMMA ProgramStarted ==
  ASSUME Relied, NEW d \in Clients, ProgramStep(d)
  PROVE  client'[d] # "start"
<1>0. MeisterTyped /\ Token(d)
  BY DEF Relied, Conversing, Converses
<1>1. CASE SaysHello(d) \/ TypesRequest(d)
  BY <1>0, <1>1, SendsApart DEF SaysHello, TypesRequest
<1>2. CASE HangsUp(d)
  BY <1>2 DEF HangsUp, program, Ended
<1>3. CASE ~SaysHello(d) /\ ~TypesRequest(d) /\ ~HangsUp(d)
  <2>1. PICK place \in ClientStates \ {"start"} : Moves(d, place)
    BY <1>3 DEF ProgramStep, Listens, Dials, HearsHello, HearsNoHello, HearsAnswer, HearsNothing,
       TripsOver, InputEnds, Interrupted, ClientStates
  <2>2. QED
    BY <1>0, <2>1, MovesApart
<1>4. QED
  BY <1>1, <1>2, <1>3

LEMMA SoleBefore ==
  ASSUME Relied, [MeisterNext]_meisterVars, NEW c \in Clients, Sole(c)'
  PROVE  Sole(c) /\ \A d \in Clients : ProgramStep(d) => d = c
<1>1. ASSUME NEW d \in Clients, ProgramStep(d) PROVE Sole(c) /\ d = c
  <2>1. d = c
    BY <1>1, ProgramStarted DEF Sole
  <2>2. \A e \in Clients \ {d} : client'[e] = client[e]
    BY <1>1, ProgramsApart DEF Apart, Relied, Conversing, Converses
  <2>3. QED
    BY <2>1, <2>2 DEF Sole
<1>2. CASE client' = client
  BY <1>1, <1>2 DEF Sole
<1>3. QED
  BY <1>1, <1>2, MeisterSteps DEF meisterVars, Serving, program

LEMMA ReliedStep == Relied /\ [MeisterNext]_meisterVars => Relied'
<1> SUFFICES ASSUME Relied, [MeisterNext]_meisterVars PROVE Relied'
  OBVIOUS
<1>1. Conversing'
  BY ConversingStep DEF Relied
<1>2. Through'
  <2>1. CASE [Next]_vars
    BY <2>1, ThroughStep DEF Relied, Conversing, MeisterTyped
  <2>2. CASE \E c \in Clients : ProgramStep(c)
    BY <2>2, ProgramThrough DEF Relied
  <2>3. QED
    BY <2>1, <2>2, MeisterSteps, ServingNext DEF Next, meisterVars
<1>3. ASSUME NEW c \in Clients, Sole(c)' PROVE Reliable(c)'
  <2>1. Sole(c) /\ \A d \in Clients : ProgramStep(d) => d = c
    BY <1>3, SoleBefore
  <2>2. CASE UNCHANGED meisterVars
    BY <2>1, <2>2 DEF meisterVars, vars, main, memory, disk, asking, net, program, Relied, Reliable,
       Undisturbed, Honest, Withdrawn, Held, Undone
  <2>3. QED
    BY <2>1, <2>2, MeisterSteps, ServingRelied, ProgramRelied, RestartsRelied
<1>4. QED
  BY <1>1, <1>2, <1>3 DEF Relied

LEMMA InitRelied == MeisterInit => Relied
<1> SUFFICES ASSUME MeisterInit PROVE Relied
  OBVIOUS
<1>1. Conversing /\ Through
  BY InitConversing, InitThrough DEF MeisterInit
<1>2. ASSUME NEW c \in Clients PROVE Reliable(c)
  <2>1. /\ at[c] = "none" /\ toServer[c] = << >> /\ toClient[c] = << >> /\ told[c] = {}
        /\ process = "up" /\ reqkill = FALSE /\ lsock = "listening"
        /\ \A b \in Banks : ~torn[b] /\ ~overlapped[b]
    BY FreshTyped DEF MeisterInit, Init, Fresh
  <2>2. QED
    BY <2>1, AppendsOne DEF Reliable, Undisturbed, Honest, Withdrawn, Held, Handling, Storing
<1>3. QED
  BY <1>1, <1>2 DEF Relied

\* What the only user so far was told is made, is made: in memory while the server is
\* up, and in the files while nothing is being saved, through kills, aborts and
\* restarts, and wherever the program was interrupted (src/README.md:466;
\* ContestServer.cpp:136-137, 150-151, 206-210, 234-237, 305-342).
THEOREM WhatIsToldIsMade == MeisterSpec => []ToldIsMade
<1>1. Relied => ToldIsMade
  <2> SUFFICES ASSUME Relied, NEW c \in Clients, Sole(c), NEW r \in told[c]
               PROVE  /\ process = "up" => Made(r, book, contests)
                      /\ (\A b \in Banks : Settled(b)) => Made(r, qfile, cfile)
    BY DEF ToldIsMade, Sole
  <2>1. Made(r, book, contests) /\ r.op \in Makes
    BY DEF Relied, Reliable, Held, Conversing, MeisterTyped, ProgramsOK, Makes
  <2>2. ASSUME \A b \in Banks : Settled(b) PROVE Made(r, qfile, cfile)
    <3>1. qfile = book /\ Plain(cfile) = Plain(contests)
      BY <2>2 DEF Relied, Through, OnDisk, Banks
    <3>2. restarts \in Nat /\ contests \in ContestsTo(restarts) /\ cfile \in ContestsTo(restarts)
      BY BoundsAreNaturals DEF Relied, Conversing, MeisterTyped, WellTyped, BanksOK
    <3>3. QED
      BY <2>1, <3>1, <3>2, MadePlain
  <2>3. QED
    BY <2>1, <2>2
<1>2. QED
  BY <1>1, InitRelied, ReliedStep, PTL DEF MeisterSpec
=============================================================================
