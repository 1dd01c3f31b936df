------------------------ MODULE ContestServerProofs ------------------------
(* Theorems about ContestServer, for every number of clients, sessions,    *)
(* questions, contests, requests and restarts, and for every mishap.       *)
EXTENDS ContestServer, FiniteSetTheorems, SequenceTheorems, TLAPS

\* Contests whose titles gained k lines at most.
ContestTo(k) ==
  [qs : UNION { [Q -> 0..k] : Q \in SUBSET QIds }, run : BOOLEAN, stats : SUBSET QIds]
ContestsTo(k) == UNION { [C -> ContestTo(k)] : C \in SUBSET CIds }
TextTo(k) == [book : SUBSET QIds, contests : ContestsTo(k), here : QIds \cup CIds \cup {NoId}]

ClientPlaces == {"none", "queued", "greeting", "welcoming", "reading", "deciding", "changing",
                 "opening", "copying", "tallying", "flushing", "answering", "spinning", "gone"}
SessionPlaces == {"free", "running", "flagging", "recording", "opening", "copying", "tallying",
                  "flushing"}

MainOK ==
  /\ process \in {"up", "exited", "aborted", "crashed", "unusable"}
  /\ reqkill \in BOOLEAN /\ lsock \in {"listening", "shutdown"} /\ restarts \in 0..MaxRestarts

\* A title gains one line a start: no contest in memory, on disk or on its way
\* there has more than there were restarts.
BanksOK ==
  /\ book \in SUBSET QIds /\ contests \in ContestsTo(restarts)
  /\ qfile \in SUBSET QIds /\ cfile \in ContestsTo(restarts)
  /\ torn \in [Banks -> BOOLEAN] /\ overlapped \in [Banks -> BOOLEAN]
  /\ buf \in [Threads -> TextTo(restarts)]

PlacesOK ==
  /\ at \in [Threads -> ClientPlaces \cup SessionPlaces]
  /\ \A c \in Clients : at[c] \in ClientPlaces
  /\ \A s \in Sessions : at[s] \in SessionPlaces

AskingOK == req \in [Clients -> AllRequests] /\ ans \in [Clients -> {"ok", "error", "blank"}]
PlayingOK == playing \in [Sessions -> [c : CIds \cup {NoId}, on : SUBSET QIds]]
NetOK ==
  /\ link \in [Clients -> LinkStates] /\ toServer \in [Clients -> Seq(AllRequests)]
  /\ asked \in [Clients -> 0..MaxRequests]

\* Only a request that names what it changes gets to change it.
Known ==
  \A c \in Clients : at[c] = "changing" =>
    /\ req[c].op \in {"p", "d", "s", "a"}
    /\ req[c].op \in {"p", "d", "a"} => req[c].q \in QIds
    /\ req[c].op = "s" => req[c].c \in CIds

WellTyped == MainOK /\ BanksOK /\ PlacesOK /\ AskingOK /\ PlayingOK /\ NetOK /\ Known

-----------------------------------------------------------------------------
(* Lemmas about contests. *)

LEMMA ContestsToElements ==
  ASSUME NEW k \in Nat, NEW cs
  PROVE  cs \in ContestsTo(k) <=>
           /\ DOMAIN cs \subseteq CIds /\ cs = [i \in DOMAIN cs |-> cs[i]]
           /\ \A i \in DOMAIN cs : cs[i] \in ContestTo(k)
<1>1. ASSUME cs \in ContestsTo(k)
      PROVE  /\ DOMAIN cs \subseteq CIds /\ cs = [i \in DOMAIN cs |-> cs[i]]
             /\ \A i \in DOMAIN cs : cs[i] \in ContestTo(k)
  <2>1. PICK C \in SUBSET CIds : cs \in [C -> ContestTo(k)]
    BY <1>1 DEF ContestsTo
  <2>2. QED
    BY <2>1
<1>2. ASSUME DOMAIN cs \subseteq CIds, cs = [i \in DOMAIN cs |-> cs[i]],
             \A i \in DOMAIN cs : cs[i] \in ContestTo(k)
      PROVE  cs \in ContestsTo(k)
  <2>1. cs \in [DOMAIN cs -> ContestTo(k)]
    BY <1>2
  <2>2. QED
    BY <1>2, <2>1 DEF ContestsTo
<1>3. QED
  BY <1>1, <1>2

LEMMA ContestToElements ==
  ASSUME NEW k \in Nat, NEW v \in ContestTo(k)
  PROVE  /\ v = [qs |-> v.qs, run |-> v.run, stats |-> v.stats]
         /\ DOMAIN v.qs \subseteq QIds /\ v.qs \in [DOMAIN v.qs -> 0..k]
         /\ v.run \in BOOLEAN /\ v.stats \subseteq QIds
<1>1. PICK Q \in SUBSET QIds : v.qs \in [Q -> 0..k]
  BY DEF ContestTo
<1>2. QED
  BY <1>1 DEF ContestTo

LEMMA ContestToRecord ==
  ASSUME NEW k \in Nat, NEW Q \in SUBSET QIds, NEW qs \in [Q -> 0..k], NEW run \in BOOLEAN,
         NEW stats \in SUBSET QIds
  PROVE  [qs |-> qs, run |-> run, stats |-> stats] \in ContestTo(k)
BY DEF ContestTo

\* What setRun, setStats and a load that meets the end of the file do to one
\* contest of many.
LEMMA ContestChanged ==
  ASSUME NEW k \in Nat, NEW cs \in ContestsTo(k), NEW id, NEW S \in SUBSET QIds
  PROVE  [cs EXCEPT ![id].run = TRUE] \in ContestsTo(k)
         /\ [cs EXCEPT ![id].stats = S] \in ContestsTo(k)
<1>1. /\ DOMAIN cs \subseteq CIds /\ cs = [i \in DOMAIN cs |-> cs[i]]
      /\ \A i \in DOMAIN cs : cs[i] \in ContestTo(k)
  BY ContestsToElements
<1>2. ASSUME NEW v \in ContestTo(k)
      PROVE  [v EXCEPT !.run = TRUE] \in ContestTo(k) /\ [v EXCEPT !.stats = S] \in ContestTo(k)
  BY DEF ContestTo
<1>3. [cs EXCEPT ![id].run = TRUE] \in ContestsTo(k)
  <2> DEFINE ds == [cs EXCEPT ![id].run = TRUE]
  <2>1. ds = [i \in DOMAIN cs |-> IF i = id THEN [cs[i] EXCEPT !.run = TRUE] ELSE cs[i]]
    BY <1>1
  <2>2. \A i \in DOMAIN ds : ds[i] \in ContestTo(k)
    BY <1>1, <1>2, <2>1
  <2>3. DOMAIN ds = DOMAIN cs /\ ds = [i \in DOMAIN ds |-> ds[i]]
    BY <2>1
  <2>4. QED
    BY <1>1, <2>2, <2>3, ContestsToElements
<1>4. [cs EXCEPT ![id].stats = S] \in ContestsTo(k)
  <2> DEFINE ds == [cs EXCEPT ![id].stats = S]
  <2>1. ds = [i \in DOMAIN cs |-> IF i = id THEN [cs[i] EXCEPT !.stats = S] ELSE cs[i]]
    BY <1>1
  <2>2. \A i \in DOMAIN ds : ds[i] \in ContestTo(k)
    BY <1>1, <1>2, <2>1
  <2>3. DOMAIN ds = DOMAIN cs /\ ds = [i \in DOMAIN ds |-> ds[i]]
    BY <2>1
  <2>4. QED
    BY <1>1, <2>2, <2>3, ContestsToElements
<1>5. QED
  BY <1>3, <1>4

\* One more contest, a new one, and a new question in one.
LEMMA ContestPut ==
  ASSUME NEW k \in Nat, NEW cs \in ContestsTo(k), NEW id \in CIds, NEW v \in ContestTo(k)
  PROVE  With(cs, id, v) \in ContestsTo(k)
<1>1. /\ DOMAIN cs \subseteq CIds /\ \A i \in DOMAIN cs : cs[i] \in ContestTo(k)
  BY ContestsToElements
<1>2. With(cs, id, v) \in [DOMAIN cs \cup {id} -> ContestTo(k)]
  BY <1>1 DEF With
<1>3. QED
  BY <1>1, <1>2 DEF ContestsTo

LEMMA ContestAdded ==
  ASSUME NEW k \in Nat, NEW cs \in ContestsTo(k), NEW id \in CIds
  PROVE  With(cs, id, NewContest) \in ContestsTo(k)
<1>1. NewContest \in ContestTo(k)
  <2>1. << >> \in [{} -> 0..k] /\ {} \in SUBSET QIds
    OBVIOUS
  <2>2. QED
    BY <2>1, ContestToRecord DEF NewContest
<1>2. QED
  BY <1>1, ContestPut

LEMMA QuestionAdded ==
  ASSUME NEW k \in Nat, NEW cs \in ContestsTo(k), NEW id, NEW q \in QIds
  PROVE  [cs EXCEPT ![id].qs = With(cs[id].qs, q, 0)] \in ContestsTo(k)
<1> DEFINE ds == [cs EXCEPT ![id].qs = With(cs[id].qs, q, 0)]
<1>1. /\ DOMAIN cs \subseteq CIds /\ cs = [i \in DOMAIN cs |-> cs[i]]
      /\ \A i \in DOMAIN cs : cs[i] \in ContestTo(k)
  BY ContestsToElements
<1>2. ASSUME id \in DOMAIN cs
      PROVE  [cs[id] EXCEPT !.qs = With(cs[id].qs, q, 0)] \in ContestTo(k)
  <2>1. PICK v \in ContestTo(k) : v = cs[id]
    BY <1>1, <1>2
  <2>2. With(v.qs, q, 0) \in [DOMAIN v.qs \cup {q} -> 0..k] /\ DOMAIN v.qs \cup {q} \subseteq QIds
    BY ContestToElements DEF With
  <2>3. QED
    BY <2>1, <2>2, ContestToElements, ContestToRecord
<1>3. ds = [i \in DOMAIN cs |-> IF i = id THEN [cs[id] EXCEPT !.qs = With(cs[id].qs, q, 0)] ELSE cs[i]]
  BY <1>1
<1>4. \A i \in DOMAIN ds : ds[i] \in ContestTo(k)
  BY <1>1, <1>2, <1>3
<1>5. DOMAIN ds = DOMAIN cs /\ ds = [i \in DOMAIN ds |-> ds[i]]
  BY <1>3
<1>6. QED
  BY <1>1, <1>4, <1>5, ContestsToElements

\* A start adds one line to every title.
LEMMA WornTyped ==
  ASSUME NEW k \in Nat, NEW cs \in ContestsTo(k)
  PROVE  Worn(cs) \in ContestsTo(k + 1)
<1>1. /\ DOMAIN cs \subseteq CIds /\ \A i \in DOMAIN cs : cs[i] \in ContestTo(k)
  BY ContestsToElements
<1>2. ASSUME NEW v \in ContestTo(k)
      PROVE  [v EXCEPT !.qs = [q \in DOMAIN v.qs |-> v.qs[q] + 1]] \in ContestTo(k + 1)
  <2>1. [q \in DOMAIN v.qs |-> v.qs[q] + 1] \in [DOMAIN v.qs -> 0..(k + 1)]
    BY ContestToElements
  <2>2. QED
    BY <2>1, ContestToElements, ContestToRecord
<1>3. Worn(cs) \in [DOMAIN cs -> ContestTo(k + 1)]
  BY <1>1, <1>2 DEF Worn
<1>4. QED
  BY <1>1, <1>3 DEF ContestsTo

LEMMA ContestsToGrows ==
  ASSUME NEW k \in Nat, NEW l \in Nat, k <= l, NEW cs \in ContestsTo(k)
  PROVE  cs \in ContestsTo(l)
<1>1. /\ DOMAIN cs \subseteq CIds /\ cs = [i \in DOMAIN cs |-> cs[i]]
      /\ \A i \in DOMAIN cs : cs[i] \in ContestTo(k)
  BY ContestsToElements
<1>2. ASSUME NEW v \in ContestTo(k) PROVE v \in ContestTo(l)
  <2>1. v.qs \in [DOMAIN v.qs -> 0..l]
    BY ContestToElements
  <2>2. QED
    BY <2>1, ContestToElements, ContestToRecord
<1>3. QED
  BY <1>1, <1>2, ContestsToElements

LEMMA NoTextTyped ==
  ASSUME NEW k \in Nat
  PROVE  NoText \in TextTo(k) /\ << >> \in ContestsTo(k)
<1>1. << >> \in ContestsTo(k)
  <2>1. << >> \in [{} -> ContestTo(k)] /\ {} \in SUBSET CIds
    OBVIOUS
  <2>2. QED
    BY <2>1 DEF ContestsTo
<1>2. QED
  BY <1>1 DEF NoText, TextTo

LEMMA TextParts ==
  ASSUME BanksOK, NEW t \in Threads
  PROVE  /\ buf[t] \in TextTo(restarts) /\ buf[t].book \subseteq QIds
         /\ buf[t].contests \in ContestsTo(restarts) /\ buf[t].here \in QIds \cup CIds \cup {NoId}
BY DEF BanksOK, TextTo

\* Lines of contests there are make no contest with more lines in a title.
LEMMA BlendsTyped ==
  ASSUME NEW k \in Nat, NEW vs \in SUBSET ContestTo(k), NEW v \in Blends(vs)
  PROVE  v \in ContestTo(k)
<1>1. /\ v \in ContestValues
      /\ \A q \in DOMAIN v.qs : \E u \in vs : q \in DOMAIN u.qs /\ v.qs[q] = u.qs[q]
  BY DEF Blends
<1>2. PICK Q \in SUBSET QIds : v.qs \in [Q -> 0..MaxRestarts]
  BY <1>1 DEF ContestValues
<1>3. \A q \in Q : v.qs[q] \in 0..k
  BY <1>1, <1>2, ContestToElements
<1>4. v.qs \in [Q -> 0..k]
  BY <1>2, <1>3
<1>5. v = [qs |-> v.qs, run |-> v.run, stats |-> v.stats] /\ v.run \in BOOLEAN /\ v.stats \in SUBSET QIds
  BY <1>1 DEF ContestValues
<1>6. QED
  BY <1>4, <1>5, ContestToRecord

\* What a start may find of a save: contests, with no more lines than were saved.
LEMMA CReadsTyped ==
  ASSUME BanksOK, restarts \in Nat, NEW t \in Threads
  PROVE  CReads(t) \subseteq ContestsTo(restarts)
<1> DEFINE k == restarts
           cs == buf[t].contests
           vs == Values(cs) \cup Values(cfile)
<1>1. cs \in ContestsTo(k) /\ cfile \in ContestsTo(k)
  BY TextParts DEF BanksOK
<1>2. Whole(cs) \subseteq ContestsTo(k)
  <2>1. [cs EXCEPT ![LastId(cs)].stats = {}] \in ContestsTo(k)
    BY <1>1, ContestChanged
  <2>2. QED
    BY <1>1, <2>1, NoTextTyped DEF Whole
<1>3. Mixes(cs, cfile) \subseteq ContestsTo(k)
  <2>1. /\ DOMAIN cs \subseteq CIds /\ \A i \in DOMAIN cs : cs[i] \in ContestTo(k)
        /\ DOMAIN cfile \subseteq CIds /\ \A i \in DOMAIN cfile : cfile[i] \in ContestTo(k)
    BY <1>1, ContestsToElements
  <2>2. vs \in SUBSET ContestTo(k)
    BY <2>1 DEF Values
  <2>3. Blends(vs) \subseteq ContestTo(k)
    BY <2>2, BlendsTyped
  <2>4. ASSUME NEW x \in Mixes(cs, cfile) PROVE x \in ContestsTo(k)
    <3>1. PICK D \in SUBSET (DOMAIN cs \cup DOMAIN cfile) : x \in [D -> Blends(vs)]
      BY <2>4 DEF Mixes
    <3>2. x \in [D -> ContestTo(k)] /\ D \in SUBSET CIds
      BY <2>1, <2>3, <3>1
    <3>3. QED
      BY <3>2 DEF ContestsTo
  <2>5. QED
    BY <2>4
<1>4. QED
  BY <1>2, <1>3, NoTextTyped DEF CReads

LEMMA QReadsTyped ==
  ASSUME BanksOK, NEW t \in Threads
  PROVE  QReads(t) \subseteq SUBSET QIds
BY TextParts DEF BanksOK, QReads, Heads
-----------------------------------------------------------------------------
(* Every action keeps the types. *)

LEMMA BoundsAreNaturals ==
  ASSUME MainOK
  PROVE  restarts \in Nat /\ MaxRestarts \in Nat /\ restarts <= MaxRestarts
BY BoundsAssumption DEF MainOK

LEMMA RequestsTyped ==
  Hellos \subseteq AllRequests /\ Requests \subseteq AllRequests
  /\ \A c \in Clients : Fresh.req[c] \in AllRequests /\ Fresh.ans[c] \in {"ok", "error", "blank"}
BY RequestsAssumption DEF Hellos, Ask, AllRequests, Ops, Fresh

LEMMA FreshTyped ==
  ASSUME NEW k \in Nat
  PROVE  /\ Fresh.at \in [Threads -> ClientPlaces \cup SessionPlaces]
         /\ \A c \in Clients : Fresh.at[c] = "none"
         /\ \A s \in Sessions : Fresh.at[s] = "free"
         /\ Fresh.buf \in [Threads -> TextTo(k)]
         /\ Fresh.req \in [Clients -> AllRequests]
         /\ Fresh.ans \in [Clients -> {"ok", "error", "blank"}]
         /\ Fresh.link \in [Clients -> LinkStates]
         /\ Fresh.toServer \in [Clients -> Seq(AllRequests)]
         /\ Fresh.playing \in [Sessions -> [c : CIds \cup {NoId}, on : SUBSET QIds]]
<1>1. NoText \in TextTo(k)
  BY NoTextTyped
<1>2. QED
  BY <1>1, ThreadsAssumption DEF Fresh, Threads, Ask, AllRequests, Ops, ClientPlaces, SessionPlaces,
     LinkStates

LEMMA InitTyped == Init => WellTyped
<1> SUFFICES ASSUME Init PROVE WellTyped
  OBVIOUS
<1>1. restarts = 0 /\ restarts \in 0..MaxRestarts
  BY BoundsAssumption DEF Init
<1>2. BanksOK
  BY <1>1, BookAssumption, NoTextTyped, FreshTyped DEF Init, BanksOK, Banks
<1>3. AskingOK /\ PlayingOK /\ NetOK
  BY <1>1, FreshTyped, BoundsAssumption DEF Init, AskingOK, PlayingOK, NetOK
<1>4. PlacesOK /\ Known
  BY <1>1, FreshTyped DEF Init, PlacesOK, Known, ClientPlaces, SessionPlaces
<1>5. QED
  BY <1>1, <1>2, <1>3, <1>4 DEF Init, MainOK, WellTyped

\* The end of the process, whatever ends it.
LEMMA DiesTyped ==
  ASSUME WellTyped, NEW how \in {"exited", "aborted", "crashed"}, Dies(how)
  PROVE  WellTyped'
<1>1. torn' \in [Banks -> BOOLEAN]
  BY DEF Dies, WellTyped, BanksOK
<1>2. qfile' \in SUBSET QIds
  BY QReadsTyped DEF Dies, Saving, WellTyped, BanksOK
<1>3. cfile' \in ContestsTo(restarts)
  BY CReadsTyped, BoundsAreNaturals DEF Dies, Saving, WellTyped, BanksOK
<1>4. QED
  BY <1>1, <1>2, <1>3 DEF Dies, WellTyped, MainOK, BanksOK, PlacesOK, AskingOK, PlayingOK, NetOK, Known,
     memory, asking, net

\* A thread goes somewhere else.
LEMMA GoesTyped ==
  ASSUME PlacesOK, NEW t \in Threads, NEW place, Goes(t, place),
         t \in Clients => place \in ClientPlaces, t \in Sessions => place \in SessionPlaces
  PROVE  PlacesOK' /\ at'[t] = place /\ \A u \in Threads \ {t} : at'[u] = at[u]
BY DEF PlacesOK, Goes, Threads

LEMMA GoesOnTyped ==
  ASSUME WellTyped, NEW t \in Threads, NEW text \in TextTo(restarts), NEW ids \in SUBSET (QIds \cup CIds),
         GoesOn(t, text, ids)
  PROVE  /\ PlacesOK' /\ at'[t] \in Walking \cup {"flushing"} /\ \A u \in Threads \ {t} : at'[u] = at[u]
         /\ buf' \in [Threads -> TextTo(restarts)]
<1>1. PICK place \in {"copying", "flushing"}, i \in ids \cup {NoId} :
        Goes(t, place) /\ buf' = [buf EXCEPT ![t] = [text EXCEPT !.here = i]]
  BY DEF GoesOn
<1>2. PlacesOK' /\ at'[t] = place /\ \A u \in Threads \ {t} : at'[u] = at[u]
  BY <1>1, GoesTyped DEF WellTyped, ClientPlaces, SessionPlaces
<1>3. [text EXCEPT !.here = i] \in TextTo(restarts)
  BY DEF TextTo
<1>4. QED
  BY <1>1, <1>2, <1>3 DEF WellTyped, BanksOK, Walking

\* A save takes one step further.
LEMMA SaveTyped ==
  ASSUME WellTyped, NEW t \in Threads, buf' \in [Threads -> TextTo(restarts)],
         PlacesOK', at'[t] # "changing", \A u \in Threads \ {t} : at'[u] = at[u],
         qfile' \in SUBSET QIds, cfile' \in ContestsTo(restarts),
         torn' \in [Banks -> BOOLEAN], overlapped' \in [Banks -> BOOLEAN],
         UNCHANGED <<main, memory, asking, playing, net>>
  PROVE  WellTyped'
<1>1. restarts' = restarts
  BY DEF main
<1>2. BanksOK'
  BY <1>1 DEF WellTyped, BanksOK, memory
<1>3. QED
  BY <1>2 DEF WellTyped, MainOK, AskingOK, PlayingOK, NetOK, Known, main, asking, net, Threads

LEMMA OpensTyped ==
  ASSUME WellTyped, NEW t \in Threads, Opens(t)
  PROVE  WellTyped'
<1>1. NoText \in TextTo(restarts) /\ << >> \in ContestsTo(restarts)
  BY NoTextTyped, BoundsAreNaturals DEF WellTyped
<1>2. book \subseteq QIds /\ DOMAIN contests \subseteq CIds
  BY BoundsAreNaturals, ContestsToElements DEF WellTyped, BanksOK
<1>3. PICK ids \in SUBSET (QIds \cup CIds) : GoesOn(t, NoText, ids)
  BY <1>2 DEF Opens
<1>4. qfile' \in SUBSET QIds /\ cfile' \in ContestsTo(restarts)
  BY <1>1 DEF Opens, WellTyped, BanksOK
<1>5. torn' \in [Banks -> BOOLEAN] /\ overlapped' \in [Banks -> BOOLEAN]
  BY DEF Opens, WellTyped, BanksOK
<1>6. UNCHANGED <<main, memory, asking, playing, net>>
  BY DEF Opens
<1>7. QED
  BY <1>1, <1>3, <1>4, <1>5, <1>6, GoesOnTyped, SaveTyped DEF Walking

LEMMA CopiesTyped ==
  ASSUME WellTyped, NEW t \in Threads, CopiesQuestion(t) \/ CopiesContest(t) \/ CopiesStats(t)
  PROVE  WellTyped'
<1> DEFINE k    == restarts
           text == buf[t]
           i    == text.here
<1>1. k \in Nat /\ contests \in ContestsTo(k) /\ book \subseteq QIds
      /\ text \in TextTo(k) /\ text.book \subseteq QIds /\ text.contests \in ContestsTo(k)
  BY TextParts, BoundsAreNaturals DEF WellTyped, BanksOK
<1>2. DOMAIN contests \subseteq CIds /\ \A j \in DOMAIN contests : contests[j] \in ContestTo(k)
  BY <1>1, ContestsToElements
<1>3. UNCHANGED <<main, memory, disk, asking, playing, net>>
  BY DEF CopiesQuestion, CopiesContest, CopiesStats
<1>4. /\ PlacesOK' /\ at'[t] \in Walking \cup {"flushing"} /\ \A u \in Threads \ {t} : at'[u] = at[u]
      /\ buf' \in [Threads -> TextTo(k)]
  <2>1. CASE CopiesQuestion(t)
    <3>1. [text EXCEPT !.book = @ \cup {i}] \in TextTo(k)
      BY <1>1, <2>1 DEF CopiesQuestion, TextTo
    <3>2. { q \in book : q > i } \in SUBSET (QIds \cup CIds)
      BY <1>1
    <3>3. GoesOn(t, [text EXCEPT !.book = @ \cup {i}], { q \in book : q > i })
      BY <2>1 DEF CopiesQuestion
    <3>4. QED
      BY <3>1, <3>2, <3>3, GoesOnTyped
  <2>2. CASE CopiesContest(t)
    <3>1. [contests[i] EXCEPT !.stats = {}] \in ContestTo(k)
      <4>1. PICK v \in ContestTo(k) : v = contests[i]
        BY <1>2, <2>2 DEF CopiesContest
      <4>2. [v EXCEPT !.stats = {}] \in ContestTo(k)
        BY DEF ContestTo
      <4>3. QED
        BY <4>1, <4>2
    <3>2. With(text.contests, i, [contests[i] EXCEPT !.stats = {}]) \in ContestsTo(k)
      BY <1>1, <1>2, <2>2, <3>1, ContestPut DEF CopiesContest
    <3>3. buf' = [buf EXCEPT ![t].contests = With(text.contests, i, [contests[i] EXCEPT !.stats = {}])]
      BY <2>2 DEF CopiesContest, WellTyped, BanksOK
    <3>4. buf' \in [Threads -> TextTo(k)]
      BY <3>2, <3>3 DEF WellTyped, BanksOK, TextTo
    <3>5. QED
      BY <2>2, <3>4, GoesTyped DEF CopiesContest, WellTyped, ClientPlaces, SessionPlaces, Walking
  <2>3. CASE CopiesStats(t)
    <3>1. contests[i].stats \in SUBSET QIds
      BY <1>1, <1>2, <2>3, ContestToElements DEF CopiesStats
    <3>2. PICK S \in SUBSET QIds : S = contests[i].stats
      BY <3>1
    <3>3. [text.contests EXCEPT ![i].stats = S] \in ContestsTo(k)
      BY <1>1, ContestChanged
    <3>4. [text EXCEPT !.contests[i].stats = S] \in TextTo(k)
      BY <1>1, <3>3 DEF TextTo
    <3>5. { j \in DOMAIN contests : j > i } \in SUBSET (QIds \cup CIds)
      BY <1>2
    <3>6. GoesOn(t, [text EXCEPT !.contests[i].stats = S], { j \in DOMAIN contests : j > i })
      BY <2>3, <3>2 DEF CopiesStats
    <3>7. QED
      BY <3>4, <3>5, <3>6, GoesOnTyped
  <2>4. QED
    BY <2>1, <2>2, <2>3
<1>5. QED
  BY <1>3, <1>4, SaveTyped DEF disk, WellTyped, BanksOK, Walking

LEMMA FlushesTyped ==
  ASSUME WellTyped, NEW t \in Threads, Flushes(t)
  PROVE  WellTyped'
<1>1. PlacesOK' /\ at'[t] # "changing" /\ \A u \in Threads \ {t} : at'[u] = at[u]
  BY GoesTyped, ThreadsAssumption DEF Flushes, WellTyped, ClientPlaces, SessionPlaces, Threads
<1>2. buf' \in [Threads -> TextTo(restarts)]
  BY NoTextTyped, BoundsAreNaturals DEF Flushes, WellTyped, BanksOK
<1>3. buf[t].book \in SUBSET QIds /\ buf[t].contests \in ContestsTo(restarts)
  BY TextParts DEF WellTyped
<1>4. qfile' \in SUBSET QIds /\ cfile' \in ContestsTo(restarts)
  BY <1>3, QReadsTyped, CReadsTyped, BoundsAreNaturals DEF Flushes, WellTyped, BanksOK
<1>5. torn' \in [Banks -> BOOLEAN] /\ overlapped' \in [Banks -> BOOLEAN]
  BY DEF Flushes, WellTyped, BanksOK
<1>6. QED
  BY <1>1, <1>2, <1>4, <1>5, SaveTyped DEF Flushes

LEMMA SavesTyped ==
  ASSUME WellTyped, NEW t \in Threads, Saves(t)
  PROVE  WellTyped'
BY OpensTyped, CopiesTyped, FlushesTyped DEF Saves

LEMMA DisturbsTyped ==
  ASSUME BanksOK, NEW b \in Banks, NEW walkers, Disturbs(b, walkers)
  PROVE  overlapped' \in [Banks -> BOOLEAN] /\ \A d \in Banks \ {b} : overlapped'[d] = overlapped[d]
BY DEF BanksOK, Disturbs

\* The steps of a client's thread that leave the banks alone.
LEMMA DropsTyped ==
  ASSUME WellTyped, NEW c \in Clients, NEW l, Drops(c, l)
  PROVE  WellTyped'
<1>1. CASE Dies("aborted")
  BY <1>1, DiesTyped
<1>2. CASE ~Dies("aborted")
  <2>1. PlacesOK' /\ at'[c] = "gone" /\ \A u \in Threads \ {c} : at'[u] = at[u]
    BY <1>2, GoesTyped, ThreadsAssumption DEF Drops, WellTyped, ClientPlaces, Threads
  <2>2. AskingOK' /\ NetOK'
    BY <1>2, RequestsTyped DEF Drops, Forgets, WellTyped, AskingOK, NetOK, LinkStates
  <2>3. Known'
    BY <1>2, <2>1 DEF Drops, Forgets, Known, WellTyped, AskingOK, Threads
  <2>4. QED
    BY <1>2, <2>1, <2>2, <2>3 DEF Drops, WellTyped, MainOK, BanksOK, PlayingOK, main, memory, disk
<1>3. QED
  BY <1>1, <1>2

LEMMA WritesThenTyped ==
  ASSUME WellTyped, NEW c \in Clients, NEW next \in {"gone", "reading"}, NEW logs,
         WritesThen(c, next, logs)
  PROVE  WellTyped'
<1>1. CASE Dies("aborted")
  BY <1>1, DiesTyped
<1>2. CASE Drops(c, link[c])
  BY <1>2, DropsTyped
<1>3. ASSUME NEW l \in LinkAfterWrite(link[c]),
             link' = [link EXCEPT ![c] = IF next = "gone" THEN "closed" ELSE l],
             Goes(c, next), Forgets(c),
             UNCHANGED <<main, memory, disk, buf, playing, toServer, asked>>
      PROVE  WellTyped'
  <2>1. PlacesOK' /\ at'[c] = next /\ \A u \in Threads \ {c} : at'[u] = at[u]
    BY <1>3, GoesTyped, ThreadsAssumption DEF WellTyped, ClientPlaces, Threads
  <2>2. l \in LinkStates
    BY <1>3 DEF WellTyped, NetOK, LinkAfterWrite, LinkStates
  <2>3. AskingOK' /\ NetOK'
    BY <1>3, <2>2, RequestsTyped DEF Forgets, WellTyped, AskingOK, NetOK, LinkStates
  <2>4. Known'
    BY <1>3, <2>1 DEF Forgets, Known, WellTyped, AskingOK, Threads
  <2>5. QED
    BY <1>3, <2>1, <2>3, <2>4 DEF WellTyped, MainOK, BanksOK, PlayingOK, main, memory, disk
<1>4. QED
  BY <1>1, <1>2, <1>3 DEF WritesThen

LEMMA LeftAfterReadTyped ==
  ASSUME NEW M, NEW s \in Seq(M)
  PROVE  LeftAfterRead(s) \subseteq Seq(M)
<1>1. SUFFICES ASSUME NEW k \in 1..Len(s)
               PROVE  SubSeq(s, k + 1, Len(s)) \in Seq(M)
  BY DEF LeftAfterRead
<1>2. \A i \in (k + 1)..Len(s) : s[i] \in M
  OBVIOUS
<1>3. QED
  BY <1>2, SubSeqProperties

LEMMA TakesTyped ==
  ASSUME NetOK, NEW c \in Clients, HasData(toServer[c]), Takes(c), UNCHANGED <<link, asked>>
  PROVE  NetOK' /\ Head(toServer[c]) \in AllRequests
<1>1. toServer[c] \in Seq(AllRequests) /\ toServer[c] # << >>
  BY DEF NetOK, HasData
<1>2. LeftAfterRead(toServer[c]) \subseteq Seq(AllRequests)
  BY <1>1, LeftAfterReadTyped
<1>3. QED
  BY <1>1, <1>2 DEF NetOK, Takes

LEMMA ReadsTyped ==
  ASSUME WellTyped, NEW c \in Clients, ReadsHello(c) \/ ReadsRequest(c)
  PROVE  WellTyped'
<1>1. CASE Dies("aborted")
  BY <1>1, DiesTyped
<1>2. CASE ~Dies("aborted")
  <2>1. NetOK' /\ Head(toServer[c]) \in AllRequests
    BY <1>2, TakesTyped DEF ReadsHello, ReadsRequest, WellTyped
  <2>2. PlacesOK' /\ at'[c] # "changing" /\ \A u \in Threads \ {c} : at'[u] = at[u]
    BY <1>2, GoesTyped, ThreadsAssumption DEF ReadsHello, ReadsRequest, WellTyped, ClientPlaces, Threads
  <2>3. AskingOK' /\ \A d \in Clients \ {c} : req'[d] = req[d]
    BY <1>2, <2>1 DEF ReadsHello, ReadsRequest, WellTyped, AskingOK
  <2>4. QED
    BY <1>2, <2>1, <2>2, <2>3 DEF ReadsHello, ReadsRequest, WellTyped, MainOK, BanksOK, PlayingOK, Known,
       main, memory, disk, Threads
<1>3. QED
  BY <1>1, <1>2

LEMMA RepliesTyped ==
  ASSUME WellTyped, NEW c \in Clients, NEW a \in {"ok", "error"}, Replies(c, a),
         UNCHANGED <<req, net>>, MainOK', PlayingOK', BanksOK'
  PROVE  WellTyped'
<1>1. PlacesOK' /\ at'[c] = "answering" /\ \A u \in Threads \ {c} : at'[u] = at[u]
  BY GoesTyped, ThreadsAssumption DEF Replies, WellTyped, ClientPlaces, Threads
<1>2. QED
  BY <1>1 DEF Replies, WellTyped, AskingOK, NetOK, Known, net, Threads

LEMMA DecidesTyped ==
  ASSUME WellTyped, NEW c \in Clients, Decides(c)
  PROVE  WellTyped'
<1>1. MainOK' /\ PlayingOK' /\ BanksOK' /\ NetOK' /\ UNCHANGED req
  BY DEF Decides, WellTyped, MainOK, PlayingOK, BanksOK, NetOK, main, memory, disk, net
<1>2. CASE Replies(c, "ok") \/ Replies(c, "error")
  BY <1>1, <1>2, RepliesTyped DEF Decides
<1>3. CASE Goes(c, "changing") /\ UNCHANGED ans /\ Found(req[c]) /\ req[c].op \in {"p", "d", "s", "a"}
  <2>1. PlacesOK' /\ \A u \in Threads \ {c} : at'[u] = at[u]
    BY <1>3, GoesTyped, ThreadsAssumption DEF WellTyped, ClientPlaces, Threads
  <2>2. req[c] \in AllRequests /\ ~Escapes(req[c])
    BY DEF WellTyped, AskingOK, Decides
  <2>3. /\ req[c].op \in {"p", "d", "a"} => req[c].q \in QIds
        /\ req[c].op = "s" => req[c].c \in CIds
    BY <1>3, <2>2 DEF Escapes, Found, AllRequests, WellTyped, BanksOK
  <2>4. QED
    BY <1>1, <1>3, <2>1, <2>3 DEF WellTyped, AskingOK, Known, Threads
<1>4. QED
  BY <1>2, <1>3 DEF Decides

LEMMA PostsTyped ==
  ASSUME WellTyped, NEW c \in Clients, PostsQuestion(c) \/ DeletesQuestion(c)
  PROVE  WellTyped'
<1>1. /\ MainOK' /\ PlayingOK' /\ NetOK' /\ UNCHANGED req
      /\ at[c] = "changing" /\ req[c].op \in {"p", "d"}
  BY DEF PostsQuestion, DeletesQuestion, WellTyped, MainOK, PlayingOK, NetOK, main, net
<1>2. req[c].q \in QIds
  BY <1>1 DEF WellTyped, Known
<1>3. BanksOK'
  <2>1. overlapped' \in [Banks -> BOOLEAN]
    BY DisturbsTyped DEF PostsQuestion, DeletesQuestion, WellTyped, BanksOK, Banks
  <2>2. QED
    BY <1>2, <2>1 DEF PostsQuestion, DeletesQuestion, WellTyped, BanksOK, main
<1>4. CASE Replies(c, "error")
  BY <1>1, <1>3, <1>4, RepliesTyped DEF PostsQuestion, DeletesQuestion
<1>5. CASE ans' = [ans EXCEPT ![c] = "ok"] /\ Goes(c, "opening")
  <2>1. PlacesOK' /\ at'[c] = "opening" /\ \A u \in Threads \ {c} : at'[u] = at[u]
    BY <1>5, GoesTyped, ThreadsAssumption DEF WellTyped, ClientPlaces, Threads
  <2>2. QED
    BY <1>1, <1>3, <1>5, <2>1 DEF WellTyped, AskingOK, Known, Threads
<1>6. QED
  BY <1>4, <1>5 DEF PostsQuestion, DeletesQuestion

LEMMA SetsContestTyped ==
  ASSUME WellTyped, NEW c \in Clients, SetsContest(c) \/ AddsQuestion(c)
  PROVE  WellTyped'
<1>1. /\ MainOK' /\ PlayingOK' /\ NetOK' /\ UNCHANGED <<req, main, qfile, cfile, torn, buf, book>>
      /\ at[c] = "changing" /\ ans' = [ans EXCEPT ![c] = "ok"] /\ Goes(c, "opening")
  BY DEF SetsContest, AddsQuestion, WellTyped, MainOK, PlayingOK, NetOK, main, net
<1>2. contests \in ContestsTo(restarts) /\ restarts \in Nat
  BY BoundsAreNaturals DEF WellTyped, BanksOK
<1>3. contests' \in ContestsTo(restarts)
  <2>1. CASE UNCHANGED contests
    BY <1>2, <2>1
  <2>2. CASE SetsContest(c) /\ contests' = With(contests, req[c].c, NewContest)
    BY <1>1, <1>2, <2>2, ContestAdded DEF SetsContest, WellTyped, Known
  <2>3. CASE AddsQuestion(c) /\ contests' = [contests EXCEPT ![req[c].c].qs =
                                               With(contests[req[c].c].qs, req[c].q, 0)]
    <3>1. req[c].q \in QIds
      BY <1>1, <2>3 DEF AddsQuestion, WellTyped, Known
    <3>2. QED
      BY <1>2, <2>3, <3>1, QuestionAdded
  <2>4. CASE AddsQuestion(c) /\ contests' = [contests EXCEPT ![req[c].c].qs = contests[req[c].c].qs]
    <3>1. contests = [i \in DOMAIN contests |-> contests[i]]
          /\ \A i \in DOMAIN contests : contests[i] \in ContestTo(restarts)
      BY <1>2, ContestsToElements
    <3>2. ASSUME NEW v \in ContestTo(restarts) PROVE [v EXCEPT !.qs = v.qs] = v
      BY DEF ContestTo
    <3>3. contests' = [i \in DOMAIN contests |->
                         IF i = req[c].c THEN [contests[i] EXCEPT !.qs = contests[i].qs]
                                         ELSE contests[i]]
      BY <2>4, <3>1
    <3>4. \A i \in DOMAIN contests : contests'[i] = contests[i]
      BY <3>1, <3>2, <3>3
    <3>5. contests' = contests
      BY <3>1, <3>3, <3>4
    <3>6. QED
      BY <1>2, <3>5
  <2>5. QED
    BY <2>1, <2>2, <2>3, <2>4 DEF SetsContest, AddsQuestion
<1>4. BanksOK'
  <2>1. overlapped' \in [Banks -> BOOLEAN]
    BY DisturbsTyped DEF SetsContest, AddsQuestion, WellTyped, Banks
  <2>2. QED
    BY <1>1, <1>3, <2>1 DEF WellTyped, BanksOK, main
<1>5. PlacesOK' /\ at'[c] = "opening" /\ \A u \in Threads \ {c} : at'[u] = at[u]
  BY <1>1, GoesTyped, ThreadsAssumption DEF WellTyped, ClientPlaces, Threads
<1>6. QED
  BY <1>1, <1>4, <1>5 DEF WellTyped, AskingOK, Known, Threads

LEMMA BeginsContestTyped ==
  ASSUME WellTyped, NEW c \in Clients, BeginsContest(c)
  PROVE  WellTyped'
<1>1. MainOK' /\ BanksOK' /\ NetOK' /\ UNCHANGED req
  BY DEF BeginsContest, WellTyped, MainOK, BanksOK, NetOK, main, memory, disk, net
<1>2. CASE Replies(c, "error") /\ UNCHANGED playing
  BY <1>1, <1>2, RepliesTyped DEF BeginsContest, WellTyped, PlayingOK
<1>3. ASSUME req[c].c \in DOMAIN contests, NEW s \in Sessions,
             playing' = [playing EXCEPT ![s] = [c |-> req[c].c, on |-> DOMAIN contests[req[c].c].qs]],
             at' = [at EXCEPT ![s] = "running", ![c] = "answering"],
             ans' = [ans EXCEPT ![c] = "ok"]
      PROVE  WellTyped'
  <2>1. req[c].c \in CIds /\ DOMAIN contests[req[c].c].qs \subseteq QIds
    BY <1>3, BoundsAreNaturals, ContestsToElements, ContestToElements DEF WellTyped, BanksOK
  <2>2. PlayingOK'
    BY <1>3, <2>1 DEF WellTyped, PlayingOK
  <2>3. PlacesOK' /\ at'[c] = "answering" /\ \A d \in Clients \ {c} : at'[d] = at[d]
    BY <1>3, ThreadsAssumption DEF WellTyped, PlacesOK, ClientPlaces, SessionPlaces, Threads
  <2>4. QED
    BY <1>1, <1>3, <2>2, <2>3 DEF WellTyped, AskingOK, Known
<1>4. QED
  BY <1>2, <1>3 DEF BeginsContest

LEMMA KillsServerTyped ==
  ASSUME WellTyped, NEW c \in Clients, KillsServer(c)
  PROVE  WellTyped'
<1>1. MainOK' /\ BanksOK' /\ PlayingOK'
  BY DEF KillsServer, WellTyped, MainOK, BanksOK, PlayingOK, memory, disk
<1>2. QED
  BY <1>1, RepliesTyped DEF KillsServer

\* A step of a thread that touches nothing but where it is.
LEMMA MovesTyped ==
  ASSUME WellTyped, NEW t \in Threads, NEW place, place # "changing", Goes(t, place),
         t \in Clients => place \in ClientPlaces, t \in Sessions => place \in SessionPlaces,
         UNCHANGED <<asking, playing>>, MainOK', BanksOK', NetOK'
  PROVE  WellTyped'
<1>1. PlacesOK' /\ at'[t] = place /\ \A u \in Threads \ {t} : at'[u] = at[u]
  BY GoesTyped DEF WellTyped
<1>2. QED
  BY <1>1 DEF WellTyped, AskingOK, PlayingOK, Known, asking, Threads

LEMMA ClientThreadTyped ==
  ASSUME WellTyped, NEW c \in Clients, ClientThread(c)
  PROVE  WellTyped'
<1>1. c \in Threads /\ c \notin Sessions
  BY ThreadsAssumption DEF Threads
<1>2. CASE ReadsHello(c) \/ ReadsRequest(c)
  BY <1>2, ReadsTyped
<1>3. CASE HelloMissing(c)
  BY <1>3, DiesTyped DEF HelloMissing
<1>4. CASE AnswersHello(c) \/ Answers(c)
  BY <1>4, WritesThenTyped DEF AnswersHello, Answers
<1>5. CASE ClientDropped(c) \/ HandlerFails(c)
  BY <1>5, DropsTyped DEF ClientDropped, HandlerFails
<1>6. CASE RunsOutOfMemory(c)
  BY <1>6, DropsTyped, DiesTyped DEF RunsOutOfMemory
<1>7. CASE LooksForEver(c)
  <2>1. MainOK' /\ BanksOK' /\ NetOK' /\ Goes(c, "spinning") /\ UNCHANGED <<asking, playing>>
    BY <1>7 DEF LooksForEver, WellTyped, MainOK, BanksOK, NetOK, main, memory, disk, net
  <2>2. QED
    BY <1>1, <2>1, MovesTyped DEF ClientPlaces
<1>8. CASE Saves(c)
  BY <1>1, <1>8, SavesTyped
<1>9. QED
  BY <1>2, <1>3, <1>4, <1>5, <1>6, <1>7, <1>8, DecidesTyped, PostsTyped, SetsContestTyped,
     BeginsContestTyped, KillsServerTyped DEF ClientThread

LEMMA SessionThreadTyped ==
  ASSUME WellTyped, NEW s \in Sessions, SessionThread(s)
  PROVE  WellTyped'
<1>1. s \in Threads /\ s \notin Clients
  BY ThreadsAssumption DEF Threads
<1>2. CASE SessionEnds(s) \/ SetsRun(s) \/ SetsStats(s)
  <2>1. PICK place \in {"flagging", "recording", "opening"} : Goes(s, place)
    BY <1>2 DEF SessionEnds, SetsRun, SetsStats
  <2>2. MainOK' /\ NetOK' /\ UNCHANGED <<asking, playing, restarts>>
    BY <1>2 DEF SessionEnds, SetsRun, SetsStats, WellTyped, MainOK, NetOK, main, net
  <2>3. contests' \in ContestsTo(restarts)
    <3>1. playing[s].on \in SUBSET QIds /\ contests \in ContestsTo(restarts)
      BY DEF WellTyped, PlayingOK, BanksOK
    <3>2. restarts \in Nat
      BY BoundsAreNaturals DEF WellTyped
    <3>3. CASE SessionEnds(s)
      BY <3>1, <3>3 DEF SessionEnds, memory
    <3>4. CASE SetsRun(s)
      BY <3>1, <3>2, <3>4, ContestChanged DEF SetsRun
    <3>5. CASE SetsStats(s)
      BY <3>1, <3>2, <3>5, ContestChanged DEF SetsStats
    <3>6. QED
      BY <1>2, <3>3, <3>4, <3>5
  <2>4. BanksOK'
    <3>1. overlapped' \in [Banks -> BOOLEAN]
      BY <1>2, DisturbsTyped DEF SessionEnds, SetsRun, SetsStats, WellTyped, BanksOK, Banks, disk
    <3>2. UNCHANGED <<book, qfile, cfile, torn, buf>>
      BY <1>2 DEF SessionEnds, SetsRun, SetsStats, memory, disk
    <3>3. QED
      BY <2>2, <2>3, <3>1, <3>2 DEF WellTyped, BanksOK
  <2>5. QED
    BY <1>1, <2>1, <2>2, <2>4, MovesTyped DEF SessionPlaces
<1>3. CASE SessionTakesAllDown(s)
  BY <1>3, DiesTyped DEF SessionTakesAllDown
<1>4. CASE Saves(s)
  BY <1>1, <1>4, SavesTyped
<1>5. QED
  BY <1>2, <1>3, <1>4 DEF SessionThread

LEMMA ClientTyped ==
  ASSUME WellTyped, NEW c \in Clients, Connects(c) \/ Greets(c) \/ AsksFor(c) \/ ClientLeaves(c)
  PROVE  WellTyped'
<1>1. CASE Connects(c)
  <2>1. MainOK' /\ BanksOK' /\ NetOK' /\ Goes(c, "queued") /\ UNCHANGED <<asking, playing>>
    BY <1>1 DEF Connects, WellTyped, MainOK, BanksOK, NetOK, main, memory, disk, LinkStates
  <2>2. QED
    BY <2>1, MovesTyped, ThreadsAssumption DEF ClientPlaces, Threads
<1>2. CASE Greets(c) \/ AsksFor(c) \/ ClientLeaves(c)
  <2>1. NetOK'
    <3>1. CASE Greets(c)
      BY <3>1, RequestsTyped DEF Greets, WellTyped, NetOK
    <3>2. CASE AsksFor(c)
      BY <3>2, RequestsTyped, BoundsAssumption DEF AsksFor, WellTyped, NetOK
    <3>3. CASE ClientLeaves(c)
      BY <3>3 DEF ClientLeaves, WellTyped, NetOK, LinkStates
    <3>4. QED
      BY <1>2, <3>1, <3>2, <3>3
  <2>2. UNCHANGED <<main, memory, disk, at, buf, asking, playing>>
    BY <1>2 DEF Greets, AsksFor, ClientLeaves
  <2>3. QED
    BY <2>1, <2>2 DEF WellTyped, MainOK, BanksOK, PlacesOK, AskingOK, PlayingOK, Known, main, memory,
       disk, asking
<1>3. QED
  BY <1>1, <1>2

LEMMA RestartsTyped == WellTyped /\ Restarts => WellTyped'
<1> SUFFICES ASSUME WellTyped, Restarts PROVE WellTyped'
  OBVIOUS
<1>0. restarts' = restarts + 1 /\ restarts \in Nat /\ restarts' \in 0..MaxRestarts
  BY BoundsAreNaturals DEF Restarts, WellTyped
<1>1. CASE process' = "unusable"
  <2>1. contests \in ContestsTo(restarts') /\ cfile \in ContestsTo(restarts')
        /\ \A t \in Threads : buf[t] \in TextTo(restarts')
    BY <1>0, ContestsToGrows DEF WellTyped, BanksOK, TextTo
  <2>2. UNCHANGED <<reqkill, lsock, memory, disk, at, buf, asking, playing, net>>
    BY <1>1 DEF Restarts, disk, net
  <2>3. BanksOK'
    BY <2>1, <2>2 DEF WellTyped, BanksOK, memory, disk
  <2>4. QED
    BY <1>0, <1>1, <2>2, <2>3 DEF WellTyped, MainOK, PlacesOK, AskingOK, PlayingOK, NetOK, Known, asking,
       net
<1>2. CASE process' # "unusable"
  <2>1. Worn(cfile) \in ContestsTo(restarts') /\ cfile \in ContestsTo(restarts')
    BY <1>0, WornTyped, ContestsToGrows DEF WellTyped, BanksOK
  <2>2. /\ process' = "up" /\ reqkill' = FALSE /\ lsock' = "listening"
        /\ at' = Fresh.at /\ buf' = Fresh.buf /\ req' = Fresh.req /\ ans' = Fresh.ans
        /\ link' = Fresh.link /\ toServer' = Fresh.toServer /\ playing' = Fresh.playing
        /\ book' = qfile /\ contests' = Worn(cfile)
        /\ overlapped' = [b \in Banks |-> FALSE] /\ UNCHANGED <<qfile, cfile, torn, asked>>
    BY <1>2 DEF Restarts
  <2>3. BanksOK'
    BY <1>0, <2>1, <2>2, FreshTyped DEF WellTyped, BanksOK
  <2>4. PlacesOK' /\ Known'
    BY <1>0, <2>2, FreshTyped DEF PlacesOK, Known, ClientPlaces, SessionPlaces
  <2>5. AskingOK' /\ PlayingOK' /\ NetOK'
    BY <1>0, <2>2, FreshTyped DEF WellTyped, AskingOK, PlayingOK, NetOK
  <2>6. QED
    BY <1>0, <2>2, <2>3, <2>4, <2>5 DEF WellTyped, MainOK
<1>3. QED
  BY <1>1, <1>2

LEMMA NextTyped == WellTyped /\ [Next]_vars => WellTyped'
<1> SUFFICES ASSUME WellTyped, [Next]_vars PROVE WellTyped'
  OBVIOUS
<1>1. ASSUME NEW c \in Clients, Accepts(c) PROVE WellTyped'
  <2>1. PICK place \in {"gone", "greeting"} : Goes(c, place)
    BY <1>1 DEF Accepts
  <2>2. MainOK' /\ BanksOK' /\ NetOK' /\ UNCHANGED <<asking, playing>>
    BY <1>1 DEF Accepts, WellTyped, MainOK, BanksOK, NetOK, main, memory, disk, net
  <2>3. QED
    BY <2>1, <2>2, MovesTyped, ThreadsAssumption DEF ClientPlaces, Threads
<1>2. CASE Stops \/ Collide \/ Crashes
  BY <1>2, DiesTyped DEF Stops, Collide, Crashes
<1>3. CASE UNCHANGED vars
  BY <1>3 DEF vars, main, memory, disk, asking, net, WellTyped, MainOK, BanksOK, PlacesOK, AskingOK,
     PlayingOK, NetOK, Known
<1>4. QED
  BY <1>1, <1>2, <1>3, ClientThreadTyped, SessionThreadTyped, ClientTyped, RestartsTyped
  DEF Next, ServerStep, MainThread

LEMMA TypesAreRight == WellTyped => TypeOK
<1> SUFFICES ASSUME WellTyped PROVE TypeOK
  OBVIOUS
<1>1. ContestValues = ContestTo(MaxRestarts) /\ ContestSets = ContestsTo(MaxRestarts)
  BY DEF ContestValues, ContestSets, ContestTo, ContestsTo
<1>2. contests \in ContestSets /\ cfile \in ContestSets
      /\ \A t \in Threads : buf[t].contests \in ContestSets
  BY <1>1, BoundsAreNaturals, ContestsToGrows DEF WellTyped, BanksOK, TextTo
<1>3. buf \in [Threads -> [book : SUBSET QIds, contests : ContestSets,
                          here : QIds \cup CIds \cup {NoId}]]
  BY <1>2 DEF WellTyped, BanksOK, TextTo
<1>4. QED
  BY <1>2, <1>3 DEF WellTyped, TypeOK, MainOK, BanksOK, PlacesOK, AskingOK, PlayingOK, NetOK,
     ClientPlaces, SessionPlaces

\* The server keeps its types, whatever its clients ask for and wherever it stops:
\* no contest, question or port that does not exist, and one more line in a title
\* for each start at most (ContestServer.h:39-49, Contest.cpp:61-91).
THEOREM TypeCorrect == Spec => []TypeOK
BY TypesAreRight, InitTyped, NextTyped, PTL DEF Spec
-----------------------------------------------------------------------------
(* Steps that leave the banks alone. *)

Busy == {"recording", "opening", "flushing"} \cup Walking
InPlay == {"running", "flagging", "recording"}

\* Memory, files and whoever is about to save stay as they are; a session that
\* begins plays the questions of a contest there is.
Quiet ==
  /\ UNCHANGED <<memory, disk, buf, restarts>>
  /\ \A t \in Threads : at[t] \in Busy \/ at'[t] \in Busy =>
       at'[t] = at[t] /\ BankOf(t)' = BankOf(t)
  /\ \A s \in Sessions : at'[s] \in InPlay =>
       \/ at[s] \in InPlay /\ playing'[s] = playing[s]
       \/ /\ at'[s] = "running" /\ playing'[s].c \in DOMAIN contests
          /\ playing'[s].on = DOMAIN contests[playing'[s].c].qs

\* A client's thread goes from one place where it saves nothing to another.
LEMMA ClientMoves ==
  ASSUME WellTyped, NEW c \in Clients, NEW place, Goes(c, place), place \notin Busy, at[c] \notin Busy,
         \A d \in Clients \ {c} : req'[d] = req[d], UNCHANGED <<memory, disk, buf, restarts, playing>>
  PROVE  Quiet
<1>1. at'[c] = place /\ \A u \in Threads \ {c} : at'[u] = at[u]
  BY DEF Goes, WellTyped, PlacesOK, Threads
<1>2. c \notin Sessions
  BY ThreadsAssumption
<1>3. \A t \in Threads \ {c} : BankOf(t)' = BankOf(t)
  BY DEF BankOf
<1>4. QED
  BY <1>1, <1>2, <1>3 DEF Quiet, Threads

LEMMA DropsQuiet ==
  ASSUME WellTyped, NEW c \in Clients, NEW l, Drops(c, l), at[c] \notin Busy
  PROVE  Quiet \/ Dies("aborted")
<1>1. CASE ~Dies("aborted")
  <2>1. Goes(c, "gone") /\ UNCHANGED <<memory, disk, buf, restarts, playing>>
        /\ \A d \in Clients \ {c} : req'[d] = req[d]
    BY <1>1 DEF Drops, Forgets, main, WellTyped, AskingOK
  <2>2. QED
    BY <2>1, ClientMoves DEF Busy, Walking
<1>2. QED
  BY <1>1

LEMMA WritesThenQuiet ==
  ASSUME WellTyped, NEW c \in Clients, NEW next, NEW logs, WritesThen(c, next, logs), at[c] \notin Busy,
         next \notin Busy
  PROVE  Quiet \/ Dies("aborted")
<1>1. CASE Dies("aborted")
  BY <1>1
<1>2. CASE Drops(c, link[c])
  BY <1>2, DropsQuiet
<1>3. CASE Goes(c, next) /\ Forgets(c) /\ UNCHANGED <<main, memory, disk, buf, playing>>
  <2>1. UNCHANGED <<memory, disk, buf, restarts, playing>> /\ \A d \in Clients \ {c} : req'[d] = req[d]
    BY <1>3 DEF Forgets, main, WellTyped, AskingOK
  <2>2. QED
    BY <1>3, <2>1, ClientMoves
<1>4. QED
  BY <1>1, <1>2, <1>3 DEF WritesThen

LEMMA BeginsContestQuiet ==
  ASSUME WellTyped, NEW c \in Clients, BeginsContest(c)
  PROVE  Quiet
<1>1. UNCHANGED <<memory, disk, buf, restarts, req>> /\ at[c] = "deciding"
  BY DEF BeginsContest, main
<1>2. CASE Replies(c, "error") /\ UNCHANGED playing
  BY <1>1, <1>2, ClientMoves DEF Replies, Busy, Walking
<1>3. ASSUME req[c].c \in DOMAIN contests, NEW s \in Sessions, at[s] = "free",
             playing' = [playing EXCEPT ![s] = [c |-> req[c].c, on |-> DOMAIN contests[req[c].c].qs]],
             at' = [at EXCEPT ![s] = "running", ![c] = "answering"]
      PROVE  Quiet
  <2>1. s # c /\ c \notin Sessions /\ at'[s] = "running" /\ at'[c] = "answering"
        /\ \A t \in Threads \ {s, c} : at'[t] = at[t]
    BY <1>3, ThreadsAssumption DEF WellTyped, PlacesOK, Threads
  <2>2. playing'[s] = [c |-> req[c].c, on |-> DOMAIN contests[req[c].c].qs]
        /\ \A r \in Sessions \ {s} : playing'[r] = playing[r]
    BY <1>3 DEF WellTyped, PlayingOK
  <2>3. \A t \in Threads : BankOf(t)' = BankOf(t)
    BY <1>1 DEF BankOf
  <2>4. ASSUME NEW t \in Threads, at[t] \in Busy \/ at'[t] \in Busy PROVE at'[t] = at[t]
    BY <1>1, <1>3, <2>1, <2>4 DEF Busy, Walking
  <2>5. ASSUME NEW r \in Sessions, at'[r] \in InPlay
        PROVE  \/ at[r] \in InPlay /\ playing'[r] = playing[r]
               \/ /\ at'[r] = "running" /\ playing'[r].c \in DOMAIN contests
                  /\ playing'[r].on = DOMAIN contests[playing'[r].c].qs
    <3>1. CASE r = s
      BY <1>3, <2>1, <2>2, <3>1
    <3>2. CASE r # s
      BY <2>1, <2>2, <2>5, <3>2 DEF Threads
    <3>3. QED
      BY <3>1, <3>2
  <2>6. QED
    BY <1>1, <2>3, <2>4, <2>5 DEF Quiet
<1>4. QED
  BY <1>2, <1>3 DEF BeginsContest

LEMMA ClientThreadSteps ==
  ASSUME WellTyped, NEW c \in Clients, ClientThread(c)
  PROVE  \/ Quiet \/ Dies("aborted") \/ Dies("crashed") \/ Saves(c)
         \/ PostsQuestion(c) \/ DeletesQuestion(c) \/ SetsContest(c) \/ AddsQuestion(c)
<1>1. CASE ReadsHello(c) \/ ReadsRequest(c)
  <2>1. CASE ~Dies("aborted")
    <3>1. PICK place \in {"welcoming", "answering", "deciding"} : Goes(c, place)
      BY <1>1, <2>1 DEF ReadsHello, ReadsRequest
    <3>2. UNCHANGED <<memory, disk, buf, restarts, playing>> /\ at[c] \in {"greeting", "reading"}
          /\ \A d \in Clients \ {c} : req'[d] = req[d]
      BY <1>1, <2>1 DEF ReadsHello, ReadsRequest, main, WellTyped, AskingOK
    <3>3. QED
      BY <3>1, <3>2, ClientMoves DEF Busy, Walking
  <2>2. QED
    BY <2>1
<1>2. CASE HelloMissing(c)
  BY <1>2 DEF HelloMissing
<1>3. CASE AnswersHello(c) \/ Answers(c)
  <2>1. PICK next \in {"gone", "reading"}, logs \in BOOLEAN : WritesThen(c, next, logs)
    <3>1. CASE AnswersHello(c)
      BY <3>1 DEF AnswersHello
    <3>2. CASE Answers(c)
      <4>1. WritesThen(c, IF req[c].op \in {"q", "k"} \/ reqkill THEN "gone" ELSE "reading",
                       req[c].op \in {"q", "k"} \/ reqkill)
        BY <3>2 DEF Answers
      <4>2. (req[c].op \in {"q", "k"} \/ reqkill) \in BOOLEAN
        BY DEF WellTyped, MainOK
      <4>3. QED
        BY <4>1, <4>2
    <3>3. QED
      BY <1>3, <3>1, <3>2
  <2>2. at[c] \in {"welcoming", "answering"}
    BY <1>3 DEF AnswersHello, Answers
  <2>3. QED
    BY <2>1, <2>2, WritesThenQuiet DEF Busy, Walking
<1>4. CASE ClientDropped(c) \/ HandlerFails(c) \/ RunsOutOfMemory(c)
  BY <1>4, DropsQuiet DEF ClientDropped, HandlerFails, RunsOutOfMemory, Busy, Walking
<1>5. CASE LooksForEver(c) \/ Decides(c) \/ KillsServer(c)
  <2>1. PICK place \in {"spinning", "answering", "changing"} : Goes(c, place)
    BY <1>5 DEF LooksForEver, Decides, KillsServer, Replies
  <2>2. UNCHANGED <<memory, disk, buf, restarts, playing, req>> /\ at[c] = "deciding"
    BY <1>5 DEF LooksForEver, Decides, KillsServer, main, asking
  <2>3. QED
    BY <2>1, <2>2, ClientMoves DEF Busy, Walking
<1>6. QED
  BY <1>1, <1>2, <1>3, <1>4, <1>5, BeginsContestQuiet DEF ClientThread

\* Every step is quiet, the end of the process, or one of those that save or
\* change a bank.
LEMMA Steps ==
  ASSUME WellTyped, [Next]_vars
  PROVE  \/ Quiet \/ Restarts
         \/ \E how \in {"exited", "aborted", "crashed"} : Dies(how)
         \/ \E t \in Threads : Saves(t)
         \/ \E c \in Clients : PostsQuestion(c) \/ DeletesQuestion(c) \/ SetsContest(c) \/ AddsQuestion(c)
         \/ \E s \in Sessions : SetsRun(s) \/ SetsStats(s)
<1>1. ASSUME NEW c \in Clients, Accepts(c) \/ Connects(c) PROVE Quiet
  <2>1. PICK place \in {"gone", "greeting", "queued"} : Goes(c, place)
    BY <1>1 DEF Accepts, Connects
  <2>2. UNCHANGED <<memory, disk, buf, restarts, playing, req>> /\ at[c] \in {"queued", "none"}
    BY <1>1 DEF Accepts, Connects, main, asking
  <2>3. QED
    BY <2>1, <2>2, ClientMoves DEF Busy, Walking
<1>2. ASSUME NEW c \in Clients, Greets(c) \/ AsksFor(c) \/ ClientLeaves(c) PROVE Quiet
  BY <1>2 DEF Greets, AsksFor, ClientLeaves, main, asking, Quiet, BankOf
<1>3. ASSUME NEW s \in Sessions, SessionEnds(s) PROVE Quiet
  <2>1. at[s] = "running" /\ at'[s] = "flagging" /\ \A u \in Threads \ {s} : at'[u] = at[u]
    BY <1>3 DEF SessionEnds, Goes, WellTyped, PlacesOK, Threads
  <2>2. UNCHANGED <<memory, disk, buf, restarts, playing, req>>
    BY <1>3 DEF SessionEnds, main, asking
  <2>3. QED
    BY <2>1, <2>2 DEF Quiet, BankOf, Busy, Walking, InPlay, Threads
<1>4. CASE Stops \/ Collide \/ Crashes
  BY <1>4 DEF Stops, Collide, Crashes
<1>5. CASE UNCHANGED vars
  BY <1>5 DEF vars, main, asking, Quiet, BankOf
<1>6. ASSUME NEW s \in Sessions, SessionThread(s), ~SessionEnds(s)
      PROVE  Dies("aborted") \/ SetsRun(s) \/ SetsStats(s) \/ Saves(s)
  BY <1>6 DEF SessionThread, SessionTakesAllDown
<1>7. QED
  BY <1>1, <1>2, <1>3, <1>4, <1>5, <1>6, ClientThreadSteps
  DEF Next, ServerStep, MainThread, Threads
-----------------------------------------------------------------------------
(* The banks are written through. *)

\* Changes to bank b that no save has picked up yet.
Opening(b) == Unsaved(b) \ Saving(b)

\* Where t stands in its walk over the bank, what it has copied is what is there.
UpToDate(t) ==
  LET text == buf[t] IN
  IF BankOf(t) = "questions"
    THEN /\ at[t] \in {"copying", "flushing"}
         /\ at[t] = "flushing" => text.book = book
         /\ at[t] = "copying"  => text.here \in book /\ text.book = { q \in book : q < text.here }
    ELSE /\ at[t] = "flushing" => text.contests = contests
         /\ at[t] \in Walking  => text.here \in DOMAIN contests
         /\ at[t] = "copying"  =>
              text.contests = [i \in { j \in DOMAIN contests : j < text.here } |-> contests[i]]
         /\ at[t] = "tallying" =>
              text.contests = [i \in { j \in DOMAIN contests : j <= text.here } |->
                 IF i = text.here THEN [contests[i] EXCEPT !.stats = {}] ELSE contests[i]]

\* Saves of one bank that nothing disturbed follow one another, and the last one
\* writes what the memory holds, unless another is about to begin.
Latest(b) ==
  ~overlapped[b] =>
    /\ \A t, u \in Saving(b) : t = u
    /\ Opening(b) = {} => \A t \in Saving(b) : UpToDate(t)

OnDisk(b) ==
  /\ ~torn[b]
  /\ IF b = "questions" THEN qfile = book
     ELSE Plain(cfile) = Plain(contests) /\ (Unreadable(cfile) <=> Unreadable(contests))

Through == \A b \in Banks : Latest(b) /\ (Settled(b) => OnDisk(b))

LEMMA BanksAreTwo == Banks = {"questions", "contests"} /\ \A t : BankOf(t) \in Banks
BY DEF Banks, BankOf

\* What a bank's files owe depends on its own threads and contents only.
LEMMA OtherBank ==
  ASSUME Through, NEW b \in Banks, Saving(b)' = Saving(b), Unsaved(b)' = Unsaved(b),
         overlapped'[b] = overlapped[b], torn'[b] = torn[b],
         \A t \in Saving(b) : BankOf(t)' = BankOf(t) /\ at'[t] = at[t] /\ buf'[t] = buf[t],
         b = "questions" => UNCHANGED <<book, qfile>>,
         b = "contests" => UNCHANGED <<contests, cfile>>
  PROVE  Latest(b)' /\ (Settled(b) => OnDisk(b))'
<1>1. ASSUME NEW t \in Saving(b) PROVE UpToDate(t)' <=> UpToDate(t)
  <2>1. BankOf(t) = b /\ BankOf(t)' = b /\ at'[t] = at[t] /\ buf'[t] = buf[t]
    BY DEF Saving
  <2>2. CASE b = "questions"
    BY <2>1, <2>2 DEF UpToDate
  <2>3. CASE b = "contests"
    BY <2>1, <2>3 DEF UpToDate
  <2>4. QED
    BY <2>2, <2>3, BanksAreTwo
<1>2. Latest(b)'
  BY <1>1 DEF Through, Latest, Opening
<1>3. OnDisk(b)' <=> OnDisk(b)
  BY BanksAreTwo DEF OnDisk
<1>4. QED
  BY <1>2, <1>3 DEF Through, Settled

LEMMA QuietThrough ==
  ASSUME WellTyped, Through, Quiet
  PROVE  Through'
<1>1. \A t \in Threads : (at[t] \in Busy <=> at'[t] \in Busy)
                       /\ (at[t] \in Busy => at'[t] = at[t] /\ BankOf(t)' = BankOf(t))
  BY DEF Quiet
<1>2. ASSUME NEW b \in Banks
      PROVE  Saving(b)' = Saving(b) /\ Unsaved(b)' = Unsaved(b)
  BY <1>1 DEF Saving, Unsaved, Busy, Walking
<1>3. ASSUME NEW b \in Banks, NEW t \in Saving(b)
      PROVE  BankOf(t)' = BankOf(t) /\ at'[t] = at[t] /\ buf'[t] = buf[t]
  BY <1>1 DEF Quiet, Saving, Busy, Walking
<1>4. QED
  BY <1>2, <1>3, OtherBank DEF Quiet, memory, disk, Through

\* Where the process ends a file is damaged only by a save that was under way.
LEMMA DiesThrough ==
  ASSUME WellTyped, Through, NEW how, Dies(how)
  PROVE  Through'
<1>1. UNCHANGED <<memory, overlapped, at, buf, req>>
  BY DEF Dies, asking
<1>2. ASSUME NEW b \in Banks
      PROVE  /\ Saving(b)' = Saving(b) /\ Opening(b)' = Opening(b) /\ Unsaved(b)' = Unsaved(b)
             /\ \A t \in Threads : UpToDate(t)' <=> UpToDate(t)
  BY <1>1 DEF Saving, Opening, Unsaved, UpToDate, BankOf, memory
<1>3. ASSUME NEW b \in Banks, Settled(b)' PROVE OnDisk(b)'
  <2>1. Saving(b) = {} /\ Settled(b)
    BY <1>1, <1>2, <1>3 DEF Settled, Saving, Unsaved
  <2>2. OnDisk(b)
    BY <2>1 DEF Through
  <2>3. torn'[b] = torn[b]
    <3>1. PICK cut \in SUBSET { d \in Banks : Saving(d) # {} } :
            torn' = [d \in Banks |-> torn[d] \/ d \in cut]
      BY DEF Dies
    <3>2. b \notin cut /\ torn[b] \in BOOLEAN
      BY <2>1 DEF WellTyped, BanksOK
    <3>3. torn'[b] = (torn[b] \/ b \in cut)
      BY <3>1
    <3>4. QED
      BY <3>2, <3>3
  <2>4. b = "questions" => qfile' = qfile
    BY <2>1 DEF Dies
  <2>5. b = "contests" => cfile' = cfile
    BY <2>1 DEF Dies
  <2>6. QED
    BY <1>1, <2>2, <2>3, <2>4, <2>5, BanksAreTwo DEF OnDisk, memory
<1>4. ASSUME NEW b \in Banks PROVE Latest(b)'
  BY <1>1, <1>2 DEF Through, Latest, Saving
<1>5. QED
  BY <1>3, <1>4 DEF Through

\* A thread that changed a bank is about to save it, whomever it disturbed.
LEMMA ChangeThrough ==
  ASSUME WellTyped, Through, NEW t \in Threads, at[t] \notin {"opening", "flushing"} \cup Walking,
         NEW place \in {"recording", "opening"}, Goes(t, place),
         UNCHANGED <<qfile, cfile, torn, buf, req>>, NEW b \in Banks, b = BankOf(t),
         overlapped[b] => overlapped'[b], \A d \in Banks \ {b} : overlapped'[d] = overlapped[d],
         b = "questions" => UNCHANGED contests, b = "contests" => UNCHANGED book
  PROVE  Through'
<1>1. at'[t] = place /\ \A u \in Threads \ {t} : at'[u] = at[u]
  BY DEF Goes, WellTyped, PlacesOK
<1>2. \A u : BankOf(u)' = BankOf(u)
  BY DEF BankOf
<1>3. t \in Opening(b)' /\ Saving(b)' = Saving(b)
  BY <1>1, <1>2 DEF Opening, Unsaved, Saving, Walking
<1>4. Latest(b)' /\ ~Settled(b)'
  BY <1>3 DEF Latest, Settled, Opening, Through
<1>5. ASSUME NEW d \in Banks \ {b} PROVE Latest(d)' /\ (Settled(d) => OnDisk(d))'
  <2>1. Saving(d)' = Saving(d) /\ Unsaved(d)' = Unsaved(d)
    BY <1>1, <1>2, <1>5 DEF Saving, Unsaved
  <2>2. \A u \in Saving(d) : BankOf(u)' = BankOf(u) /\ at'[u] = at[u] /\ buf'[u] = buf[u]
    BY <1>1, <1>2, <1>5 DEF Saving
  <2>3. QED
    BY <2>1, <2>2, <1>5, OtherBank, BanksAreTwo
<1>6. QED
  BY <1>4, <1>5 DEF Through

LEMMA DisturbsThrough ==
  ASSUME WellTyped, NEW b \in Banks, NEW walkers, Disturbs(b, walkers)
  PROVE  /\ overlapped[b] => overlapped'[b]
         /\ \A d \in Banks \ {b} : overlapped'[d] = overlapped[d]
BY DEF WellTyped, BanksOK, Disturbs

\* The iterator goes on from nowhere, or from i, and stands at the next there is.
LEMMA NextOfAll ==
  ASSUME NEW t, NEW text, NEW D \in SUBSET Nat, GoesOn(t, text, D)
  PROVE  \/ Goes(t, "flushing") /\ D = {} /\ buf' = [buf EXCEPT ![t] = [text EXCEPT !.here = NoId]]
         \/ \E n \in D : /\ Goes(t, "copying") /\ buf' = [buf EXCEPT ![t] = [text EXCEPT !.here = n]]
                         /\ { j \in D : j < n } = {}
BY DEF GoesOn

LEMMA NextAfter ==
  ASSUME NEW D \in SUBSET Nat, NEW i \in D, NEW ids, \A j : j \in ids <=> j \in D /\ j > i
  PROVE  /\ ids = {} => \A j \in D : j <= i
         /\ \A n \in ids : (\A j \in ids : n <= j) => n \in D /\ \A j \in D : j < n <=> j <= i
<1>1. D \subseteq Nat
  OBVIOUS
<1>2. ids = {} => \A j \in D : j <= i
  BY <1>1
<1>3. ASSUME NEW n \in ids, \A j \in ids : n <= j
      PROVE  n \in D /\ \A j \in D : j < n <=> j <= i
  <2>1. n \in D /\ n \in Nat /\ i \in Nat /\ n > i
    BY <1>1
  <2>2. ASSUME NEW j \in D PROVE j < n <=> j <= i
    <3>1. j \in Nat /\ (j > i => n <= j)
      BY <1>1, <1>3
    <3>2. QED
      BY <2>1, <3>1
  <2>3. QED
    BY <2>1, <2>2
<1>4. QED
  BY <1>2, <1>3

\* One step of t's save: t stays in it, and the other bank is left alone.
LEMMA SaveThrough ==
  ASSUME WellTyped, Through, NEW t \in Threads, NEW b \in Banks, b = BankOf(t),
         at[t] \in {"opening"} \cup Walking, at'[t] \in Walking \cup {"flushing"},
         \A u \in Threads \ {t} : at'[u] = at[u] /\ buf'[u] = buf[u],
         UNCHANGED <<memory, req>>,
         \A d \in Banks \ {b} : overlapped'[d] = overlapped[d] /\ torn'[d] = torn[d],
         b = "questions" => UNCHANGED cfile, b = "contests" => UNCHANGED qfile,
         ~overlapped'[b] => /\ \A u \in Saving(b) : u = t
                            /\ at[t] = "opening" \/ UpToDate(t) => UpToDate(t)',
         ~overlapped'[b] => at[t] = "opening" \/ ~overlapped[b]
  PROVE  Through'
<1>1. \A u : BankOf(u)' = BankOf(u)
  BY DEF BankOf
<1>2. Saving(b)' = Saving(b) \cup {t} /\ t \in Unsaved(b)'
  BY <1>1 DEF Saving, Unsaved
<1>3. ~Settled(b)'
  BY <1>2 DEF Settled
<1>4. Latest(b)'
  <2> SUFFICES ASSUME ~overlapped'[b] PROVE /\ \A u, v \in Saving(b)' : u = v
                                           /\ Opening(b)' = {} => UpToDate(t)'
    BY <1>2 DEF Latest
  <2>1. \A u, v \in Saving(b)' : u = v
    BY <1>2
  <2>2. ASSUME Opening(b)' = {}, at[t] # "opening" PROVE UpToDate(t)
    <3>1. t \in Saving(b)
      BY <2>2 DEF Saving
    <3>2. Opening(b) = {}
      BY <1>1, <2>2 DEF Opening, Unsaved, Saving
    <3>3. QED
      BY <2>2, <3>1, <3>2 DEF Through, Latest
  <2>3. QED
    BY <2>1, <2>2
<1>5. ASSUME NEW d \in Banks \ {b} PROVE Latest(d)' /\ (Settled(d) => OnDisk(d))'
  <2>1. Saving(d)' = Saving(d) /\ Unsaved(d)' = Unsaved(d)
    BY <1>1, <1>5 DEF Saving, Unsaved
  <2>2. \A u \in Saving(d) : BankOf(u)' = BankOf(u) /\ at'[u] = at[u] /\ buf'[u] = buf[u]
    BY <1>1, <1>5 DEF Saving
  <2>3. QED
    BY <1>5, <2>1, <2>2, OtherBank, BanksAreTwo DEF memory
<1>6. QED
  BY <1>3, <1>4, <1>5 DEF Through

LEMMA BanksAreNumbered ==
  ASSUME WellTyped
  PROVE  /\ book \in SUBSET Nat /\ DOMAIN contests \in SUBSET Nat
         /\ contests = [i \in DOMAIN contests |-> contests[i]]
         /\ \A i \in DOMAIN contests : contests[i] \in ContestTo(restarts)
BY IdsAssumption, BoundsAreNaturals, ContestsToElements DEF WellTyped, BanksOK

LEMMA OpensThrough ==
  ASSUME WellTyped, Through, NEW t \in Threads, Opens(t)
  PROVE  Through'
<1>0. PICK b \in Banks : b = BankOf(t)
  BY BanksAreTwo
<1>1. /\ at[t] = "opening" /\ UNCHANGED <<memory, req>>
      /\ b = "questions" => UNCHANGED cfile
      /\ b = "contests" => UNCHANGED qfile
  BY <1>0, BanksAreTwo DEF Opens, asking
<1>2. overlapped'[b] = (Saving(b) # {}) /\ \A d \in Banks \ {b} : overlapped'[d] = overlapped[d]
                                                          /\ torn'[d] = torn[d]
  BY <1>0 DEF Opens, WellTyped, BanksOK
<1>3. PICK D \in SUBSET Nat : GoesOn(t, NoText, D) /\ D = IF b = "questions" THEN book ELSE DOMAIN contests
  BY <1>0, BanksAreNumbered DEF Opens
<1>4. /\ at'[t] \in {"copying", "flushing"} /\ \A u \in Threads \ {t} : at'[u] = at[u] /\ buf'[u] = buf[u]
      /\ buf'[t].book = {} /\ buf'[t].contests = << >>
      /\ at'[t] = "flushing" => D = {}
      /\ at'[t] = "copying" => buf'[t].here \in D /\ { j \in D : j < buf'[t].here } = {}
  <2>1. CASE Goes(t, "flushing") /\ D = {} /\ buf' = [buf EXCEPT ![t] = [NoText EXCEPT !.here = NoId]]
    BY <2>1 DEF Goes, NoText, WellTyped, PlacesOK, BanksOK
  <2>2. ASSUME NEW n \in D, Goes(t, "copying"), buf' = [buf EXCEPT ![t] = [NoText EXCEPT !.here = n]],
               { j \in D : j < n } = {}
        PROVE  /\ at'[t] = "copying" /\ \A u \in Threads \ {t} : at'[u] = at[u] /\ buf'[u] = buf[u]
               /\ buf'[t].book = {} /\ buf'[t].contests = << >> /\ buf'[t].here = n
    BY <2>2 DEF Goes, NoText, WellTyped, PlacesOK, BanksOK
  <2>3. QED
    BY <1>3, <2>1, <2>2, NextOfAll
<1>5. UpToDate(t)'
  <2>1. BankOf(t)' = b
    BY <1>0, <1>1 DEF BankOf
  <2>2. contests = [i \in DOMAIN contests |-> contests[i]]
    BY BanksAreNumbered
  <2>3. CASE b = "questions"
    BY <1>1, <1>3, <1>4, <2>1, <2>3 DEF UpToDate, memory
  <2>4. CASE b = "contests"
    BY <1>1, <1>3, <1>4, <2>1, <2>2, <2>4 DEF UpToDate, memory, Walking
  <2>5. QED
    BY <2>3, <2>4, BanksAreTwo
<1>6. QED
  BY <1>0, <1>1, <1>2, <1>4, <1>5, SaveThrough DEF Walking

\* Each step of the walk copies what the iterator stands at.
LEMMA CopiesThrough ==
  ASSUME WellTyped, Through, NEW t \in Threads, CopiesQuestion(t) \/ CopiesContest(t) \/ CopiesStats(t)
  PROVE  Through'
<1> DEFINE text == buf[t]
           i    == text.here
<1>0. PICK b \in Banks : b = BankOf(t)
  BY BanksAreTwo
<1>1. /\ at[t] \in Walking /\ UNCHANGED <<memory, disk, req>> /\ BankOf(t)' = BankOf(t)
  BY DEF CopiesQuestion, CopiesContest, CopiesStats, Walking, asking, BankOf
<1>2. text \in TextTo(restarts) /\ DOMAIN buf = Threads /\ t \in DOMAIN at
  BY TextParts DEF WellTyped, BanksOK, PlacesOK
<1>3. /\ at'[t] \in Walking \cup {"flushing"} /\ \A u \in Threads \ {t} : at'[u] = at[u] /\ buf'[u] = buf[u]
  <2>1. PICK place \in Walking \cup {"flushing"} :
                 Goes(t, place) /\ \E more : buf' = [buf EXCEPT ![t] = more]
    <3>1. ASSUME NEW next, NEW ids, GoesOn(t, next, ids)
          PROVE  \E place \in Walking \cup {"flushing"} :
                    Goes(t, place) /\ \E more : buf' = [buf EXCEPT ![t] = more]
      BY <3>1 DEF GoesOn, Walking
    <3>2. CASE CopiesContest(t)
      BY <3>2 DEF CopiesContest, Walking
    <3>3. QED
      BY <3>1, <3>2 DEF CopiesQuestion, CopiesStats
  <2>2. QED
    BY <1>2, <2>1 DEF Goes, WellTyped, PlacesOK, BanksOK
<1>4. ASSUME UpToDate(t) PROVE UpToDate(t)'
  <2>1. CASE CopiesQuestion(t)
    <3>1. at[t] = "copying" /\ b = "questions" /\ i \in book /\ text.book = { q \in book : q < i }
      BY <1>0, <1>4, <2>1 DEF CopiesQuestion, UpToDate
    <3>2. text.book \cup {i} = { q \in book : q <= i }
      BY <3>1, BanksAreNumbered
    <3>3. PICK more : more = [text EXCEPT !.book = @ \cup {i}]
      OBVIOUS
    <3>4. more.book = { q \in book : q <= i } /\ \A n : [more EXCEPT !.here = n].book = more.book
                                               /\ [more EXCEPT !.here = n].here = n
      BY <1>2, <3>2, <3>3 DEF TextTo
    <3>5. PICK ids : GoesOn(t, more, ids) /\ \A j : j \in ids <=> j \in book /\ j > i
      BY <2>1, <3>3 DEF CopiesQuestion
    <3>6. CASE /\ Goes(t, "flushing") /\ buf' = [buf EXCEPT ![t] = [more EXCEPT !.here = NoId]]
               /\ \A j \in book : j <= i
      <4>1. at'[t] = "flushing" /\ buf'[t].book = book
        BY <1>2, <3>4, <3>6 DEF Goes
      <4>2. QED
        BY <1>0, <1>1, <3>1, <4>1 DEF UpToDate, memory
    <3>7. ASSUME NEW n \in book, Goes(t, "copying"), buf' = [buf EXCEPT ![t] = [more EXCEPT !.here = n]],
                 \A j \in book : j < n <=> j <= i
          PROVE  UpToDate(t)'
      <4>1. at'[t] = "copying" /\ buf'[t].here = n /\ buf'[t].book = { q \in book : q < n }
        BY <1>2, <3>4, <3>7 DEF Goes
      <4>2. QED
        BY <1>0, <1>1, <3>1, <4>1 DEF UpToDate, memory
    <3>8. book \in SUBSET Nat
      BY BanksAreNumbered
    <3>9. CASE Goes(t, "flushing") /\ buf' = [buf EXCEPT ![t] = [more EXCEPT !.here = NoId]] /\ ids = {}
      BY <3>1, <3>5, <3>6, <3>8, <3>9, NextAfter
    <3>10. ASSUME NEW n \in ids, \A j \in ids : n <= j, Goes(t, "copying"),
                  buf' = [buf EXCEPT ![t] = [more EXCEPT !.here = n]]
           PROVE  UpToDate(t)'
      <4>1. n \in book /\ \A j \in book : j < n <=> j <= i
        BY <3>1, <3>5, <3>8, <3>10, NextAfter
      <4>2. QED
        BY <3>7, <3>10, <4>1
    <3>11. QED
      BY <3>5, <3>9, <3>10 DEF GoesOn
  <2>2. CASE CopiesContest(t)
    <3>1. /\ at[t] = "copying" /\ b = "contests" /\ i \in DOMAIN contests /\ DOMAIN contests \in SUBSET Nat
          /\ text.contests = [j \in { k \in DOMAIN contests : k < i } |-> contests[j]]
      BY <1>0, <1>4, <2>2, BanksAreNumbered DEF CopiesContest, UpToDate, Walking
    <3>2. PICK v : v = [contests[i] EXCEPT !.stats = {}]
      OBVIOUS
    <3>3. at'[t] = "tallying" /\ buf' = [buf EXCEPT ![t].contests = With(text.contests, i, v)]
      BY <1>2, <2>2, <3>2 DEF CopiesContest, Goes
    <3>4. buf'[t].contests = With(text.contests, i, v) /\ buf'[t].here = i
      BY <1>2, <3>3 DEF TextTo
    <3>5. DOMAIN text.contests \cup {i} = { k \in DOMAIN contests : k <= i }
      BY <3>1
    <3>6. With(text.contests, i, v) = [j \in { k \in DOMAIN contests : k <= i } |->
                                          IF j = i THEN v ELSE contests[j]]
      BY <3>1, <3>5 DEF With
    <3>7. buf'[t].contests = [j \in { k \in DOMAIN contests : k <= buf'[t].here } |->
                IF j = buf'[t].here THEN [contests[j] EXCEPT !.stats = {}] ELSE contests[j]]
      BY <3>2, <3>4, <3>6
    <3>8. at'[t] = "tallying" /\ BankOf(t)' = "contests" /\ buf'[t].here \in DOMAIN contests
      BY <1>0, <1>1, <1>2, <3>1, <3>3, <3>4 DEF Goes
    <3>9. QED
      BY <1>1, <3>7, <3>8 DEF UpToDate, memory, Walking
  <2>3. CASE CopiesStats(t)
    <3>1. /\ at[t] = "tallying" /\ i \in DOMAIN contests /\ DOMAIN contests \in SUBSET Nat
      BY <2>3, BanksAreNumbered DEF CopiesStats
    <3>2. /\ b = "contests"
          /\ text.contests = [j \in { k \in DOMAIN contests : k <= i } |->
                                IF j = i THEN [contests[j] EXCEPT !.stats = {}] ELSE contests[j]]
      BY <1>0, <1>4, <3>1, BanksAreTwo DEF UpToDate
    <3>3. [text.contests EXCEPT ![i].stats = contests[i].stats]
            = [j \in { k \in DOMAIN contests : k <= i } |-> contests[j]]
      <4>1. PICK v : v = contests[i]
        OBVIOUS
      <4>2. [[v EXCEPT !.stats = {}] EXCEPT !.stats = v.stats] = v
        BY <3>1, <4>1, BanksAreNumbered DEF ContestTo
      <4>3. i \in { k \in DOMAIN contests : k <= i }
        BY <3>1
      <4>4. text.contests[i] = [v EXCEPT !.stats = {}]
        BY <3>2, <4>1, <4>3
      <4>5. [text.contests EXCEPT ![i].stats = v.stats]
              = [j \in { k \in DOMAIN contests : k <= i } |->
                   IF j = i THEN [text.contests[i] EXCEPT !.stats = v.stats] ELSE text.contests[j]]
        BY <3>2
      <4>6. \A j \in { k \in DOMAIN contests : k <= i } :
              (IF j = i THEN [text.contests[i] EXCEPT !.stats = v.stats] ELSE text.contests[j]) = contests[j]
        BY <3>2, <4>1, <4>2, <4>4
      <4>7. QED
        BY <4>1, <4>5, <4>6
    <3>4. PICK more : more = [text EXCEPT !.contests[i].stats = contests[i].stats]
      OBVIOUS
    <3>5. more.contests = [text.contests EXCEPT ![i].stats = contests[i].stats]
          /\ \A n : [more EXCEPT !.here = n].contests = more.contests /\ [more EXCEPT !.here = n].here = n
      BY <1>2, <3>4 DEF TextTo
    <3>6. PICK ids : GoesOn(t, more, ids) /\ \A j : j \in ids <=> j \in DOMAIN contests /\ j > i
      BY <2>3, <3>4 DEF CopiesStats
    <3>7. CASE /\ Goes(t, "flushing") /\ buf' = [buf EXCEPT ![t] = [more EXCEPT !.here = NoId]]
               /\ \A j \in DOMAIN contests : j <= i
      <4>1. { k \in DOMAIN contests : k <= i } = DOMAIN contests
        BY <3>7
      <4>2. at'[t] = "flushing" /\ buf'[t].contests = [j \in DOMAIN contests |-> contests[j]]
        BY <1>2, <3>3, <3>5, <3>7, <4>1 DEF Goes
      <4>3. QED
        BY <1>0, <1>1, <3>2, <4>2, BanksAreNumbered DEF UpToDate, memory, Walking
    <3>8. ASSUME NEW n \in DOMAIN contests, Goes(t, "copying"),
                 buf' = [buf EXCEPT ![t] = [more EXCEPT !.here = n]],
                 \A j \in DOMAIN contests : j < n <=> j <= i
          PROVE  UpToDate(t)'
      <4>1. { k \in DOMAIN contests : k <= i } = { k \in DOMAIN contests : k < n }
        BY <3>8
      <4>2. /\ at'[t] = "copying" /\ buf'[t].here = n
            /\ buf'[t].contests = [j \in { k \in DOMAIN contests : k < n } |-> contests[j]]
        BY <1>2, <3>3, <3>5, <3>8, <4>1 DEF Goes
      <4>3. QED
        BY <1>0, <1>1, <3>2, <4>2 DEF UpToDate, memory, Walking
    <3>9. CASE Goes(t, "flushing") /\ buf' = [buf EXCEPT ![t] = [more EXCEPT !.here = NoId]] /\ ids = {}
      BY <3>1, <3>6, <3>7, <3>9, NextAfter
    <3>10. ASSUME NEW n \in ids, \A j \in ids : n <= j, Goes(t, "copying"),
                  buf' = [buf EXCEPT ![t] = [more EXCEPT !.here = n]]
           PROVE  UpToDate(t)'
      <4>1. n \in DOMAIN contests /\ \A j \in DOMAIN contests : j < n <=> j <= i
        BY <3>1, <3>6, <3>10, NextAfter
      <4>2. QED
        BY <3>8, <3>10, <4>1
    <3>11. QED
      BY <3>6, <3>9, <3>10 DEF GoesOn
  <2>4. QED
    BY <2>1, <2>2, <2>3
<1>5. t \in Saving(b)
  BY <1>0, <1>1 DEF Saving
<1>6. ~overlapped'[b] => \A u \in Saving(b) : u = t
  BY <1>1, <1>5 DEF Through, Latest, disk
<1>7. at[t] # "opening"
  BY <1>1 DEF Walking
<1>8. QED
  BY <1>0, <1>1, <1>3, <1>4, <1>6, <1>7, SaveThrough DEF disk

LEMMA FlushesThrough ==
  ASSUME WellTyped, Through, NEW t \in Threads, Flushes(t)
  PROVE  Through'
<1>0. PICK b \in Banks : b = BankOf(t)
  BY BanksAreTwo
<1>1. at[t] = "flushing" /\ at'[t] \notin Busy /\ \A u \in Threads \ {t} : at'[u] = at[u]
  BY DEF Flushes, Goes, WellTyped, PlacesOK, Busy, Walking
<1>2. \A u : BankOf(u)' = BankOf(u)
  BY DEF Flushes, asking, BankOf
<1>3. /\ t \in Saving(b) /\ Saving(b)' = Saving(b) \ {t} /\ Opening(b)' = Opening(b)
      /\ Unsaved(b)' = Unsaved(b) \ {t}
  BY <1>0, <1>1, <1>2 DEF Saving, Unsaved, Opening, Busy, Walking
<1>4. UNCHANGED memory /\ overlapped' = overlapped /\ \A d \in Banks \ {b} : torn'[d] = torn[d]
  BY <1>0 DEF Flushes, WellTyped, BanksOK
<1>5. ~overlapped[b] => /\ ~torn'[b]
                        /\ IF b = "questions" THEN qfile' = buf[t].book ELSE cfile' = buf[t].contests
  BY <1>0 DEF Flushes, WellTyped, BanksOK
<1>6. Latest(b)'
  BY <1>3, <1>4 DEF Through, Latest
<1>7. ASSUME Settled(b)' PROVE OnDisk(b)'
  <2>1. ~overlapped[b] /\ Opening(b) = {}
    BY <1>3, <1>4, <1>7 DEF Settled, Opening
  <2>2. IF b = "questions" THEN buf[t].book = book ELSE buf[t].contests = contests
    BY <1>0, <1>1, <1>3, <2>1 DEF Through, Latest, UpToDate
  <2>3. QED
    BY <1>4, <1>5, <2>1, <2>2 DEF OnDisk, memory
<1>8. ASSUME NEW d \in Banks \ {b} PROVE Latest(d)' /\ (Settled(d) => OnDisk(d))'
  <2>1. Saving(d)' = Saving(d) /\ Unsaved(d)' = Unsaved(d)
    BY <1>0, <1>1, <1>2, <1>8 DEF Saving, Unsaved, Busy, Walking
  <2>2. \A u \in Saving(d) : BankOf(u)' = BankOf(u) /\ at'[u] = at[u] /\ buf'[u] = buf[u]
    BY <1>0, <1>1, <1>2, <1>8 DEF Flushes, WellTyped, BanksOK, Saving
  <2>3. b = "questions" => UNCHANGED cfile
    BY <1>0 DEF Flushes
  <2>4. b = "contests" => UNCHANGED qfile
    BY <1>0 DEF Flushes
  <2>5. QED
    BY <1>4, <1>8, <2>1, <2>2, <2>3, <2>4, OtherBank, BanksAreTwo DEF memory
<1>9. QED
  BY <1>6, <1>7, <1>8 DEF Through

\* What a start adds to the titles is not what a contest is.
LEMMA WornIsPlain ==
  ASSUME NEW k \in Nat, NEW cs \in ContestsTo(k)
  PROVE  Plain(Worn(cs)) = Plain(cs)
<1>1. \A i \in DOMAIN cs : cs[i] \in ContestTo(k)
  BY ContestsToElements
<1>2. ASSUME NEW v \in ContestTo(k), NEW w, w = [v EXCEPT !.qs = [q \in DOMAIN v.qs |-> v.qs[q] + 1]]
      PROVE  [w EXCEPT !.qs = DOMAIN w.qs] = [v EXCEPT !.qs = DOMAIN v.qs]
  BY <1>2 DEF ContestTo
<1>3. DOMAIN Worn(cs) = DOMAIN cs
  BY DEF Worn
<1>4. ASSUME NEW i \in DOMAIN cs
      PROVE  [Worn(cs)[i] EXCEPT !.qs = DOMAIN Worn(cs)[i].qs] = [cs[i] EXCEPT !.qs = DOMAIN cs[i].qs]
  <2>1. Worn(cs)[i] = [cs[i] EXCEPT !.qs = [q \in DOMAIN cs[i].qs |-> cs[i].qs[q] + 1]]
    BY DEF Worn
  <2>2. QED
    BY <1>1, <1>2, <2>1
<1>5. QED
  BY <1>3, <1>4 DEF Plain

\* After a start every title has a line more than it was posted with.
LEMMA WornIsReadable ==
  ASSUME NEW k \in Nat, NEW cs \in ContestsTo(k)
  PROVE  ~Unreadable(Worn(cs))
<1>1. \A i \in DOMAIN cs : cs[i] \in ContestTo(k)
  BY ContestsToElements
<1>2. ASSUME NEW v \in ContestTo(k), NEW w, w = [v EXCEPT !.qs = [q \in DOMAIN v.qs |-> v.qs[q] + 1]],
             NEW q \in DOMAIN w.qs
      PROVE  w.qs[q] # 0
  <2>1. w.qs = [r \in DOMAIN v.qs |-> v.qs[r] + 1]
    BY <1>2 DEF ContestTo
  <2>2. v.qs[q] \in Nat
    BY <2>1, ContestToElements
  <2>3. QED
    BY <2>1, <2>2
<1>3. DOMAIN Worn(cs) = DOMAIN cs
  BY DEF Worn
<1>4. ASSUME NEW i \in DOMAIN cs, NEW q \in DOMAIN Worn(cs)[i].qs PROVE Worn(cs)[i].qs[q] # 0
  <2>1. Worn(cs)[i] = [cs[i] EXCEPT !.qs = [r \in DOMAIN cs[i].qs |-> cs[i].qs[r] + 1]]
    BY DEF Worn
  <2>2. QED
    BY <1>1, <1>2, <2>1
<1>5. QED
  BY <1>3, <1>4 DEF Unreadable

LEMMA RestartsThrough ==
  ASSUME WellTyped, Through, Restarts
  PROVE  Through'
<1>1. CASE process' = "unusable"
  <2>1. UNCHANGED <<memory, disk, at, buf, req>>
    BY <1>1 DEF Restarts, disk, asking
  <2>2. ASSUME NEW b \in Banks
        PROVE  /\ Saving(b)' = Saving(b) /\ Unsaved(b)' = Unsaved(b)
               /\ \A t \in Saving(b) : BankOf(t)' = BankOf(t)
    BY <2>1 DEF Saving, Unsaved, BankOf
  <2>3. QED
    BY <2>1, <2>2, OtherBank DEF Through, memory, disk
<1>2. CASE process' # "unusable"
  <2>1. /\ \A b \in Banks : ~torn[b]
        /\ ~Unreadable(cfile)
        /\ at' = Fresh.at /\ book' = qfile /\ contests' = Worn(cfile) /\ UNCHANGED <<qfile, cfile, torn>>
    BY <1>2 DEF Restarts
  <2>2. \A t \in Threads : at'[t] \notin Busy
    BY <2>1 DEF Fresh, Busy, Walking
  <2>3. \A b \in Banks : Saving(b)' = {}
    BY <2>2 DEF Saving, Busy
  <2>4. Plain(contests') = Plain(cfile) /\ ~Unreadable(contests')
    BY <2>1, WornIsPlain, WornIsReadable, BoundsAreNaturals DEF WellTyped, BanksOK
  <2>5. Plain(cfile)' = Plain(cfile) /\ Plain(contests)' = Plain(contests')
        /\ (Unreadable(cfile)' <=> Unreadable(cfile)) /\ (Unreadable(contests)' <=> Unreadable(contests'))
    BY <2>1 DEF Plain, Unreadable
  <2>6. \A b \in Banks : OnDisk(b)'
    BY <2>1, <2>4, <2>5 DEF OnDisk
  <2>7. QED
    BY <2>3, <2>6 DEF Through, Latest
<1>3. QED
  BY <1>1, <1>2

LEMMA ThroughStep == WellTyped /\ Through /\ [Next]_vars => Through'
<1> SUFFICES ASSUME WellTyped, Through, [Next]_vars PROVE Through'
  OBVIOUS
<1>1. ASSUME NEW c \in Clients, PostsQuestion(c) \/ DeletesQuestion(c) PROVE Through'
  <2>1. /\ UNCHANGED <<contests, qfile, cfile, torn, buf, req>>
        /\ at[c] = "changing" /\ BankOf(c) = "questions"
    BY <1>1 DEF PostsQuestion, DeletesQuestion, BankOf
  <2>2. CASE Goes(c, "opening") /\ Disturbs("questions", Walkers("questions"))
    BY <2>1, <2>2, ChangeThrough, DisturbsThrough DEF Threads, Banks, Walking
  <2>3. CASE Replies(c, "error") /\ UNCHANGED <<book, overlapped>>
    <3>1. UNCHANGED <<memory, disk, restarts, playing>>
      BY <1>1, <2>3 DEF PostsQuestion, DeletesQuestion, memory, disk, main
    <3>2. QED
      BY <2>1, <2>3, <3>1, ClientMoves, QuietThrough DEF Replies, Busy, Walking
  <2>4. QED
    BY <1>1, <2>2, <2>3 DEF PostsQuestion, DeletesQuestion
<1>2. ASSUME NEW c \in Clients, SetsContest(c) \/ AddsQuestion(c) PROVE Through'
  <2>1. /\ UNCHANGED <<book, qfile, cfile, torn, buf, req>>
        /\ at[c] = "changing" /\ BankOf(c) = "contests" /\ Goes(c, "opening")
    BY <1>2 DEF SetsContest, AddsQuestion, BankOf
  <2>2. PICK walkers : Disturbs("contests", walkers)
    BY <1>2 DEF SetsContest, AddsQuestion
  <2>3. QED
    BY <2>1, <2>2, ChangeThrough, DisturbsThrough DEF Threads, Banks, Walking
<1>3. ASSUME NEW s \in Sessions, SetsRun(s) \/ SetsStats(s) PROVE Through'
  <2>1. PICK place \in {"recording", "opening"} : Goes(s, place)
    BY <1>3 DEF SetsRun, SetsStats
  <2>2. UNCHANGED <<book, qfile, cfile, torn, buf, req>> /\ at[s] \in {"flagging", "recording"}
    BY <1>3 DEF SetsRun, SetsStats, asking, disk
  <2>3. BankOf(s) = "contests"
    BY ThreadsAssumption DEF BankOf
  <2>4. /\ overlapped["contests"] => overlapped'["contests"]
        /\ \A d \in Banks \ {"contests"} : overlapped'[d] = overlapped[d]
    BY <1>3, DisturbsThrough DEF SetsRun, SetsStats, disk, Banks
  <2>5. QED
    BY <2>1, <2>2, <2>3, <2>4, ChangeThrough DEF Threads, Banks, Walking
<1>4. ASSUME NEW t \in Threads, Saves(t) PROVE Through'
  BY <1>4, OpensThrough, CopiesThrough, FlushesThrough DEF Saves
<1>5. QED
  BY <1>1, <1>2, <1>3, <1>4, Steps, QuietThrough, DiesThrough, RestartsThrough

LEMMA InitThrough == Init => Through
<1> SUFFICES ASSUME Init PROVE Through
  OBVIOUS
<1>1. \A t \in Threads : at[t] \notin Busy
  BY DEF Init, Fresh, Busy, Walking
<1>2. \A b \in Banks : Saving(b) = {}
  BY <1>1 DEF Saving, Busy, Walking
<1>3. QED
  BY <1>2 DEF Init, Through, Latest, OnDisk, Plain

LEMMA ThroughIsWrittenThrough == Through => WrittenThrough
BY DEF Through, WrittenThrough, OnDisk, Banks

LEMMA ThroughInvariant == Spec => [](WellTyped /\ Through)
BY InitTyped, NextTyped, InitThrough, ThroughStep, PTL DEF Spec

\* The banks are written through: however many clients and sessions change them, and
\* wherever the process stops or is started again, a file that nobody is about to
\* write holds what the memory holds, unless its last save was disturbed: by another
\* one, or by a change to what it was copying (ContestServer.cpp:321-342).
THEOREM BanksWrittenThrough == Spec => []WrittenThrough
BY ThroughInvariant, ThroughIsWrittenThrough, PTL

\* A server that stopped between two changes starts again with all it knew, at every
\* one of its starts, or, where a question that was put into a contest since the last
\* start has a dot for its tags, not at all: never with a part
\* (ContestServer.cpp:3-13 and 305-342, Contest.cpp:76-78, QuestionTitle.cpp:55-57).
THEOREM RestartGivesAllOrNothing == Spec => SurvivesRestart
<1>1. WellTyped /\ Through /\ [Next]_vars =>
        [restarts' # restarts /\ (\A b \in Banks : Settled(b)) =>
           IF Unreadable(contests)
             THEN process' = "unusable"
             ELSE process' = "up" /\ book' = book /\ Plain(contests') = Plain(contests)]_vars
  <2> SUFFICES ASSUME WellTyped, Through, [Next]_vars, restarts' # restarts, \A b \in Banks : Settled(b)
               PROVE  IF Unreadable(contests)
                        THEN process' = "unusable"
                        ELSE process' = "up" /\ book' = book /\ Plain(contests') = Plain(contests)
    OBVIOUS
  <2>1. Restarts
    BY Steps DEF Quiet, Dies, Saves, Opens, CopiesQuestion, CopiesContest, CopiesStats, Flushes,
       PostsQuestion, DeletesQuestion, SetsContest, AddsQuestion, SetsRun, SetsStats, main
  <2>2. OnDisk("questions") /\ OnDisk("contests") /\ \A b \in Banks : ~torn[b]
    BY DEF Through, OnDisk, Banks
  <2>3. CASE Unreadable(contests)
    BY <2>1, <2>2, <2>3 DEF Restarts, OnDisk
  <2>4. CASE ~Unreadable(contests)
    <3>1. process' = "up" /\ book' = qfile /\ contests' = Worn(cfile)
      BY <2>1, <2>2, <2>4 DEF Restarts, OnDisk
    <3>2. Plain(contests') = Plain(cfile)
      BY <3>1, WornIsPlain, BoundsAreNaturals DEF WellTyped, BanksOK
    <3>3. QED
      BY <2>2, <2>4, <3>1, <3>2 DEF OnDisk
  <2>5. QED
    BY <2>3, <2>4
<1>2. QED
  BY <1>1, ThroughInvariant, PTL DEF Spec, SurvivesRestart
-----------------------------------------------------------------------------
(* The contests: what they have they keep, and their statistics are theirs. *)

\* What cs has of its contests, ds has too.
KeptIn(cs, ds) ==
  \A i \in DOMAIN cs :
     /\ i \in DOMAIN ds
     /\ DOMAIN cs[i].qs \subseteq DOMAIN ds[i].qs
     /\ cs[i].run => ds[i].run

LEMMA ContestsChange ==
  ASSUME NEW k \in Nat, NEW cs \in ContestsTo(k), NEW id, NEW q, NEW S
  PROVE  /\ KeptIn(cs, [cs EXCEPT ![id].run = TRUE])
         /\ KeptIn(cs, [cs EXCEPT ![id].stats = S])
         /\ KeptIn(cs, [cs EXCEPT ![id].qs = With(cs[id].qs, q, 0)])
         /\ KeptIn(cs, [cs EXCEPT ![id].qs = cs[id].qs])
         /\ id \notin DOMAIN cs => KeptIn(cs, With(cs, id, NewContest))
<1>1. \A i \in DOMAIN cs : cs[i] \in ContestTo(k)
  BY ContestsToElements
<1>2. ASSUME NEW v \in ContestTo(k), NEW f
      PROVE  /\ [v EXCEPT !.run = TRUE].qs = v.qs /\ [v EXCEPT !.run = TRUE].run = TRUE
             /\ [v EXCEPT !.stats = S].qs = v.qs /\ [v EXCEPT !.stats = S].run = v.run
             /\ [v EXCEPT !.qs = f].qs = f /\ [v EXCEPT !.qs = f].run = v.run
  BY DEF ContestTo
<1>3. KeptIn(cs, [cs EXCEPT ![id].run = TRUE]) /\ KeptIn(cs, [cs EXCEPT ![id].stats = S])
  BY <1>1, <1>2 DEF KeptIn
<1>4. DOMAIN cs[id].qs \subseteq DOMAIN With(cs[id].qs, q, 0)
  BY DEF With
<1>5. KeptIn(cs, [cs EXCEPT ![id].qs = With(cs[id].qs, q, 0)])
  BY <1>1, <1>2, <1>4 DEF KeptIn
<1>6. KeptIn(cs, [cs EXCEPT ![id].qs = cs[id].qs])
  BY <1>1, <1>2 DEF KeptIn
<1>7. id \notin DOMAIN cs => KeptIn(cs, With(cs, id, NewContest))
  BY DEF With, KeptIn
<1>8. QED
  BY <1>3, <1>5, <1>6, <1>7

LEMMA ContestsKept ==
  ASSUME WellTyped, [Next]_vars, ~Restarts
  PROVE  KeptIn(contests, contests')
<1>1. contests \in ContestsTo(restarts) /\ restarts \in Nat
  BY BoundsAreNaturals DEF WellTyped, BanksOK
<1>2. CASE UNCHANGED contests
  BY <1>2 DEF KeptIn
<1>3. ASSUME NEW c \in Clients, SetsContest(c) \/ AddsQuestion(c) PROVE KeptIn(contests, contests')
  <2>1. PICK id, q : id = req[c].c /\ q = req[c].q
    OBVIOUS
  <2>2. \/ UNCHANGED contests
        \/ id \notin DOMAIN contests /\ contests' = With(contests, id, NewContest)
        \/ contests' = [contests EXCEPT ![id].qs = With(contests[id].qs, q, 0)]
        \/ contests' = [contests EXCEPT ![id].qs = contests[id].qs]
    BY <1>3, <2>1 DEF SetsContest, AddsQuestion
  <2>3. /\ KeptIn(contests, [contests EXCEPT ![id].qs = With(contests[id].qs, q, 0)])
        /\ KeptIn(contests, [contests EXCEPT ![id].qs = contests[id].qs])
        /\ id \notin DOMAIN contests => KeptIn(contests, With(contests, id, NewContest))
    BY <1>1, ContestsChange
  <2>4. QED
    BY <1>2, <2>2, <2>3
<1>4. ASSUME NEW s \in Sessions, SetsRun(s) \/ SetsStats(s) PROVE KeptIn(contests, contests')
  <2>1. PICK id, S : id = playing[s].c /\ S = playing[s].on
    OBVIOUS
  <2>2. \/ contests' = [contests EXCEPT ![id].run = TRUE]
        \/ contests' = [contests EXCEPT ![id].stats = S]
    BY <1>4, <2>1 DEF SetsRun, SetsStats
  <2>3. /\ KeptIn(contests, [contests EXCEPT ![id].run = TRUE])
        /\ KeptIn(contests, [contests EXCEPT ![id].stats = S])
    BY <1>1, ContestsChange
  <2>4. QED
    BY <2>2, <2>3
<1>5. QED
  BY <1>2, <1>3, <1>4, Steps DEF Quiet, Dies, Saves, Opens, CopiesQuestion, CopiesContest, CopiesStats,
     Flushes, PostsQuestion, DeletesQuestion, memory

\* While the server is up no contest is lost, emptied or unmarked, although two
\* clients may set or fill the same one at once and its session may mark it
\* meanwhile (ContestServer.cpp:203-206 and 268-271).
THEOREM NoContestShrinks == Spec => ContestsOnlyGrow
<1>1. WellTyped /\ [Next]_vars =>
        [process = "up" /\ process' = "up" =>
           \A i \in DOMAIN contests :
              /\ i \in DOMAIN contests'
              /\ DOMAIN contests[i].qs \subseteq DOMAIN contests'[i].qs
              /\ contests[i].run => contests'[i].run]_vars
  <2> SUFFICES ASSUME WellTyped, [Next]_vars, process = "up", process' = "up"
               PROVE  KeptIn(contests, contests')
    BY DEF KeptIn
  <2>1. ~Restarts
    BY DEF Restarts
  <2>2. QED
    BY <2>1, ContestsKept
<1>2. QED
  BY <1>1, InitTyped, NextTyped, PTL DEF Spec, ContestsOnlyGrow

\* A session plays questions of a contest there is, which has them still when
\* their statistics come.
Played(s) ==
  at[s] \in InPlay =>
    /\ playing[s].c \in DOMAIN contests
    /\ playing[s].on \subseteq DOMAIN contests[playing[s].c].qs
    /\ at[s] = "recording" => contests[playing[s].c].run

Recorded == \A s \in Sessions : Played(s)

\* A session's contest stays, with the questions it plays, while contests only grow.
LEMMA PlayedKept ==
  ASSUME KeptIn(contests, contests'), NEW s \in Sessions, Played(s), at[s] \in InPlay,
         playing'[s] = playing[s],
         at'[s] = "recording" => at[s] = "recording" \/ contests'[playing[s].c].run
  PROVE  Played(s)'
BY DEF Played, KeptIn

LEMMA QuietRecorded ==
  ASSUME WellTyped, Recorded, Quiet
  PROVE  Recorded'
<1>1. UNCHANGED contests
  BY DEF Quiet, memory
<1>2. ASSUME NEW s \in Sessions, at'[s] \in InPlay PROVE Played(s)'
  <2>1. CASE at[s] \in InPlay /\ playing'[s] = playing[s]
    <3>1. at'[s] = "recording" => at[s] = "recording"
      BY DEF Quiet, Busy, Threads
    <3>2. QED
      BY <1>1, <2>1, <3>1 DEF Recorded, Played
  <2>2. CASE /\ at'[s] = "running" /\ playing'[s].c \in DOMAIN contests
             /\ playing'[s].on = DOMAIN contests[playing'[s].c].qs
    BY <1>1, <2>2 DEF Played
  <2>3. QED
    BY <1>2, <2>1, <2>2 DEF Quiet
<1>3. QED
  BY <1>2 DEF Played, Recorded

\* A save, or the end of the process, leaves the play alone.
LEMMA OthersRecorded ==
  ASSUME WellTyped, Recorded,
         \/ \E how \in {"exited", "aborted", "crashed"} : Dies(how)
         \/ \E t \in Threads : Saves(t)
  PROVE  Recorded'
<1>1. UNCHANGED <<contests, playing>>
  BY DEF Dies, Saves, Opens, CopiesQuestion, CopiesContest, CopiesStats, Flushes, memory
<1>2. \A s \in Sessions : at'[s] = at[s] \/ at'[s] \notin InPlay
  <2>1. ASSUME NEW t \in Threads, Saves(t)
        PROVE  \E place \in {"copying", "tallying", "flushing", "answering", "free"} : Goes(t, place)
    BY <2>1 DEF Saves, Opens, CopiesQuestion, CopiesContest, CopiesStats, Flushes, GoesOn
  <2>2. ASSUME NEW t \in Threads, NEW place \in {"copying", "tallying", "flushing", "answering", "free"},
               Goes(t, place)
        PROVE  \A s \in Sessions : at'[s] = at[s] \/ at'[s] \notin InPlay
    BY <2>2 DEF Goes, WellTyped, PlacesOK, InPlay, Threads
  <2>3. QED
    BY <2>1, <2>2 DEF Dies
<1>3. QED
  BY <1>1, <1>2 DEF Recorded, Played

LEMMA ClientRecorded ==
  ASSUME WellTyped, Recorded, [Next]_vars, ~Restarts, NEW c \in Clients,
         PostsQuestion(c) \/ DeletesQuestion(c) \/ SetsContest(c) \/ AddsQuestion(c)
  PROVE  Recorded'
<1>1. UNCHANGED playing /\ \A s \in Sessions : at'[s] = at[s]
  BY ThreadsAssumption DEF PostsQuestion, DeletesQuestion, SetsContest, AddsQuestion, Replies, Goes,
     WellTyped, PlacesOK, Threads
<1>2. ASSUME NEW s \in Sessions, at[s] \in InPlay PROVE Played(s)'
  BY <1>1, <1>2, ContestsKept, PlayedKept DEF Recorded
<1>3. QED
  BY <1>1, <1>2 DEF Recorded, Played

\* A session marks its contest, and then hands over statistics of what it played.
LEMMA SessionRecorded ==
  ASSUME WellTyped, Recorded, [Next]_vars, ~Restarts, NEW s \in Sessions, SetsRun(s) \/ SetsStats(s)
  PROVE  Recorded'
<1>1. contests \in ContestsTo(restarts) /\ restarts \in Nat /\ Played(s)
  BY BoundsAreNaturals DEF WellTyped, BanksOK, Recorded
<1>2. PICK id : id = playing[s].c
  OBVIOUS
<1>3. UNCHANGED playing /\ \A r \in Sessions \ {s} : at'[r] = at[r]
  BY DEF SetsRun, SetsStats, Goes, WellTyped, PlacesOK, Threads
<1>4. Played(s)'
  <2>1. CASE SetsRun(s)
    <3>1. at[s] = "flagging" /\ at'[s] = "recording" /\ id \in DOMAIN contests
      BY <1>1, <1>2, <2>1 DEF SetsRun, Goes, WellTyped, PlacesOK, Threads, Played, InPlay
    <3>2. contests'[id].run
      <4>1. contests[id] \in ContestTo(restarts)
        BY <1>1, <3>1, ContestsToElements
      <4>2. [contests[id] EXCEPT !.run = TRUE].run
        BY <4>1 DEF ContestTo
      <4>3. QED
        BY <1>2, <2>1, <3>1, <4>2 DEF SetsRun
    <3>3. QED
      BY <1>1, <1>2, <1>3, <3>1, <3>2, ContestsKept, PlayedKept DEF InPlay
  <2>2. CASE SetsStats(s)
    BY <2>2 DEF SetsStats, Goes, WellTyped, PlacesOK, Threads, Played, InPlay
  <2>3. QED
    BY <2>1, <2>2
<1>5. ASSUME NEW r \in Sessions \ {s} PROVE Played(r)'
  <2>1. CASE at[r] \in InPlay
    BY <1>3, <2>1, ContestsKept, PlayedKept DEF Recorded
  <2>2. CASE at[r] \notin InPlay
    BY <1>3, <2>2 DEF Played
  <2>3. QED
    BY <2>1, <2>2
<1>6. QED
  BY <1>4, <1>5 DEF Recorded

LEMMA RestartsRecorded ==
  ASSUME WellTyped, Recorded, Restarts
  PROVE  Recorded'
<1>1. CASE process' = "unusable"
  BY <1>1 DEF Restarts, memory, Recorded, Played
<1>2. CASE process' # "unusable"
  BY <1>2, FreshTyped DEF Restarts, Recorded, Played, InPlay
<1>3. QED
  BY <1>1, <1>2

LEMMA InitRecorded == Init => Recorded
BY FreshTyped DEF Init, Recorded, Played, InPlay

LEMMA RecordedStep == WellTyped /\ Recorded /\ [Next]_vars => Recorded'
<1> SUFFICES ASSUME WellTyped, Recorded, [Next]_vars PROVE Recorded'
  OBVIOUS
<1>1. CASE Restarts
  BY <1>1, RestartsRecorded
<1>2. CASE ~Restarts
  BY <1>2, Steps, QuietRecorded, OthersRecorded, ClientRecorded, SessionRecorded
<1>3. QED
  BY <1>1, <1>2

\* What a contest that was its own is, after each change there is to contests.
LEMMA OwnKept ==
  ASSUME NEW k \in Nat, NEW cs \in ContestsTo(k), NEW id, NEW q, NEW S, NEW ds,
         \/ ds = [cs EXCEPT ![id].run = TRUE]
         \/ ds = [cs EXCEPT ![id].stats = S]
            /\ (id \in DOMAIN cs => S \subseteq DOMAIN cs[id].qs /\ cs[id].run)
         \/ ds = [cs EXCEPT ![id].qs = With(cs[id].qs, q, 0)]
         \/ ds = [cs EXCEPT ![id].qs = cs[id].qs]
         \/ ds = With(cs, id, NewContest) /\ id \notin DOMAIN cs,
         NEW i \in DOMAIN ds, i \in DOMAIN cs => Own(cs[i])
  PROVE  Own(ds[i])
<1>1. \A j \in DOMAIN cs : cs[j] \in ContestTo(k)
  BY ContestsToElements
<1>2. ASSUME NEW v \in ContestTo(k), NEW f
      PROVE  /\ [v EXCEPT !.run = TRUE].qs = v.qs /\ [v EXCEPT !.run = TRUE].run = TRUE
             /\ [v EXCEPT !.run = TRUE].stats = v.stats
             /\ [v EXCEPT !.stats = f].qs = v.qs /\ [v EXCEPT !.stats = f].run = v.run
             /\ [v EXCEPT !.stats = f].stats = f
             /\ [v EXCEPT !.qs = f].qs = f /\ [v EXCEPT !.qs = f].run = v.run
             /\ [v EXCEPT !.qs = f].stats = v.stats
  BY DEF ContestTo
<1>3. CASE ds = [cs EXCEPT ![id].run = TRUE]
  BY <1>1, <1>2, <1>3 DEF Own
<1>4. CASE ds = [cs EXCEPT ![id].stats = S]
           /\ (id \in DOMAIN cs => S \subseteq DOMAIN cs[id].qs /\ cs[id].run)
  BY <1>1, <1>2, <1>4 DEF Own
<1>5. CASE ds = [cs EXCEPT ![id].qs = With(cs[id].qs, q, 0)]
  <2>1. DOMAIN cs[id].qs \subseteq DOMAIN With(cs[id].qs, q, 0)
    BY DEF With
  <2>2. QED
    BY <1>1, <1>2, <1>5, <2>1 DEF Own
<1>6. CASE ds = [cs EXCEPT ![id].qs = cs[id].qs]
  BY <1>1, <1>2, <1>6 DEF Own
<1>7. CASE ds = With(cs, id, NewContest) /\ id \notin DOMAIN cs
  BY <1>7 DEF With, NewContest, Own
<1>8. QED
  BY <1>3, <1>4, <1>5, <1>6, <1>7

\* While the server is up no step gives a contest statistics that are not its own, or
\* that it was not run for: a session hands over those of the copy it played, while
\* others set contests and add to them at the same time (ContestServer.cpp:203-231 and
\* 268-271).
THEOREM StatsBelong == Spec => StatsAreOfTheContest
<1>1. WellTyped /\ Recorded /\ [Next]_vars =>
        [process = "up" /\ process' = "up" =>
           \A i \in DOMAIN contests' :
              (i \in DOMAIN contests => Own(contests[i])) => Own(contests'[i])]_vars
  <2> SUFFICES ASSUME WellTyped, Recorded, [Next]_vars, process = "up", process' = "up",
                      NEW i \in DOMAIN contests', i \in DOMAIN contests => Own(contests[i])
               PROVE  Own(contests'[i])
    OBVIOUS
  <2>1. contests \in ContestsTo(restarts) /\ restarts \in Nat
    BY BoundsAreNaturals DEF WellTyped, BanksOK
  <2>2. CASE UNCHANGED contests
    BY <2>2
  <2>3. ASSUME NEW c \in Clients, SetsContest(c) \/ AddsQuestion(c) PROVE Own(contests'[i])
    <3>1. PICK id, q : id = req[c].c /\ q = req[c].q
      OBVIOUS
    <3>2. \/ UNCHANGED contests
          \/ id \notin DOMAIN contests /\ contests' = With(contests, id, NewContest)
          \/ contests' = [contests EXCEPT ![id].qs = With(contests[id].qs, q, 0)]
          \/ contests' = [contests EXCEPT ![id].qs = contests[id].qs]
      BY <2>3, <3>1 DEF SetsContest, AddsQuestion
    <3>3. QED
      BY <2>1, <2>2, <3>2, OwnKept
  <2>4. ASSUME NEW s \in Sessions, SetsRun(s) \/ SetsStats(s) PROVE Own(contests'[i])
    <3>1. PICK id, S : id = playing[s].c /\ S = playing[s].on
      OBVIOUS
    <3>2. CASE SetsRun(s)
      <4>1. contests' = [contests EXCEPT ![id].run = TRUE]
        BY <3>1, <3>2 DEF SetsRun
      <4>2. QED
        BY <2>1, <4>1, OwnKept
    <3>3. CASE SetsStats(s)
      <4>1. S \subseteq DOMAIN contests[id].qs /\ contests[id].run
        BY <3>1, <3>3 DEF SetsStats, Recorded, Played, InPlay
      <4>2. contests' = [contests EXCEPT ![id].stats = S]
        BY <3>1, <3>3 DEF SetsStats
      <4>3. QED
        <5>1. contests' = [contests EXCEPT ![id].stats = S]
              /\ (id \in DOMAIN contests => S \subseteq DOMAIN contests[id].qs /\ contests[id].run)
          BY <4>1, <4>2
        <5>2. QED
          BY <2>1, <5>1, OwnKept
    <3>4. QED
      BY <2>4, <3>2, <3>3
  <2>5. ~Restarts
    BY DEF Restarts
  <2>6. QED
    BY <2>2, <2>3, <2>4, <2>5, Steps DEF Quiet, Dies, Saves, Opens, CopiesQuestion, CopiesContest,
       CopiesStats, Flushes, PostsQuestion, DeletesQuestion, memory
<1>2. QED
  BY <1>1, InitTyped, NextTyped, InitRecorded, RecordedStep, PTL DEF Spec, StatsAreOfTheContest
=============================================================================
