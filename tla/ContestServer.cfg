\* Two clients that change the banks, two sessions, everything that may go wrong.
CONSTANTS
  m1 = m1
  m2 = m2
  s1 = s1
  s2 = s2
  Clients = {m1, m2}
  Sessions = {s1, s2}
  QIds = {1}
  CIds = {1}
  FirstBook = {1}
  Dotted = {}
  Requests <- Anything
  MaxRequests = 2
  MaxRestarts = 1
  Mishaps = {"leave", "reset", "garble", "session", "crash"}
SPECIFICATION Spec
SYMMETRY Symmetry
CONSTRAINT OneMishap
\* A server whose clients have nothing left to ask waits for the next one.
CHECK_DEADLOCK FALSE
INVARIANTS TypeOK WrittenThrough
PROPERTY StatsAreOfTheContest ContestsOnlyGrow SurvivesRestart
