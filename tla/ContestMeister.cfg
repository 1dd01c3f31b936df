\* Two programs with two requests each, started again with the server once.
CONSTANTS
  m1 = m1
  m2 = m2
  Clients = {m1, m2}
  Sessions = {}
  QIds = {1, 2}
  CIds = {1}
  FirstBook = {2}
  Dotted = {2}
  Requests <- NoRequest
  MaxRequests = 2
  MaxRestarts = 1
  Mishaps = {"leave"}
  Lines <- TwoUsers
SPECIFICATION FairMeister
\* A program whose input has ended, and a server that waits.
CHECK_DEADLOCK FALSE
INVARIANTS MeisterTypeOK AnswersMatch ToldIsMade
PROPERTY NeverLeftWaiting ThreadsEnd KillStops SurvivesRestart
