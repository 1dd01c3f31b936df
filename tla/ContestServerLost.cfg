\* One client that posts a second question, and a crash.
CONSTANTS
  m1 = m1
  m2 = m2
  s1 = s1
  s2 = s2
  Clients = {m1}
  Sessions = {s1}
  QIds = {1, 2}
  CIds = {1}
  FirstBook = {1}
  Dotted = {}
  Requests <- Posts
  MaxRequests = 1
  MaxRestarts = 1
  Mishaps = {"crash"}
SPECIFICATION Spec
\* A server whose clients have nothing left to ask waits for the next one.
CHECK_DEADLOCK FALSE
PROPERTY NoDataLoss
