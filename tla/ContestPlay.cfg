\* Two clients for two names, two questions, one of them may be interrupted.
CONSTANTS
  c1 = c1
  c2 = c2
  Conns = {c1, c2}
  Nicks = {1, 2}
  NumQuestions = 2
  Choices = {"a", "b"}
  Solution <- MCSolution
  Scripts <- RunOnly
  Faults = {}
  Quitters = {c2}
SPECIFICATION FairPlay
\* A session whose client lost its question waits for ever.
CHECK_DEADLOCK FALSE
INVARIANTS PlayTypeOK InStep NeverConfused NameIsMine ShowsWhatItWasTold
PROPERTY PlayedOut
