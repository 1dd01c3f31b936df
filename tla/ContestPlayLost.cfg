\* One client.
CONSTANTS
  c1 = c1
  c2 = c2
  Conns = {c1}
  Nicks = {1, 2}
  NumQuestions = 1
  Choices = {"a", "b"}
  Solution <- MCSolution
  Scripts <- RunOnly
  Faults = {}
  Quitters = {}
SPECIFICATION PlaySpec
INVARIANT NobodyWaitsInVain
