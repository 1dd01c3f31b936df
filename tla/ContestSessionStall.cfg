\* A contestant that connects and says nothing.
CONSTANTS
  c1 = c1
  c2 = c2
  Conns = {c1}
  Nicks = {1}
  NumQuestions = 1
  Choices = {"a", "b"}
  Solution <- MCSolution
  Scripts <- RunOnly
  Faults = {}
SPECIFICATION LiveSpec
PROPERTY StartsAfterWindow
