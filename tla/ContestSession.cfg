\* Two contestants, two questions, every fault.
CONSTANTS
  c1 = c1
  c2 = c2
  Conns = {c1, c2}
  Nicks = {1, 2}
  NumQuestions = 2
  Choices = {"a", "b"}
  Solution <- MCSolution
  Scripts <- RunAndMisuse
  Faults = {"leave", "reset", "garble", "accept"}
SPECIFICATION Spec
SYMMETRY Symmetry
INVARIANTS TypeOK OneReaderPerConnection MaxIsBestScore StatsInvented
           ResultsAddUp ResultsAgree LockStep
PROPERTY RosterFrozen PlaysTheContest
