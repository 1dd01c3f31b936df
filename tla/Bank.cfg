SPECIFICATION Spec
CONSTANTS
  MaxNumber = 9
  Word <- MCWord
  QIds = {1, 2}
  CIds = {3, 4}
  Posted <- MCPosted
  Counts = {0, 1}
  MaxChanges = 5
  MaxStarts = 2
INVARIANTS BankTypeOK WholeBookLoads CutBookLoadsInPart WholeContestsLoad CutContestsLoadWhole
CHECK_DEADLOCK FALSE
