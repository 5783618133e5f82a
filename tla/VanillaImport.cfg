\* The challenge import over every graph of three replies, with two faults.
SPECIFICATION Spec
CONSTANTS
  Sources <- MCSources
  NoMember = NoMember
  NonExact = NonExact
  Root = Root
  MaxRuns = 2
  MaxFaults = 2
  m1 = m1
  m2 = m2
  a1 = a1
  a2 = a2
CHECK_DEADLOCK FALSE
INVARIANTS
  RepliesKeepTheirPlace
  NothingImportedTwice
  EachRowCountedOnce
  
  LatestReadStateWins

  
