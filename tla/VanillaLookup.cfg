\* One run of the challenge import in which one lookup fails.
SPECIFICATION Spec
CONSTANTS
  Sources <- MCSources
  NoMember = NoMember
  NonExact = NonExact
  Root = Root
  MaxRuns = 1
  MaxFaults = 1
  m1 = m1
  m2 = m2
  a1 = a1
  a2 = a2
CHECK_DEADLOCK FALSE
INVARIANTS
  EveryReplyIsReported
