\* Three calls of two members on one topic.
SPECIFICATION Spec
CONSTANTS
  Members = {m1, m2}
  Author = m1
  System = System
  Calls = {c1, c2, c3}
  Starter = Starter
  MaxClock = 3
SYMMETRY Symmetry
CHECK_DEADLOCK FALSE
INVARIANTS
  ReadStaysRead
  NewPostsAreUnread
  UnreadFlagsAgree
PROPERTIES
  MarksGoBackOnlyByOverlap
