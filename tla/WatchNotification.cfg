\* Posts on a watched challenge topic and on the child of a watched topic.
SPECIFICATION FairSpec
CONSTANTS
  None = None  Omitted = Omitted
  alice = alice  bob = bob  carol = carol  dan = dan  erin = erin
  red = red  c1 = c1  t1 = t1  t2 = t2  t3 = t3
  Members = {alice, bob, carol, dan, erin}
  Topics = {t1, t2, t3}
  Challenges = {c1}
  Chain <- MCChain
  Default <- MCDefault
  HasEmail = {alice, bob, carol, dan}
  Principal <- MCPrincipal
  Restriction <- MCRestriction
  Acl <- MCAcl
  Facts <- MCFacts
  Concurrency = 2
  Posting = {t2, t3}
  Authors = {bob}
  Commands <- MCCommands
  Bannable = {alice}
INVARIANTS TypeOK PoolTakesEachOnce RecipientsAreRight
PROPERTY EveryNotificationEnds
