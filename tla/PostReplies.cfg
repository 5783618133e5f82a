\* One request at a time replies, edits and deletes in two topics.
SPECIFICATION Spec
CONSTANTS
  None = None  Omitted = Omitted
  admin = admin  alice = alice  bob = bob  red = red  c1 = c1
  t1 = t1  t2 = t2  p1 = p1  p2 = p2  p3 = p3
  Topics = {t1, t2}
  Posts = {p1, p2}
  Contents = {x, y}
  Actors = {admin, alice, bob}
  Requests = {q1}
  Commands = {"create", "update", "delete"}
  Principal <- MCPrincipal
  Restriction <- MCRestriction
  Acl <- MCAcl
  Facts <- MCFacts
SYMMETRY ThreadSymmetry
INVARIANT EveryPostIsReached
PROPERTIES OnlyAuthorizedEdits
