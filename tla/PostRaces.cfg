\* Two requests race over one post and its topic.
SPECIFICATION Spec
CONSTANTS
  None = None  Omitted = Omitted
  admin = admin  alice = alice  bob = bob  red = red  c1 = c1
  t1 = t1  t2 = t2  p1 = p1  p2 = p2  p3 = p3
  Topics = {t1}
  Posts = {p1}
  Contents = {x, y}
  Actors = {admin, bob}
  Requests = {q1, q2}
  Commands = {"create", "update", "delete", "react", "unreact"}
  Principal <- MCPrincipal
  Restriction <- MCRestriction
  Acl <- MCAcl
  Facts <- MCFacts
SYMMETRY ThreadSymmetry
PROPERTIES ImplementsThread 
