\* Two requests race over a topic and its child.
SPECIFICATION Spec
CONSTANTS
  None = None  Omitted = Omitted
  admin = admin  guest = guest  alice = alice  bob = bob  carol = carol  bot = bot
  red = red  green = green  c1 = c1  t1 = t1  t2 = t2  t3 = t3  t4 = t4
  Topics = {t1, t2}
  Roles = {red, green}
  Challenges = {}
  Actors = {admin, alice, bob}
  Requests = {q1, q2}
  Commands = {"createChild", "update", "softDelete"}
  Principal <- MCPrincipal
  Facts <- MCFacts
  Category <- NoCategories
  CategoryParent <- NoCategories
SYMMETRY TreeSymmetry
INVARIANTS VisibilityMonotone ListsAgreeWithDetail
 
