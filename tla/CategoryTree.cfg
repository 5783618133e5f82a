\* A category in a container, with threads, roles and a guest.
SPECIFICATION Spec
CONSTANTS
  None = None  Omitted = Omitted
  admin = admin  guest = guest  alice = alice  bob = bob  carol = carol  bot = bot
  red = red  green = green  c1 = c1  t1 = t1  t2 = t2  t3 = t3  t4 = t4
  Topics = {t1, t2, t3, t4}
  Roles = {red}
  Challenges = {}
  Actors = {admin, guest, alice, bot}
  Requests = {q1}
  Commands = {"createChild", "update", "softDelete"}
  Principal <- MCPrincipal
  Facts <- MCFacts
  Category <- TwoCategories
  CategoryParent <- TwoCategoryParents
SYMMETRY TreeSymmetry
INVARIANTS ThreadsAreLeaves VisibilityMonotone CatalogAgreesWithDetail
