\* One request at a time over trees of depth three, with challenge topics.
SPECIFICATION Spec
CONSTANTS
  None = None  Omitted = Omitted
  admin = admin  guest = guest  alice = alice  bob = bob  carol = carol  bot = bot
  red = red  green = green  c1 = c1  t1 = t1  t2 = t2  t3 = t3  t4 = t4
  Topics = {t1, t2, t3}
  Roles = {red, green}
  Challenges = {c1}
  Actors = {admin, carol}
  Requests = {q1}
  Commands = {"createChild", "update", "softDelete", "lock", "unlock"}
  Principal <- MCPrincipal
  Facts <- MCFacts
  Category <- NoCategories
  CategoryParent <- NoCategories
SYMMETRY RoleSymmetry
INVARIANTS ClosureExact NoRoleConflict ChallengeTopicsStandAlone ListsAgreeWithDetail
PROPERTIES RolesOnlyTighten LockedRejectsMutation
