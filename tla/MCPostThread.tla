---------------------------- MODULE MCPostThread ----------------------------
(* An instance of PostThread for TLC: a topic of a challenge and a general *)
(* topic.                                                                  *)
EXTENDS PostThread, TLC

CONSTANTS admin, alice, bob,   \* actors
          red,                 \* role
          c1,                  \* challenge
          t1, t2, p1, p2, p3   \* topics and posts

Human(a, isAdmin) == [id |-> a, machine |-> FALSE, admin |-> isAdmin,
                      roles |-> {}, forumRoles |-> {}]

\* An administrator, a challenge member and a challenge copilot
MCPrincipal == [a \in Actors |-> Human(a, a = admin)]

MCRestriction == [t \in Topics |->
  [challenge |-> IF t = t1 THEN c1 ELSE None, role |-> None,
   conflict |-> FALSE]]

MCAcl == [t \in Topics |-> NoAcl]

MCFacts == [x \in Actors \X Topics |->
  [configured |-> TRUE, exists |-> x[2] = t1,
   copilot |-> x[1] = bob /\ x[2] = t1, member |-> x[1] = alice /\ x[2] = t1,
   resource |-> x[1] = bob /\ x[2] = t1,
   fullRead |-> FALSE, fullWrite |-> FALSE]]

ThreadSymmetry ==
  Permutations(Requests) \cup Permutations(Posts) \cup Permutations(Contents)
=============================================================================
