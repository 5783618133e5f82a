---------------------------- MODULE MCTopicTree ----------------------------
(***************************************************************************)
(* Instances of TopicTree and TopicReads for TLC.                          *)
(***************************************************************************)
EXTENDS TopicReads, TLC

CONSTANTS admin, guest, alice, bob, carol, bot,   \* actors
          red, green,                      \* roles
          c1,                              \* challenge
          t1, t2, t3, t4                   \* topics

Human(a, roles) == [id |-> a, machine |-> FALSE, admin |-> FALSE,
                    roles |-> roles \cap Roles, forumRoles |-> {}]

\* An administrator, a guest, a member with one role, challenge copilots with
\* both and with none, and a machine.
People == (admin :> [Human(admin, {}) EXCEPT !.admin = TRUE])
       @@ (guest :> Human(None, {}))
       @@ (alice :> Human(alice, {red}))
       @@ (bob :> Human(bob, {red, green}))
       @@ (carol :> Human(carol, {}))
       @@ (bot :> [Human(None, {}) EXCEPT !.machine = TRUE])

MCPrincipal == [a \in Actors |-> People[a]]

\* bob and carol are copilots of every challenge; alice is one of its members.
MCFacts == [x \in Actors \X (Challenges \cup {None}) |->
  [configured |-> TRUE, exists |-> x[2] # None,
   copilot |-> x[1] \in {bob, carol} /\ x[2] # None,
   member |-> x[1] = alice /\ x[2] # None,
   resource |-> x[1] \in {bob, carol} /\ x[2] # None,
   fullRead |-> FALSE, fullWrite |-> FALSE]]

NoCategories == [c \in {} |-> None]

\* A container open to everyone and a discussion category for members of it.
TwoCategories ==
     (t1 :> [read |-> {"$authenticated"}, create |-> {},
             reply |-> {"$authenticated"}, discussions |-> FALSE])
  @@ (t2 :> [read |-> {"$public"}, create |-> {"$authenticated"},
             reply |-> {"$authenticated"}, discussions |-> TRUE])

TwoCategoryParents == (t1 :> None) @@ (t2 :> t1)

\* Requests are interchangeable, and so are topic ids that are no category.
TreeSymmetry ==
  Permutations(Requests) \cup Permutations(Topics \ DOMAIN Category)

\* So are the roles where no actor has one of them without the other.
RoleSymmetry == TreeSymmetry \cup Permutations(Roles)
=============================================================================
