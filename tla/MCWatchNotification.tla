------------------------- MODULE MCWatchNotification -------------------------
(* An instance of WatchNotification for TLC: a general topic, its child    *)
(* with a role restriction, and a topic of a challenge.                    *)
EXTENDS WatchNotification

CONSTANTS alice, bob, carol, dan, erin,   \* members
          red,                      \* role
          c1,                       \* challenge
          t1, t2, t3                \* topics

\* bob is the copilot of the challenge, alice, dan and erin submit, carol may
\* see it only; dan lacks the role that the topic of the challenge asks for
MCPrincipal == [m \in Members |->
  [id |-> m, machine |-> FALSE, admin |-> FALSE,
   roles |-> IF m # dan THEN {red} ELSE {}, forumRoles |-> {}]]

MCRestriction == [t \in Topics |->
  [challenge |-> IF t = t3 THEN c1 ELSE None,
   role |-> IF t # t1 THEN red ELSE None, conflict |-> FALSE]]

MCChain == [t \in Topics |-> IF t = t2 THEN {t1, t2} ELSE {t}]

MCAcl == [t \in Topics |-> NoAcl]

MCFacts == [x \in Members \X Challenges |->
  [configured |-> TRUE, exists |-> TRUE, copilot |-> x[1] = bob,
   member |-> TRUE, resource |-> x[1] # carol,
   fullRead |-> FALSE, fullWrite |-> FALSE]]

MCDefault == [c \in Challenges |-> Members \ {carol}]

\* alice opts out of what she is given, of her forum or of its topic only, and
\* watches the topic again; carol opts in
MCCommands ==
  {alice} \X ([op: {"watch", "unwatch"}, of: {t3}]
                \cup [op: {"unfollow"}, of: {c1}]
                \cup [op: {"watch"}, of: {t1}])
    \cup {<<carol, [op |-> "follow", of |-> c1]>>}
=============================================================================
