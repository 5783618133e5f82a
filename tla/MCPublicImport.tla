---------------------------- MODULE MCPublicImport ----------------------------
EXTENDS PlannedImport, TLC, Sequences, SequencesExt

CONSTANTS m1, m2

Category(parent, code, group, container, perm) ==
    [parent |-> parent, code |-> code, group |-> group, container |-> container,
     forum |-> "other", permissionCategory |-> perm, user |-> 1, text |-> "t"]

Discussion(c, u, text) ==
    [category |-> c, user |-> u, text |-> text, group |-> Nothing]

Comment(d, parent, u) ==
    [discussion |-> d, parent |-> parent, user |-> u, text |-> "t"]

Roles == <<[type |-> "guest", name |-> ""], [type |-> "local", name |-> ""],
           [type |-> "topcoder", name |-> "copilot"]>>

\* User 1 is member m1, user 2 nobody's.  A private category, the challenge
\* subtree, and a discussion with a comment in each.
Base ==
    [categories |-> <<Category(TopLevel, "a", Nothing, FALSE, 2),
                      Category(TopLevel, "challenges-forums", Nothing, TRUE, 1)>>,
     roles |-> Roles,
     permissions |-> {[category |-> 1, field |-> "view", role |-> 1],
                      [category |-> 2, field |-> "view", role |-> 2],
                      [category |-> 2, field |-> "add", role |-> 2],
                      [category |-> 2, field |-> "reply", role |-> 3]},
     members |-> <<m1, Nothing>>,
     memberships |-> {<<2, 1>>, <<2, 2>>},
     discussions |-> (1 :> Discussion(1, 1, "t") @@ 2 :> Discussion(2, 1, "t")),
     comments |-> (1 :> Comment(1, Nothing, 2) @@ 2 :> Comment(2, Nothing, 1)),
     states |-> {[topic |-> Thread(1), user |-> 1, watch |-> TRUE, read |-> 5],
                 [topic |-> Thread(1), user |-> 2, watch |-> TRUE, read |-> 4]},
     media |-> {}]

\* What may happen to Vanilla and the members between two runs.
Later ==
    {[Base EXCEPT !.discussions = @ @@ 3 :> Discussion(1, 2, "t")],
     [Base EXCEPT !.discussions[1].text = "edited"],
     [Base EXCEPT !.comments[1].parent = 1],
     [Base EXCEPT !.members = <<m1, m2>>],
     [Base EXCEPT !.members = <<m1, m1>>],
     [Base EXCEPT !.members = <<Nothing, m1>>],
     [Base EXCEPT !.states = @ \cup {[topic |-> CategoryTopic(1), user |-> 1,
                                      watch |-> TRUE, read |-> Nothing]}]}

MCSnapshots == <<Base>> \o SetToSeq(Later)
MCSources == 1..Len(MCSnapshots)
MCFirst == 1
MCVanillaAt(i) == MCSnapshots[i]

PlanTable == [i \in MCSources |->
                 IF IsRejected(MCSnapshots[i]) THEN {} ELSE RowsOf(MCSnapshots[i])]
MCPlan(i) == PlanTable[i]
MCThrows(i) == PlanTable[i] = {}

WatchKey(t) == <<"TopicWatch", <<t, m1>>>>
MCStateKeys == {WatchKey(Thread(1)), WatchKey(CategoryTopic(1))}
MCUserKeys == MCStateKeys \cup {<<"Topic", Thread(1)>>}

\* A container, a private category in it, and the challenge subtree.
Categories == <<Category(TopLevel, "a", Nothing, TRUE, 1),
                Category(1, "b", Nothing, FALSE, 2),
                Category(TopLevel, "challenges-forums", Nothing, TRUE, 1),
                Category(3, "c", Nothing, FALSE, 1)>>

\* Trees of categories and of comments of any shape, for the plan alone.
Shapes ==
    {[Base EXCEPT !.categories = <<
         Category(p[1], "a", Nothing, FALSE, 1),
         Category(p[2], "b", g, FALSE, 2),
         Category(p[3], code, Nothing, FALSE, 1)>>,
         !.discussions = (1 :> Discussion(3, 1, "t") @@ 2 :> Discussion(1, 1, "t")),
         !.comments = 1 :> Comment(1, Nothing, 1)] :
        p \in [1..3 -> {TopLevel, Nothing, 1, 2, 3}], g \in {Nothing, 7},
        code \in {"c", "groups", "challenges-forums"}}
    \cup
    {[Base EXCEPT !.categories = Categories,
                  !.discussions = (1 :> Discussion(2, 1, "t")
                                   @@ 2 :> Discussion(2, 1, "t")),
                  !.comments = [k \in 1..3 |->
                                  Comment(IF k = 3 THEN 2 ELSE 1, q[k], 1)]] :
        q \in [1..3 -> {Nothing, 1, 2, 3, 4}]}

\* The sources of the runs and the shapes.
MCAllSnapshots == Shapes \cup Range(MCSnapshots)

Symmetry == Permutations(Runs)
===============================================================================
