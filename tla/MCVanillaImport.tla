--------------------------- MODULE MCVanillaImport ---------------------------
EXTENDS VanillaImport, TLC

CONSTANTS m1, m2, a1, a2

Users == 1..4

\* Users 1 and 2 are one member, found by handle and by email.  Reply r of the
\* first discussion is by user r + 1; `lost` is the user nobody is found for.
MembersFound(lost) ==
    [byHandle |-> [u \in Users |-> CASE u = lost -> NoMember
                                     [] u = 1 -> m1 [] u = 2 -> NoMember
                                     [] OTHER -> m2],
     byEmail |-> [u \in Users |-> IF u = 2 /\ u # lost THEN m1 ELSE NoMember]]

\* Three replies of discussion 1 with any parents: the topic, one another,
\* themselves, or a reply of another discussion.
Parents == [1..3 -> {Root, 1, 2, 3, 4}]

RepliesWith(parents) ==
    [r \in 1..4 |-> [discussion |-> IF r = 4 THEN 2 ELSE 1,
                     parent |-> IF r = 4 THEN Root ELSE parents[r],
                     actor |-> IF r = 4 THEN 1 ELSE r + 1]]

UserDiscussion(d, u, b, t) ==
    [discussion |-> d, actor |-> u, bookmarked |-> b, readAt |-> t]

Source(parents, lost, fate, readAt) ==
    [discussions |-> <<[challenge |-> "live", actor |-> 1],
                       [challenge |-> fate, actor |-> 4]>>,
     replies |-> RepliesWith(parents),
     byHandle |-> MembersFound(lost).byHandle,
     byEmail |-> MembersFound(lost).byEmail,
     userDiscussions |-> <<UserDiscussion(1, 1, TRUE, readAt[1]),
                           UserDiscussion(1, 2, TRUE, readAt[2]),
                           UserDiscussion(2, 4, TRUE, 1)>>,
     banned |-> {1, 2, 4},
     rules |-> <<NonExact, a1, a1>>]

Chain == <<Root, 1, 2>>

\* Every graph of replies, with every member found or one of the authors lost;
\* and for one graph every order of the read times, and a second discussion
\* that is imported.
MCSources ==
    {Source(p, lost, "missing", <<1, 2>>) : p \in Parents, lost \in {0, 3}}
    \cup {Source(Chain, lost, fate, <<t1, t2>>) :
             lost \in {0, 1, 2, 4}, fate \in {"live", "none", "missing"},
             t1 \in 0..2, t2 \in 1..2}
=============================================================================
