------------------------------ MODULE PublicPlan ------------------------------
(***************************************************************************)
(* What the public import plans to insert for a snapshot of Vanilla        *)
(* (publicCategories and planPublicImport): which categories are public,   *)
(* who may read and write in them, and one row for every topic, post,      *)
(* closure pair, role member, watch and read state.  A snapshot the code   *)
(* throws for has no plan.                                                 *)
(*                                                                         *)
(* A snapshot is a record of functions from Vanilla ids to rows.  Texts,   *)
(* dates and titles of a row are one value, its `text`.                    *)
(***************************************************************************)
EXTENDS Naturals, FiniteSets

CONSTANTS TopLevel,   \* the category -1 above all others
          Nothing,    \* a null parent, group, date or member
          BadText,    \* a text in a format that is not supported
          Snapshots   \* the states of Vanilla that plans are made of

-----------------------------------------------------------------------------
(* Categories.                                                             *)

IsExcluded(cat) ==
    cat.group # Nothing \/ cat.code \in {"challenges-forums", "groups"}

\* The walk from a category to the top stops at an excluded one.
StepUp(s, c) ==
    IF c \in DOMAIN s.categories /\ ~IsExcluded(s.categories[c])
    THEN s.categories[c].parent ELSE c

Walk(s, c) ==
    LET at[n \in Nat] == IF n = 0 THEN c ELSE StepUp(s, at[n - 1])
    IN  at

EndOfWalk(s, c) == Walk(s, c)[Cardinality(DOMAIN s.categories)]

\* Mutant: only the category itself is looked at, not the ones above it.
IsPublicByItself(s, c) == ~IsExcluded(s.categories[c])

IsPublic(s, c) == EndOfWalk(s, c) = TopLevel

PublicCategories(s) == {c \in DOMAIN s.categories : IsPublic(s, c)}

\* A walk that neither reaches the top nor an excluded category is cyclic or
\* leads to a parent nobody knows.
CategoriesAreBroken(s) ==
    \E c \in DOMAIN s.categories :
        /\ s.categories[c].code # "groups"
        /\ EndOfWalk(s, c) # TopLevel
        /\ EndOfWalk(s, c) \in DOMAIN s.categories
           => ~IsExcluded(s.categories[EndOfWalk(s, c)])

Public == <<"role", "$public">>
Authenticated == <<"role", "$authenticated">>

RoleName(s, r) ==
    CASE s.roles[r].type = "guest"    -> Public
      [] s.roles[r].type = "user"     -> Authenticated
      [] s.roles[r].type = "topcoder" -> <<"role", s.roles[r].name>>
      [] OTHER                        -> <<"vanilla-role", r>>

Granted(s, c, field) ==
    {RoleName(s, p.role) : p \in {q \in s.permissions :
         q.category = s.categories[c].permissionCategory /\ q.field = field}}

IsOpen(s, c) ==
    Granted(s, c, "view") \cap {Public, Authenticated} # {}

\* Ordinary categories reopen for every member; the two review forums have
\* roles of their own; a container of categories takes no threads.
ReadRoles(s, c) ==
    IF s.categories[c].forum \in {"copilot", "reviewer"}
    THEN {<<"role", s.categories[c].forum>>} ELSE Granted(s, c, "view")

WriteRoles(s, c, field) ==
    IF s.categories[c].forum \in {"copilot", "reviewer"}
    THEN {<<"role", s.categories[c].forum>>}
    ELSE IF IsOpen(s, c) THEN {Authenticated} ELSE Granted(s, c, field)

CreateRoles(s, c) ==
    IF s.categories[c].container THEN {} ELSE WriteRoles(s, c, "add")

-----------------------------------------------------------------------------
(* Members and rows.                                                       *)

Users(s) == DOMAIN s.members

IsMapped(s, u) == u \in Users(s) /\ s.members[u] # Nothing

\* An unmapped author keeps an identity nobody can log in with.
Author(s, u) == IF IsMapped(s, u) THEN <<"member", s.members[u]>>
                                  ELSE <<"vanilla", u>>

Entry(table, type, id, key, row) ==
    [key |-> <<table, key>>, name |-> <<type, id>>, row |-> row]

CategoryTopic(c) == <<"category", c>>
Thread(d) == <<"discussion", d>>

ParentTopic(s, t) ==
    IF t[1] = "discussion" THEN CategoryTopic(s.discussions[t[2]].category)
    ELSE IF s.categories[t[2]].parent = TopLevel THEN Nothing
    ELSE CategoryTopic(s.categories[t[2]].parent)

\* The discussions and comments the queries select.
Discussions(s) ==
    {d \in DOMAIN s.discussions : s.discussions[d].category \in PublicCategories(s)}
Comments(s) ==
    {k \in DOMAIN s.comments : s.comments[k].discussion \in Discussions(s)}

Topics(s) == {CategoryTopic(c) : c \in PublicCategories(s)}
             \cup {Thread(d) : d \in Discussions(s)}

TopicRow(s, t, user, text) ==
    [parent |-> ParentTopic(s, t), author |-> Author(s, user), text |-> text]

CategoryTopicEntries(s) ==
    {Entry("Topic", "category-topic", c, CategoryTopic(c),
           TopicRow(s, CategoryTopic(c), s.categories[c].user,
                    s.categories[c].text)) : c \in PublicCategories(s)}

ThreadEntries(s) ==
    {Entry("Topic", "discussion", d, Thread(d),
           TopicRow(s, Thread(d), s.discussions[d].user,
                    s.discussions[d].text)) : d \in Discussions(s)}

CategoryEntries(s) ==
    {Entry("PublicForumCategory", "category", c, CategoryTopic(c),
           [read |-> ReadRoles(s, c), create |-> CreateRoles(s, c),
            reply |-> WriteRoles(s, c, "reply")]) : c \in PublicCategories(s)}

\* The post of comment k, below the comment it answers or its topic.
CommentParent(s, k) ==
    IF s.comments[k].parent \in DOMAIN s.comments
    THEN <<"comment", s.comments[k].parent>>
    ELSE Thread(s.comments[k].discussion)

PostRow(s, d, parent, x) ==
    [topic |-> Thread(d), parent |-> parent, author |-> Author(s, x.user),
     text |-> x.text]

StarterEntries(s) ==
    {Entry("Post", "starter", d, <<"starter", d>>,
           PostRow(s, d, Thread(d), s.discussions[d])) : d \in Discussions(s)}

CommentEntries(s) ==
    {Entry("Post", "comment", k, <<"comment", k>>,
           PostRow(s, s.comments[k].discussion, CommentParent(s, k),
                   s.comments[k])) : k \in Comments(s)}

\* Mutant: the walk up ends at the parent.
DepthsToParent(s, t) ==
    {<<t, 0>>} \cup (IF ParentTopic(s, t) = Nothing THEN {}
                     ELSE {<<ParentTopic(s, t), 1>>})

\* The topic and its ancestors, and Nothing above them.
Lineage(s, t) ==
    LET up[n \in Nat] ==
            IF n = 0 THEN t
            ELSE IF up[n - 1] = Nothing THEN Nothing
            ELSE ParentTopic(s, up[n - 1])
    IN  up

\* The topic and its ancestors, with their distance.
Depths(s, t) ==
    {<<Lineage(s, t)[n], n>> :
        n \in {m \in 0..Cardinality(Topics(s)) : Lineage(s, t)[m] # Nothing}}

ClosureEntries(s) ==
    {Entry("TopicClosure", "closure", <<p[1], p[2][1]>>, <<p[2][1], p[1]>>,
           [ancestor |-> p[2][1], descendant |-> p[1], depth |-> p[2][2]]) :
        p \in UNION {{<<t, a>> : a \in Depths(s, t)} : t \in Topics(s)}}

UsedRoles(s) ==
    UNION {ReadRoles(s, c) \cup CreateRoles(s, c) \cup WriteRoles(s, c, "reply") :
              c \in PublicCategories(s)}

RoleMemberEntries(s) ==
    {Entry("PublicForumRoleMember", "role-member", m,
           <<<<"vanilla-role", m[1]>>, s.members[m[2]]>>,
           [role |-> <<"vanilla-role", m[1]>>, member |-> s.members[m[2]]]) :
        m \in {x \in s.memberships :
                  /\ s.roles[x[1]].type = "local"
                  /\ <<"vanilla-role", x[1]>> \in UsedRoles(s)
                  /\ IsMapped(s, x[2])}}

\* Bookmarks and follows become watches, dates become read states.
States(s) ==
    {w \in s.states : IsMapped(s, w.user) /\ w.topic \in Topics(s)}

StateEntries(s) ==
    {Entry("TopicWatch", "watch", <<w.topic, w.user>>,
           <<w.topic, s.members[w.user]>>,
           [watched |-> w.read]) : w \in {x \in States(s) : x.watch}}
    \cup
    {Entry("TopicReadState", "read", <<w.topic, w.user>>,
           <<w.topic, s.members[w.user]>>,
           [readAt |-> w.read]) : w \in {x \in States(s) : x.read # Nothing}}

-----------------------------------------------------------------------------
(* Snapshots the code throws for, and the plan of the others.              *)

RolesAreMissing(s) ==
    \E p \in s.permissions, c \in PublicCategories(s) :
        /\ p.category = s.categories[c].permissionCategory
        /\ p.role \notin DOMAIN s.roles

CommentIsOrphan(s, k) ==
    LET p == s.comments[k].parent IN
    /\ p # Nothing
    /\ \/ p \notin Comments(s)
       \/ s.comments[p].discussion # s.comments[k].discussion

\* Going up from a comment one comes back to it, or round a loop.
CommentsAreCyclic(s) ==
    \E S \in SUBSET Comments(s) :
        S # {} /\ \A k \in S : s.comments[k].parent \in S

MediaIsReferenced(s) == s.media \cap (Discussions(s) \cup Comments(s)) # {}

IsRejected(s) ==
    \/ CategoriesAreBroken(s)
    \/ PublicCategories(s) = {}
    \/ RolesAreMissing(s)
    \/ \E d \in Discussions(s) :
          s.discussions[d].group # Nothing \/ s.discussions[d].text = BadText
    \/ \E k \in Comments(s) : CommentIsOrphan(s, k) \/ s.comments[k].text = BadText
    \/ CommentsAreCyclic(s)
    \/ MediaIsReferenced(s)

RowsOf(s) ==
    CategoryTopicEntries(s) \cup CategoryEntries(s) \cup ThreadEntries(s)
    \cup StarterEntries(s) \cup CommentEntries(s) \cup ClosureEntries(s)
    \cup RoleMemberEntries(s) \cup StateEntries(s)

-----------------------------------------------------------------------------
(* What a plan must be, by definitions of their own.                       *)

Marked(s) == {c \in DOMAIN s.categories : IsExcluded(s.categories[c])}

\* A set of categories that contains the marked ones and every child of its
\* members.
IsSubtree(s, S) ==
    /\ Marked(s) \subseteq S
    /\ \A c \in DOMAIN s.categories : s.categories[c].parent \in S => c \in S

\* The categories planned are those outside the least such set: nothing below
\* a challenge or group category is published, and nothing else is left out.
KeepsOut(s) ==
    \E S \in SUBSET DOMAIN s.categories :
        /\ IsSubtree(s, S)
        /\ \A T \in SUBSET S : IsSubtree(s, T) => T = S
        /\ {e.name[2] : e \in CategoryEntries(s)} = DOMAIN s.categories \ S

\* Every post hangs below its topic or a planned post of the same topic, every
\* thread and category below a planned category, and the closure rows of a
\* topic are those of its parent, one deeper, and its own.
IsConnected(s) ==
    LET plan == RowsOf(s)
        topics == {e \in plan : e.key[1] = "Topic"}
        posts == {e \in plan : e.key[1] = "Post"}
        above(t) == {<<e.row.ancestor, e.row.depth>> :
                        e \in {c \in plan : /\ c.key[1] = "TopicClosure"
                                            /\ c.row.descendant = t}}
    IN  /\ \A e \in topics :
              IF e.row.parent = Nothing THEN above(e.key[2]) = {<<e.key[2], 0>>}
              ELSE /\ \E c \in plan : /\ c.key[1] = "PublicForumCategory"
                                      /\ c.key[2] = e.row.parent
                   /\ above(e.key[2]) = {<<e.key[2], 0>>} \cup
                         {<<a[1], a[2] + 1>> : a \in above(e.row.parent)}
        /\ \A e \in posts :
              /\ \E t \in topics : t.key[2] = e.row.topic
              /\ \/ e.row.parent = e.row.topic
                 \/ \E p \in posts : /\ p.key[2] = e.row.parent
                                     /\ p.row.topic = e.row.topic
        /\ \A S \in SUBSET {e \in posts : e.name[1] = "comment"} :
              S # {} => \E e \in S : \A p \in S : e.row.parent # p.key[2]

-----------------------------------------------------------------------------
(* What a snapshot is: tables with keys, finitely many categories and       *)
(* discussions, and one state of a user for a topic.  The category -1 is     *)
(* above the others and not one of them.                                    *)

IsSnapshot(s) ==
    /\ IsFiniteSet(DOMAIN s.categories) /\ IsFiniteSet(DOMAIN s.discussions)
    /\ TopLevel \notin DOMAIN s.categories
    /\ \A c \in DOMAIN s.categories : CategoryTopic(c) # Nothing
    /\ \A d \in DOMAIN s.discussions : Thread(d) # Nothing
    /\ Nothing \notin DOMAIN s.comments
    /\ \A v, w \in s.states : v.topic = w.topic /\ v.user = w.user => v = w

ASSUME SnapshotsAssumption == \A s \in Snapshots : IsSnapshot(s)

\* What holds of a snapshot, and so of all: the properties of PlannedImport.
IsKeptOut(s) == IsRejected(s) \/ KeepsOut(s)
IsWhole(s) == IsRejected(s) \/ IsConnected(s)

PlansKeepOut == \A s \in Snapshots : IsKeptOut(s)
PlansConnect == \A s \in Snapshots : IsWhole(s)

=============================================================================
