----------------------------- MODULE TopicReads -----------------------------
(***************************************************************************)
(* The read side of the topic tree.  Topic detail decides with the full    *)
(* context of one topic (TopicTree!Views).  The lists do not load a        *)
(* context per row: the root lists use the row's own restrictions, the     *)
(* child list merges each row with its parent's context, and the public    *)
(* catalog repeats the policy as a SQL predicate.  These are the four      *)
(* versions of one rule, and what has to hold between them.                *)
(***************************************************************************)
EXTENDS TopicTree

Either(direct, inherited) == IF direct # None THEN direct ELSE inherited

Clash(inherited, direct) ==
  inherited # None /\ direct # None /\ inherited # direct

\* Mutant of RootRowRestrictions: the row's role is not looked at.
RootRowChallenge(t) == Unconflicted(topic[t].challenge, None)

\* resolveRootRowRestrictions
RootRowRestrictions(t) == Unconflicted(topic[t].challenge, topic[t].role)

\* Mutant of ChildRowRestrictions: the child's own value shadows its parent's.
ChildRowShadows(parent, t) ==
  LET inherited == Restrictions(parent)
  IN [challenge |-> Either(topic[t].challenge, inherited.challenge),
      role |-> Either(topic[t].role, inherited.role),
      conflict |-> inherited.conflict]

\* resolveChildRowRestrictions, with the parent's loaded context
ChildRowRestrictions(parent, t) ==
  LET inherited == Restrictions(parent)
  IN [challenge |-> Either(topic[t].challenge, inherited.challenge),
      role |-> Either(topic[t].role, inherited.role),
      conflict |-> \/ inherited.conflict
                   \/ Clash(inherited.challenge, topic[t].challenge)
                   \/ Clash(inherited.role, topic[t].role)]

\* decideForRestrictionVisibility of a list row
RowVisible(a, t, r) ==
  /\ AclView(Principal[a], Acl(t))
  /\ Sees(Principal[a], r, Facts[a, r.challenge])

\* listGeneralRootTopics and listChallengeRootTopics; the latter first asks
\* for the challenge itself, without a role.
ListedAsRoot(a, t) ==
  LET challenge == topic[t].challenge
  IN /\ topic[t].parent = None /\ ~topic[t].deleted
     /\ challenge # None =>
          /\ Authenticated(Principal[a])
          /\ Sees(Principal[a], Unconflicted(challenge, None),
                  Facts[a, challenge])
     /\ RowVisible(a, t, RootRowRestrictions(t))

\* listChildTopics
ListedAsChild(a, parent, t) ==
  /\ topic[t].parent = parent /\ ~topic[t].deleted
  /\ Views(a, parent) /\ Active(parent)
  /\ RowVisible(a, t, ChildRowRestrictions(parent, t))

\* Mutant of ListableCategory: the containers above are not asked.
ListableOnItsOwn(a, c) ==
  /\ c \in Existing /\ IsCategory(c) /\ Active(c)
  /\ Matches(Principal[a], Category[c].read)

\* authorizedCategories: a container is dropped when nothing in it is visible
ListableCategory(a, c) ==
  /\ c \in Existing /\ IsCategory(c) /\ Views(a, c)
  /\ \/ Category[c].discussions
     \/ \E d \in DOMAIN Category : CategoryParent[d] = c /\ Views(a, d)

\* visibleThreads
InCatalog(a, t) ==
  LET p == Principal[a]
  IN /\ ListableCategory(a, topic[t].parent)
     /\ topic[t].challenge = None /\ ~topic[t].deleted
     /\ \/ p.machine
        \/ p.admin /\ p.id # None
        \/ topic[t].role = None
        \/ p.id # None /\ topic[t].role \in p.roles
     /\ ~IsCategory(t)
     /\ ~HasDeletedAncestor(t)

-----------------------------------------------------------------------------
\* Root and child lists show exactly the rows whose detail the same reader may
\* open, whatever role writes raced before: merging a row with its parent's
\* context gives the decision of the row's own context.
ListsAgreeWithDetail ==
  \A a \in Actors, t \in Existing :
    LET parent == topic[t].parent IN
    Views(a, t) <=> IF parent = None THEN ListedAsRoot(a, t)
                                     ELSE ListedAsChild(a, parent, t)

\* The catalog never hides a thread its reader may open.
CatalogIsComplete ==
  \A a \in Actors, t \in Existing :
    /\ Views(a, t)
    /\ topic[t].parent \in DOMAIN Category /\ ~IsCategory(t)
    => InCatalog(a, t)

\* The catalog lists only threads whose detail the reader may open.
CatalogIsSound ==
  \A a \in Actors, t \in Existing : InCatalog(a, t) => Views(a, t)

\* The SQL predicate of the catalog and the policy of topic detail, which
\* share no code, agree on every thread of a category.
CatalogAgreesWithDetail == CatalogIsComplete /\ CatalogIsSound
=============================================================================
