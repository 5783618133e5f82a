--------------------------- MODULE TopicReadsProofs ---------------------------
(***************************************************************************)
(* Proofs about TopicReads, for any topics, roles, challenges, categories  *)
(* and readers: lists, catalog and topic detail make one decision.         *)
(***************************************************************************)
EXTENDS TopicReads, TopicTreeProofs

\* What a chain carries on a topic without a parent is its own value.
LEMMA RootCarriesItsOwn ==
  ASSUME TypeOK, ClosureExact, NEW t \in Existing, topic[t].parent = None,
         NEW value
  PROVE  /\ Chain(t) = {t} /\ Ancestors(t) = {}
         /\ Nearest(t, Chain(t), value) = value[t]
         /\ ~Conflicting(t, value)
<1>1. RowsOf(t) = {<<t, t, 0>>} /\ <<t, t, 0>>[1] = t
  BY DEF ClosureExact
<1>2. Chain(t) = {t}
  BY <1>1 DEF Chain
<1>3. closure \subseteq Topics \X Topics \X Nat
  BY TypeOKEquiv
<1>4. Nearest(t, Chain(t), value) = value[t]
  BY <1>2, <1>3, NearestIsCarried
<1> QED
  BY <1>2, <1>4 DEF Ancestors, Conflicting

\* The chain of a child is itself and its parent's chain.
LEMMA ChainIsParents ==
  ASSUME ClosureExact, NEW t \in Existing, topic[t].parent # None
  PROVE  Chain(t) = {t} \cup Chain(topic[t].parent)
<1> DEFINE p == topic[t].parent
<1>1. /\ RowsOf(t) = {<<t, t, 0>>} \cup {<<row[1], t, row[3] + 1>> :
                                           row \in RowsOf(p)}
  BY DEF ClosureExact
<1>2. \A row : <<row[1], t, row[3] + 1>>[1] = row[1]
  OBVIOUS
<1>3. ASSUME NEW a \in Chain(t) PROVE a \in {t} \cup Chain(p)
  <2>1. PICK row \in RowsOf(t) : a = row[1]
    BY DEF Chain
  <2>2. row = <<t, t, 0>> \/ \E up \in RowsOf(p) : row = <<up[1], t, up[3] + 1>>
    BY <1>1, <2>1
  <2> QED
    BY <2>1, <2>2 DEF Chain
<1> QED
  BY <1>3, ChainOfChild

\* Merging a value with what the parent's chain carries gives what the whole
\* chain carries, and a clash is exactly a conflict.
LEMMA MergeIsNearest ==
  ASSUME TypeOK, ClosureExact, NEW t \in Existing, topic[t].parent # None,
         NEW value, ~Conflicting(topic[t].parent, value)
  PROVE  LET inherited == Nearest(topic[t].parent, Chain(topic[t].parent), value)
             merged == Nearest(t, Chain(t), value)
         IN /\ Conflicting(t, value) <=> Clash(inherited, value[t])
            /\ ~Conflicting(t, value) => merged = Either(value[t], inherited)
            /\ merged = None <=> Either(value[t], inherited) = None
<1> DEFINE p == topic[t].parent
           inherited == Nearest(p, Chain(p), value)
           merged == Nearest(t, Chain(t), value)
<1>1. closure \subseteq Topics \X Topics \X Nat
  BY TypeOKEquiv
<1>2. Chain(t) = {t} \cup Chain(p)
  BY ChainIsParents
<1>3. \/ inherited = None /\ \A a \in Chain(p) : value[a] = None
      \/ \E a \in Chain(p) : value[a] # None /\ inherited = value[a]
  BY <1>1, NearestIsCarried
<1>4. \/ merged = None /\ \A a \in Chain(t) : value[a] = None
      \/ \E a \in Chain(t) : value[a] # None /\ merged = value[a]
  BY <1>1, NearestIsCarried
<1> HIDE DEF p, inherited, merged
<1>5. Conflicting(t, value) <=> Clash(inherited, value[t])
  BY <1>2, <1>3 DEF Conflicting, Clash, p
<1>6. ~Conflicting(t, value) => merged = Either(value[t], inherited)
  BY <1>2, <1>3, <1>4 DEF Conflicting, Either
<1>7. merged = None <=> Either(value[t], inherited) = None
  BY <1>2, <1>3, <1>4 DEF Either
<1> QED
  BY <1>5, <1>6, <1>7 DEF p, inherited, merged

\* Two restrictions that carry a challenge together, a role together and a
\* conflict together and, unless they do conflict, are the same, admit the same.
LEMMA SeesAlike ==
  ASSUME NEW p, NEW a, NEW r, NEW s,
         r.challenge = None <=> s.challenge = None,
         r.role = None <=> s.role = None,
         r.conflict <=> s.conflict,
         ~s.conflict => r.challenge = s.challenge /\ r.role = s.role
  PROVE  Sees(p, r, Facts[a, r.challenge]) <=> Sees(p, s, Facts[a, s.challenge])
BY DEF Sees

LEMMA RootRowAgrees ==
  ASSUME TypeOK, ClosureExact, NEW a \in Actors, NEW t \in Existing,
         topic[t].parent = None
  PROVE  Views(a, t) <=> ListedAsRoot(a, t)
<1>1. /\ Ancestors(t) = {}
      /\ EffectiveChallenge(t) = ChallengeOf[t] /\ EffectiveRole(t) = RoleOf[t]
      /\ ~HasRestrictionConflict(t)
  BY RootCarriesItsOwn
     DEF EffectiveChallenge, EffectiveRole, HasRestrictionConflict
<1>2. Sees(Principal[a], Restrictions(t), FactsOf(a, t)) <=>
        Sees(Principal[a], RootRowRestrictions(t), Facts[a, topic[t].challenge])
  <2> DEFINE r == Restrictions(t)
             s == RootRowRestrictions(t)
  <2>1. /\ r.challenge = topic[t].challenge /\ r.role = topic[t].role
        /\ s.challenge = topic[t].challenge /\ s.role = topic[t].role
        /\ ~r.conflict /\ ~s.conflict
    BY <1>1 DEF Restrictions, RootRowRestrictions, Unconflicted, ChallengeOf,
                RoleOf
  <2>2. FactsOf(a, t) = Facts[a, r.challenge]
    BY DEF FactsOf, Restrictions
  <2> HIDE DEF r, s
  <2>3. Sees(Principal[a], r, Facts[a, r.challenge]) <=>
          Sees(Principal[a], s, Facts[a, s.challenge])
    BY <2>1, SeesAlike
  <2> QED
    BY <2>1, <2>2, <2>3 DEF r, s
<1>3. Active(t) <=> ~topic[t].deleted
  BY <1>1 DEF Active, HasDeletedAncestor
<1>4. ASSUME topic[t].challenge # None,
             Sees(Principal[a], RootRowRestrictions(t),
                  Facts[a, topic[t].challenge])
      PROVE  /\ Authenticated(Principal[a])
             /\ Sees(Principal[a], Unconflicted(topic[t].challenge, None),
                     Facts[a, topic[t].challenge])
  BY <1>4 DEF Sees, RootRowRestrictions, Unconflicted, SatisfiesRole
<1>5. RootRowRestrictions(t).challenge = topic[t].challenge
  BY DEF RootRowRestrictions, Unconflicted
<1> QED
  BY <1>2, <1>3, <1>4, <1>5 DEF Views, CanView, ListedAsRoot, RowVisible

LEMMA ChildRowAgrees ==
  ASSUME TypeOK, ClosureExact, NEW a \in Actors, NEW t \in Existing,
         topic[t].parent # None
  PROVE  Views(a, t) <=> ListedAsChild(a, topic[t].parent, t)
<1> DEFINE p == topic[t].parent
           r == Restrictions(t)
           s == ChildRowRestrictions(p, t)
<1>1. p \in Existing /\ Chain(t) = {t} \cup Chain(p)
  BY ChainIsParents, ChainOfChild
<1>2. p \in Chain(p)
  BY <1>1, ChainOfChild
<1>3. Views(a, t) => Views(a, p)
  BY TypeOKEquiv, ExactClosureHides DEF VisibilityMonotone
<1>4. Views(a, p) => Active(p)
  BY DEF Views, CanView
<1>5. Active(p) => (Active(t) <=> ~topic[t].deleted)
  <2>1. Active(p) => \A x \in Chain(p) : ~topic[x].deleted
    BY DEF Active, HasDeletedAncestor, Ancestors
  <2> QED
    BY <1>1, <2>1 DEF Active, HasDeletedAncestor, Ancestors
<1>6. /\ r.challenge = EffectiveChallenge(t) /\ r.role = EffectiveRole(t)
      /\ r.conflict = HasRestrictionConflict(t)
  BY DEF Restrictions
<1>7. /\ s.challenge = Either(ChallengeOf[t], EffectiveChallenge(p))
      /\ s.role = Either(RoleOf[t], EffectiveRole(p))
      /\ s.conflict <=> \/ HasRestrictionConflict(p)
                        \/ Clash(EffectiveChallenge(p), ChallengeOf[t])
                        \/ Clash(EffectiveRole(p), RoleOf[t])
  BY DEF ChildRowRestrictions, Restrictions, ChallengeOf, RoleOf
<1>8. FactsOf(a, t) = Facts[a, r.challenge]
  BY <1>6 DEF FactsOf
<1> HIDE DEF r, s
<1>9. ASSUME NEW value, Conflicting(p, value)
      PROVE  Conflicting(t, value)
  BY <1>1, <1>9 DEF Conflicting
<1> DEFINE Alike == /\ r.challenge = None <=> s.challenge = None
                    /\ r.role = None <=> s.role = None
                    /\ r.conflict <=> s.conflict
                    /\ ~s.conflict => r.challenge = s.challenge /\ r.role = s.role
<1>10. ASSUME HasRestrictionConflict(p) PROVE Alike
  <2>1. r.conflict /\ s.conflict
    BY <1>6, <1>7, <1>9, <1>10 DEF HasRestrictionConflict
  <2>2. closure \subseteq Topics \X Topics \X Nat
    BY TypeOKEquiv
  <2>3. ASSUME NEW value
        PROVE  Nearest(t, Chain(t), value) = None <=>
                 Either(value[t], Nearest(p, Chain(p), value)) = None
    BY <1>1, <2>2, NearestIsCarried DEF Either
  <2>4. (r.challenge = None <=> s.challenge = None)
        /\ (r.role = None <=> s.role = None)
    BY <1>6, <1>7, <2>3 DEF EffectiveChallenge, EffectiveRole
  <2> QED
    BY <2>1, <2>4
<1>11. ASSUME ~HasRestrictionConflict(p) PROVE Alike
  <2>1. ~Conflicting(p, ChallengeOf) /\ ~Conflicting(p, RoleOf)
    BY <1>11 DEF HasRestrictionConflict
  <2>2. /\ Conflicting(t, ChallengeOf) <=>
             Clash(EffectiveChallenge(p), ChallengeOf[t])
        /\ ~Conflicting(t, ChallengeOf) =>
             EffectiveChallenge(t) = Either(ChallengeOf[t], EffectiveChallenge(p))
        /\ EffectiveChallenge(t) = None <=>
             Either(ChallengeOf[t], EffectiveChallenge(p)) = None
    BY <2>1, MergeIsNearest DEF EffectiveChallenge
  <2>3. /\ Conflicting(t, RoleOf) <=> Clash(EffectiveRole(p), RoleOf[t])
        /\ ~Conflicting(t, RoleOf) =>
             EffectiveRole(t) = Either(RoleOf[t], EffectiveRole(p))
        /\ EffectiveRole(t) = None <=>
             Either(RoleOf[t], EffectiveRole(p)) = None
    BY <2>1, MergeIsNearest DEF EffectiveRole
  <2> QED
    BY <1>6, <1>7, <1>11, <2>2, <2>3 DEF HasRestrictionConflict
<1>12. Sees(Principal[a], r, Facts[a, r.challenge]) <=>
         Sees(Principal[a], s, Facts[a, s.challenge])
  BY <1>10, <1>11, SeesAlike
<1>13. AclView(Principal[a], Acl(t)) /\ Sees(Principal[a], r, FactsOf(a, t))
         <=> RowVisible(a, t, s)
  BY <1>8, <1>12 DEF RowVisible
<1>14. Views(a, t) <=> Active(t) /\ RowVisible(a, t, s)
  BY <1>13 DEF Views, CanView, r
<1> QED
  BY <1>3, <1>4, <1>5, <1>14 DEF ListedAsChild, s, Active

\* Lists and detail agree in every state that IInv allows.
LEMMA ExactClosureLists ==
  ASSUME TypeOK, ClosureExact PROVE ListsAgreeWithDetail
BY RootRowAgrees, ChildRowAgrees DEF ListsAgreeWithDetail

-----------------------------------------------------------------------------
(* The catalog                                                             *)

\* A category reads the rules of its own chain.
LEMMA CategoryIsManaged ==
  ASSUME ClosureExact, NEW t \in Existing, IsCategory(t)
  PROVE  Managed(Acl(t))
<1>1. <<t, t, 0>> \in RowsOf(t) /\ <<t, t, 0>>[1] = t
  BY DEF ClosureExact
<1> DEFINE rows == {row \in RowsOf(t) : IsCategory(row[1])}
<1>2. rows # {} /\ Category[t] \in {Category[row[1]] : row \in rows}
  BY <1>1
<1> QED
  BY <1>2 DEF Acl, Managed

\* The SQL predicate of the role is the policy's, for who is authenticated as it
\* asks; with no restriction nobody is asked.
LEMMA RolePredicate ==
  ASSUME NEW p, NEW role, role # None,
         Authenticated(p), Bypasses(p) \/ SatisfiesRole(p, role)
  PROVE  p.machine \/ (p.admin /\ p.id # None) \/ (p.id # None /\ role \in p.roles)
BY DEF Authenticated, Bypasses, SatisfiesRole

LEMMA CompleteFromInv == LeavesInv => CatalogIsComplete
<1> SUFFICES ASSUME LeavesInv, NEW a \in Actors, NEW t \in Existing, Views(a, t),
                    topic[t].parent \in DOMAIN Category, ~IsCategory(t)
             PROVE  InCatalog(a, t)
  BY DEF CatalogIsComplete
<1> DEFINE p == topic[t].parent
<1>1. TypeOK /\ ClosureExact /\ ThreadsAreLeaves /\ ChallengeTopicsStandAlone
  BY DEF LeavesInv, IInv
<1>2. p # None /\ p \in Existing /\ IsCategory(p)
  BY <1>1, AbsentAssumption, CategoryAssumption
     DEF IsCategory, ClosureExact
<1>3. Views(a, p)
  BY <1>1, <1>2, TypeOKEquiv, ExactClosureHides DEF VisibilityMonotone
<1>4. Category[p].discussions
  BY <1>1, <1>2, CategoryIsManaged DEF ThreadsAreLeaves
<1>5. ListableCategory(a, p)
  BY <1>2, <1>3, <1>4 DEF ListableCategory
<1>6. topic[t].challenge = None
  BY <1>1, <1>2 DEF ChallengeTopicsStandAlone
<1>7. ~topic[t].deleted /\ ~HasDeletedAncestor(t)
  BY DEF Views, CanView, Active
<1>8. ASSUME topic[t].role # None
      PROVE  /\ EffectiveRole(t) # None
             /\ ~HasRestrictionConflict(t) => EffectiveRole(t) = topic[t].role
  <2>1. t \in Chain(t) /\ RoleOf[t] = topic[t].role
    BY <1>1, ChainOfChild DEF RoleOf
  <2>2. closure \subseteq Topics \X Topics \X Nat
    BY <1>1, TypeOKEquiv
  <2>3. \/ EffectiveRole(t) = None /\ \A x \in Chain(t) : RoleOf[x] = None
        \/ \E x \in Chain(t) : RoleOf[x] # None /\ EffectiveRole(t) = RoleOf[x]
    BY <2>2, NearestIsCarried DEF EffectiveRole
  <2> QED
    BY <1>8, <2>1, <2>3 DEF HasRestrictionConflict, Conflicting
<1>9. ASSUME topic[t].role # None
      PROVE  /\ Authenticated(Principal[a])
             /\ Bypasses(Principal[a]) \/ SatisfiesRole(Principal[a], topic[t].role)
  <2>1. Sees(Principal[a], Restrictions(t), FactsOf(a, t))
    BY DEF Views, CanView
  <2> QED
    BY <1>8, <1>9, <2>1 DEF Sees, Restrictions
<1> QED
  BY <1>5, <1>6, <1>7, <1>9, RolePredicate DEF InCatalog

\* Without two roles on an active chain the catalog shows no more than detail.
LEMMA SoundFromInv == LeavesInv /\ NoRoleConflict => CatalogIsSound
<1> SUFFICES ASSUME LeavesInv, NoRoleConflict, NEW a \in Actors,
                    NEW t \in Existing, InCatalog(a, t)
             PROVE  Views(a, t)
  BY DEF CatalogIsSound
<1> DEFINE p == topic[t].parent
           person == Principal[a]
<1>1. TypeOK /\ ClosureExact /\ closure \subseteq Topics \X Topics \X Nat
  BY TypeOKEquiv DEF LeavesInv, IInv
<1>2. /\ p \in Existing /\ IsCategory(p) /\ Views(a, p)
      /\ topic[t].challenge = None /\ ~IsCategory(t)
      /\ ~topic[t].deleted /\ ~HasDeletedAncestor(t)
  BY DEF InCatalog, ListableCategory
<1>3. p # None
  BY <1>2, AbsentAssumption, CategoryAssumption DEF IsCategory
<1>4. Chain(t) = {t} \cup Chain(p)
  BY <1>1, <1>3, ChainIsParents
<1>5. Active(t) /\ ~Conflicting(t, RoleOf)
  BY <1>2 DEF Active, NoRoleConflict
<1>6. AclView(person, Acl(t))
  <2>1. ASSUME NEW rule \in Acl(t).chain PROVE rule \in Acl(p).chain
    <3>1. PICK row \in RowsOf(t) : IsCategory(row[1]) /\ rule = Category[row[1]]
      BY <2>1 DEF Acl, NoAcl
    <3>2. row[1] \in Chain(p)
      BY <1>2, <1>4, <3>1 DEF Chain
    <3>3. PICK up \in RowsOf(p) : up[1] = row[1]
      BY <3>2 DEF Chain
    <3> QED
      BY <3>1, <3>3 DEF Acl
  <2> QED
    BY <1>2, <2>1 DEF Views, CanView, AclView
<1>7. /\ EffectiveChallenge(t) = None <=> EffectiveChallenge(p) = None
      /\ ~Conflicting(p, ChallengeOf) =>
           /\ ~Conflicting(t, ChallengeOf)
           /\ EffectiveChallenge(t) = EffectiveChallenge(p)
  <2>1. ChallengeOf[t] = None
    BY <1>2 DEF ChallengeOf
  <2>2. EffectiveChallenge(t) = None <=> EffectiveChallenge(p) = None
    BY <1>1, <1>4, <2>1, NearestIsCarried DEF EffectiveChallenge
  <2>3. ASSUME ~Conflicting(p, ChallengeOf)
        PROVE  /\ ~Conflicting(t, ChallengeOf)
               /\ EffectiveChallenge(t) = EffectiveChallenge(p)
    BY <1>1, <1>3, <2>1, <2>3, MergeIsNearest
       DEF EffectiveChallenge, Clash, Either
  <2> QED
    BY <2>2, <2>3
<1>8. EffectiveRole(t) = Either(topic[t].role, EffectiveRole(p))
  <2>1. ~Conflicting(p, RoleOf)
    BY <1>4, <1>5 DEF Conflicting
  <2>2. RoleOf[t] = topic[t].role
    BY DEF RoleOf
  <2> QED
    BY <1>1, <1>3, <1>5, <2>1, <2>2, MergeIsNearest DEF EffectiveRole
<1>9. Sees(person, Restrictions(p), FactsOf(a, p))
  BY <1>2 DEF Views, CanView
<1>10. \/ person.machine
       \/ person.admin /\ person.id # None
       \/ topic[t].role = None
       \/ person.id # None /\ topic[t].role \in person.roles
  BY DEF InCatalog
<1> HIDE DEF p, person
<1>11. Authenticated(person)
         \/ (EffectiveChallenge(t) = None /\ EffectiveRole(t) = None)
  BY <1>7, <1>8, <1>9, <1>10 DEF Sees, Restrictions, Authenticated, Either
<1>12. ASSUME ~Bypasses(person)
       PROVE  /\ ~HasRestrictionConflict(t)
              /\ SatisfiesRole(person, EffectiveRole(t))
              /\ EffectiveChallenge(t) # None => ChallengeAdmits(FactsOf(a, t))
  <2>1. /\ ~HasRestrictionConflict(p)
        /\ SatisfiesRole(person, EffectiveRole(p))
        /\ EffectiveChallenge(p) # None => ChallengeAdmits(FactsOf(a, p))
    BY <1>9, <1>12 DEF Sees, Restrictions
  <2>2. ~HasRestrictionConflict(t) /\ EffectiveChallenge(t) = EffectiveChallenge(p)
    BY <1>5, <1>7, <2>1 DEF HasRestrictionConflict
  <2>3. SatisfiesRole(person, EffectiveRole(t))
    BY <1>8, <1>10, <1>12, <2>1 DEF SatisfiesRole, Either, Bypasses
  <2> QED
    BY <2>1, <2>2, <2>3 DEF FactsOf
<1>13. Sees(person, Restrictions(t), FactsOf(a, t))
  BY <1>11, <1>12 DEF Sees, Restrictions
<1> QED
  BY <1>5, <1>6, <1>13 DEF Views, CanView, person

-----------------------------------------------------------------------------
(* Theorems                                                                *)

\* Root and child lists show exactly what topic detail allows, in every state
\* that any number of racing commands can reach: resolveRootRowRestrictions and
\* resolveChildRowRestrictions decide as the full context would.
THEOREM ListsAgree == Spec => []ListsAgreeWithDetail
<1>1. IInv => ListsAgreeWithDetail
  BY ExactClosureLists DEF IInv
<1> QED
  BY <1>1, InductiveInvariant, PTL

\* The SQL of visibleThreads hides no thread that topic detail shows.
THEOREM CatalogHidesNothing == Spec => []CatalogIsComplete
BY CompleteFromInv, LeavesInvariant, PTL

\* As long as no active topic carries two roles on its chain, the SQL predicate
\* and the policy agree; racing role updates are the only way to part them.
THEOREM CatalogAgrees == Spec => [](NoRoleConflict => CatalogAgreesWithDetail)
<1>1. LeavesInv => (NoRoleConflict => CatalogAgreesWithDetail)
  BY CompleteFromInv, SoundFromInv DEF CatalogAgreesWithDetail
<1> QED
  BY <1>1, LeavesInvariant, PTL

\* So where commands do not overlap they always agree.
THEOREM SerialCatalogAgrees ==
  ASSUME OneAtATime
  PROVE  Spec => []CatalogAgreesWithDetail
<1>1. AloneInv => NoRoleConflict
  BY DEF AloneInv
<1> QED
  BY <1>1, AloneInvariant, CatalogAgrees, PTL
=============================================================================
